------------------------ MODULE WireContractProofs -------------------------
(***************************************************************************)
(* A plan through its constructors and over the wire: they refuse nothing  *)
(* that the library makes of it, and it is read back as what was written.  *)
(***************************************************************************)
EXTENDS WireContract, FiniteSetTheorems, TLAPS

\* Sorting a finite set keeps its elements.
LEMMA SetToSeqKeeps ==
  ASSUME NEW S, IsFiniteSet(S)
  PROVE  ToSet(SetToSeq(S)) = S /\ (SetToSeq(S) = <<>> <=> S = {})
<1> DEFINE n == Cardinality(S)
           s == SetToSeq(S)
<1>1. n \in Nat /\ ExistsBijection(1..n, S)
  BY FS_CardinalityType
<1>2. \E f \in [1..n -> S] : IsInjective(f)
  BY <1>1 DEF ExistsBijection, Bijection, Injection, IsInjective
<1>3. s \in [1..n -> S] /\ IsInjective(s)
  BY <1>2 DEF SetToSeq
<1>4. s \in Surjection(1..n, S)
  <2>1. s \in Injection(1..n, S)
    BY <1>3 DEF Injection
  <2>2. IsFiniteSet(1..n) /\ Cardinality(1..n) = n
    BY <1>1, FS_Interval
  <2> HIDE DEF s
  <2> QED BY <2>1, <2>2, FS_Injection
<1>5. ToSet(s) = S
  BY <1>3, <1>4 DEF ToSet, Surjection
<1>6. s = <<>> <=> S = {}
  <2>1. s = <<>> => S = {}
    BY <1>5 DEF ToSet
  <2>2. S = {} => n = 0
    BY FS_EmptySet
  <2>3. n = 0 => s = <<>>
    BY <1>3
  <2> QED BY <2>1, <2>2, <2>3
<1> QED BY <1>5, <1>6

LEMMA ListFacts ==
  ASSUME NEW s, IsArray(s)
  PROVE  IsFiniteSet(ToSet(s)) /\ (s = <<>> <=> ToSet(s) = {})
<1> DEFINE n == Cardinality(DOMAIN s)
<1>1. n \in Nat /\ DOMAIN s = 1..n /\ s \in [1..n -> ToSet(s)]
  BY FS_CardinalityType DEF IsArray, IsObject, ToSet
<1>2. s \in Surjection(1..n, ToSet(s))
  BY <1>1 DEF Surjection, ToSet
<1>3. IsFiniteSet(ToSet(s))
  <2>1. IsFiniteSet(1..n)
    BY <1>1, FS_Interval
  <2> HIDE DEF n
  <2> QED BY <1>2, <2>1, FS_Surjection
<1>4. s = <<>> <=> n = 0
  <2> HIDE DEF n
  <2>1. s = <<>> => 1..n = {}
    BY <1>1
  <2>2. n = 0 => s = <<>>
    BY <1>1
  <2> QED BY <1>1, <2>1, <2>2
<1>5. n = 0 <=> ToSet(s) = {}
  <2>1. n = 0 => ToSet(s) = {}
    BY <1>1 DEF ToSet
  <2>2. n # 0 => s[1] \in ToSet(s)
    BY <1>1 DEF ToSet
  <2> QED BY <2>1, <2>2
<1> QED BY <1>3, <1>4, <1>5

LEMMA SortedArray ==
  ASSUME NEW S, IsFiniteSet(S)
  PROVE  IsArray(SetToSeq(S))
<1> DEFINE n == Cardinality(S)
           s == SetToSeq(S)
<1>1. n \in Nat /\ ExistsBijection(1..n, S)
  BY FS_CardinalityType
<1>2. \E f \in [1..n -> S] : IsInjective(f)
  BY <1>1 DEF ExistsBijection, Bijection, Injection, IsInjective
<1>3. s \in [1..n -> S]
  BY <1>2 DEF SetToSeq
<1>4. IsFiniteSet(1..n) /\ Cardinality(1..n) = n
  BY <1>1, FS_Interval
<1> HIDE DEF n, s
<1>5. IsArray(s)
  BY <1>3, <1>4 DEF IsArray, IsObject
<1> QED BY <1>5 DEF s

Shaped(p) == p = [f \in PlanFields |-> p[f]]
ShapedTraversal(t) == t = [f \in TraversalFields |-> t[f]]

LEMMA FieldFacts ==
  ASSUME NEW v, NEW fields
  PROVE  HasFields(v, fields) <=> v = [f \in fields |-> v[f]]
BY DEF HasFields, IsObject

\* What is there is not absent.
LEMMA PlanPresent ==
  ASSUME NEW p, Shaped(p)
  PROVE  p # Absent /\ p # Refused
BY DEF Shaped, PlanFields, Absent, Refused

LEMMA TraversalPresent ==
  ASSUME NEW t, ShapedTraversal(t)
  PROVE  t # Absent
BY DEF ShapedTraversal, TraversalFields, Absent

\* What acceptance says of everything but the traversal.
AcceptedAround(p) ==
  /\ TargetsAccepted(p)
  /\ p.operation = "aggregate" => p.aggregates # <<>>
  /\ p.operation # "aggregate" => p.aggregates = <<>> /\ p.grouping = <<>>
  /\ IsInjective(p.aggregates)
  /\ IsInjective(SelectSeq(p.result.projection, LAMBDA alias : alias # None))
  /\ p.page.size \in 1..500
  /\ p.budget.limit > 0
  /\ DOMAIN p.options \subseteq OptionKeys

\* What it says of the traversal.
AcceptedTraversing(p) ==
  /\ p.traversal # Absent <=> p.operation = "traverse"
  /\ p.traversal # Absent => TraversalAccepted(p.traversal)
  /\ p.result.shape = ShapeOf(p)

LEMMA AcceptedParts ==
  ASSUME NEW p
  PROVE  Accepted(p) <=> AcceptedAround(p) /\ AcceptedTraversing(p)
BY DEF Accepted, AcceptedAround, AcceptedTraversing

\* Another traversal, a wider filter, another order and a scope mark do not
\* disturb what the traversal has no part in.
LEMMA AroundKept ==
  ASSUME NEW p, NEW o, AcceptedAround(p),
         o.catalog = p.catalog, o.targets = p.targets, o.joins = p.joins,
         o.operation = p.operation, o.aggregates = p.aggregates, o.grouping = p.grouping,
         o.result = p.result, o.page = p.page, o.budget = p.budget,
         DOMAIN o.options \subseteq DOMAIN p.options \cup {"scopeInjected"}
  PROVE  AcceptedAround(o)
<1>1. TargetsAccepted(o)
  BY DEF AcceptedAround, TargetsAccepted
<1>2. DOMAIN o.options \subseteq OptionKeys
  BY DEF AcceptedAround, OptionKeys
<1> QED BY <1>1, <1>2 DEF AcceptedAround

\* The traversal of an accepted plan may be replaced by an accepted one of the
\* same shape.
LEMMA TraversingKept ==
  ASSUME NEW p, NEW o, AcceptedTraversing(p),
         o.operation = p.operation, o.result = p.result,
         o.traversal = Absent <=> p.traversal = Absent,
         o.traversal # Absent => TraversalAccepted(o.traversal) /\ o.traversal.shape = p.traversal.shape
  PROVE  AcceptedTraversing(o)
BY DEF AcceptedTraversing, ShapeOf

\* Sorting the relations of a traversal keeps it accepted and is done once.
LEMMA SelectionKept ==
  ASSUME NEW t, ShapedTraversal(t), IsArray(t.relations)
  PROVE  /\ ShapedTraversal(Selection(t)) /\ IsArray(Selection(t).relations)
         /\ Selection(t).relations = SetToSeq(ToSet(t.relations))
         /\ ToSet(Selection(t).relations) = ToSet(t.relations)
         /\ \A f \in TraversalFields \ {"relations"} : Selection(t)[f] = t[f]
         /\ Selection(Selection(t)) = Selection(t)
         /\ TraversalAccepted(t) => TraversalAccepted(Selection(t))
<1> DEFINE sel == Selection(t)
<1>1. /\ ShapedTraversal(sel)
      /\ sel.relations = SetToSeq(ToSet(t.relations))
      /\ \A f \in TraversalFields \ {"relations"} : sel[f] = t[f]
  BY DEF ShapedTraversal, Selection, TraversalFields
<1>2. ToSet(sel.relations) = ToSet(t.relations) /\ IsArray(sel.relations)
  BY <1>1, SetToSeqKeeps, ListFacts, SortedArray
<1>3. sel.relations = <<>> <=> t.relations = <<>>
  BY <1>2, ListFacts
<1> HIDE DEF sel
<1>4. TraversalAccepted(t) => TraversalAccepted(sel)
  BY <1>1, <1>2, <1>3 DEF TraversalAccepted, TraversalFields
<1>5. Selection(sel) = sel
  BY <1>1, <1>2 DEF Selection, ShapedTraversal, TraversalFields
<1> QED BY <1>1, <1>2, <1>4, <1>5 DEF sel
-----------------------------------------------------------------------------
(* A plan's life *)

\* The shape of a constructor's arguments.
Sound(p) ==
  /\ Shaped(p)
  /\ HasFields(p.page, PageKeys) /\ IsObject(p.options)
  /\ p.traversal # Absent => ShapedTraversal(p.traversal) /\ IsArray(p.traversal.relations)

\* A plan: accepted, and as its constructor makes it.
PlanOK(p) ==
  /\ Sound(p) /\ Accepted(p)
  /\ p.traversal # Absent => Selection(p.traversal) = p.traversal

\* What the constructor makes of accepted arguments is a plan.
LEMMA ConstructedOK ==
  ASSUME NEW p, Sound(p), Accepted(p)
  PROVE  /\ PlanOK(Constructed(p))
         /\ Constructed(p).traversal = IF p.traversal = Absent THEN Absent ELSE Selection(p.traversal)
         /\ \A f \in PlanFields \ {"traversal"} : Constructed(p)[f] = p[f]
<1> DEFINE o == Constructed(p)
<1>1. CASE p.traversal = Absent
  BY <1>1 DEF Constructed, PlanOK
<1>2. CASE p.traversal # Absent
  <2>1. /\ Shaped(o) /\ o.traversal = Selection(p.traversal)
        /\ \A f \in PlanFields \ {"traversal"} : o[f] = p[f]
    BY <1>2 DEF Constructed, Sound, Shaped, PlanFields
  <2>2. /\ o.catalog = p.catalog /\ o.targets = p.targets /\ o.joins = p.joins
        /\ o.operation = p.operation /\ o.aggregates = p.aggregates /\ o.grouping = p.grouping
        /\ o.result = p.result /\ o.page = p.page /\ o.budget = p.budget
        /\ o.options = p.options
    BY <2>1 DEF PlanFields
  <2>3. AcceptedAround(p) /\ AcceptedTraversing(p)
    BY AcceptedParts
  <2>4. /\ TraversalAccepted(o.traversal) /\ o.traversal.shape = p.traversal.shape
        /\ ShapedTraversal(o.traversal) /\ IsArray(o.traversal.relations)
        /\ Selection(o.traversal) = o.traversal
    BY <1>2, <2>1, <2>3, SelectionKept DEF Sound, AcceptedTraversing, TraversalFields
  <2>5. o.traversal # Absent
    BY <2>4, TraversalPresent
  <2> HIDE DEF o
  <2>6. AcceptedAround(o)
    BY <2>2, <2>3, AroundKept
  <2>7. AcceptedTraversing(o)
    BY <1>2, <2>2, <2>3, <2>4, <2>5, TraversingKept
  <2>8. PlanOK(o)
    BY <2>1, <2>2, <2>4, <2>6, <2>7, AcceptedParts DEF PlanOK, Sound
  <2> QED BY <1>2, <2>1, <2>8 DEF o
<1> QED BY <1>1, <1>2

LEMMA PlansSound ==
  ASSUME NEW p \in Plans
  PROVE  Sound(p)
BY PlanAssumption, FieldFacts DEF Sound, Shaped, ShapedTraversal

\* A traversal that a caller built and a resolver closed is accepted: its
\* predicates qualify no relation, since it had none.
LEMMA ClosedAccepted ==
  ASSUME NEW p \in Plans, Accepted(p), Dynamic(Constructed(p)), NEW c \in Resolutions
  PROVE  LET t == [Constructed(p).traversal EXCEPT !.relations = c.relations,
                                                   !.fingerprint = c.fingerprint]
         IN  /\ ShapedTraversal(t) /\ IsArray(t.relations) /\ TraversalAccepted(t)
             /\ t.shape = Constructed(p).traversal.shape
<1> DEFINE b == p.traversal
           u == Constructed(p).traversal
           t == [u EXCEPT !.relations = c.relations, !.fingerprint = c.fingerprint]
<1>1. Sound(p) /\ u # Absent /\ u.allNeighbors
  BY PlansSound DEF Dynamic
<1>2. b # Absent /\ u = Selection(b)
  BY <1>1, ConstructedOK
<1>3. /\ ShapedTraversal(b) /\ IsArray(b.relations) /\ TraversalAccepted(b) /\ b.fingerprint = None
      /\ c.fingerprint # None /\ IsArray(c.relations)
  BY <1>1, <1>2, PlanAssumption, AcceptedParts DEF Sound, AcceptedTraversing
<1>4. ShapedTraversal(u) /\ \A f \in TraversalFields \ {"relations"} : u[f] = b[f]
  BY <1>2, <1>3, SelectionKept
<1>5. /\ ShapedTraversal(t) /\ t.relations = c.relations /\ t.fingerprint = c.fingerprint
      /\ \A f \in TraversalFields \ {"relations", "fingerprint"} : t[f] = b[f]
  BY <1>4 DEF ShapedTraversal, TraversalFields
<1>6. b.allNeighbors
  BY <1>1, <1>4 DEF TraversalFields
<1>7. DOMAIN b.predicates = {}
  <2>1. b.relations = <<>>
    BY <1>3, <1>6 DEF TraversalAccepted
  <2>2. ToSet(b.relations) = {}
    BY <1>3, <2>1, ListFacts
  <2> QED BY <1>3, <2>2 DEF TraversalAccepted
<1>8. /\ t.allNeighbors = b.allNeighbors /\ t.predicates = b.predicates /\ t.shape = b.shape
      /\ t.minDepth = b.minDepth /\ t.maxDepth = b.maxDepth /\ u.shape = b.shape
  BY <1>4, <1>5 DEF TraversalFields
<1> HIDE DEF t, u, b
<1>9. TraversalAccepted(t)
  BY <1>3, <1>5, <1>6, <1>7, <1>8 DEF TraversalAccepted
<1> QED BY <1>3, <1>5, <1>8, <1>9 DEF t, u

\* The plan is accepted at every stage; what was sent, and not rewritten, is its
\* document; what was received is read from the document that arrived.
WInv ==
  /\ stage \in {"idle", "built", "normalized", "completed"}
  /\ IF stage = "idle" THEN plan = Absent ELSE PlanOK(plan)
  /\ stage = "built" => \E p \in Plans : Accepted(p) /\ plan = Constructed(p)
  /\ document # Absent => stage # "idle"
  /\ document # Absent /\ ~foreign => document = Document(plan)
  /\ received # Absent =>
       /\ document # Absent
       /\ received.policy \in Policies
       /\ received.plan = FromMapping(document, received.policy)

\* A constructor that is given what it accepts makes the next plan.
LEMMA AdvanceKept ==
  ASSUME WInv, NEW from, NEW p, NEW to \in {"built", "normalized", "completed"},
         Advances(from, p, to), Sound(p), Accepted(p),
         to = "built" => p \in Plans
  PROVE  WInv'
<1>1. plan' = Constructed(p) /\ stage' = to /\ document = Absent
      /\ UNCHANGED <<document, foreign, received>>
  BY DEF Advances
<1>2. PlanOK(plan')
  BY <1>1, ConstructedOK
<1>3. received = Absent
  BY <1>1 DEF WInv
<1> QED BY <1>1, <1>2, <1>3 DEF WInv

\* normalize_builder hands its constructor arguments it accepts.
LEMMA NormalizeKept ==
  ASSUME WInv, NEW closure \in Closures, NEW scope \in Scopes, Normalize(closure, scope)
  PROVE  WInv'
<1>1. PICK p \in Plans : Accepted(p) /\ plan = Constructed(p)
  BY DEF WInv, Normalize
<1> DEFINE closes == Dynamic(plan) /\ closure # None
           o == IF closes THEN Closed(plan, closure) ELSE plan
           n == Scoped(o, scope)
<1>2. Advances("built", n, "normalized")
  BY DEF Normalize
<1>3. PlanOK(plan) /\ Shaped(plan) /\ Accepted(plan) /\ AcceptedAround(plan) /\ AcceptedTraversing(plan)
  BY AcceptedParts DEF WInv, Normalize, PlanOK, Sound
<1>4. /\ Shaped(o)
      /\ \A f \in PlanFields \ {"traversal"} : o[f] = plan[f]
      /\ o.traversal = IF closes
                       THEN [plan.traversal EXCEPT !.relations = closure.relations,
                                                   !.fingerprint = closure.fingerprint]
                       ELSE plan.traversal
  BY <1>3 DEF Closed, Shaped, PlanFields
<1>5. /\ Shaped(n)
      /\ \A f \in PlanFields \ {"filter", "options"} : n[f] = o[f]
      /\ DOMAIN n.options \subseteq DOMAIN o.options \cup {"scopeInjected"}
      /\ IsObject(o.options) => IsObject(n.options)
  BY <1>4 DEF Scoped, Shaped, PlanFields, IsObject
<1>6. /\ n.traversal = Absent <=> plan.traversal = Absent
      /\ n.traversal # Absent =>
           /\ TraversalAccepted(n.traversal) /\ n.traversal.shape = plan.traversal.shape
           /\ ShapedTraversal(n.traversal) /\ IsArray(n.traversal.relations)
  <2>1. n.traversal = o.traversal
    BY <1>5 DEF PlanFields
  <2>2. CASE closes
    <3>1. closure \in Resolutions /\ plan.traversal # Absent
      BY <2>2 DEF Dynamic, Resolutions
    <3> DEFINE t == [plan.traversal EXCEPT !.relations = closure.relations,
                                           !.fingerprint = closure.fingerprint]
    <3>2. n.traversal = t
      BY <1>4, <2>1, <2>2
    <3>3. Dynamic(Constructed(p))
      BY <1>1, <2>2
    <3>4. /\ ShapedTraversal(t) /\ IsArray(t.relations) /\ TraversalAccepted(t)
          /\ t.shape = plan.traversal.shape
      BY <1>1, <3>1, <3>3, ClosedAccepted
    <3> HIDE DEF t, n
    <3>5. n.traversal # Absent
      BY <3>2, <3>4, TraversalPresent
    <3> QED BY <3>1, <3>2, <3>4, <3>5
  <2>3. CASE ~closes
    BY <1>3, <1>4, <2>1, <2>3 DEF AcceptedTraversing, PlanOK, Sound
  <2> QED BY <2>2, <2>3
<1>7. Sound(n) /\ Accepted(n)
  <2>1. /\ n.catalog = plan.catalog /\ n.targets = plan.targets /\ n.joins = plan.joins
        /\ n.operation = plan.operation /\ n.aggregates = plan.aggregates
        /\ n.grouping = plan.grouping /\ n.result = plan.result /\ n.page = plan.page
        /\ n.budget = plan.budget /\ IsObject(n.options)
        /\ DOMAIN n.options \subseteq DOMAIN plan.options \cup {"scopeInjected"}
    BY <1>3, <1>4, <1>5 DEF PlanFields, PlanOK, Sound
  <2>2. HasFields(n.page, PageKeys)
    BY <1>3, <2>1 DEF PlanOK, Sound
  <2> HIDE DEF n
  <2>3. AcceptedAround(n)
    BY <1>3, <2>1, AroundKept
  <2>4. AcceptedTraversing(n)
    BY <1>3, <1>6, <2>1, TraversingKept
  <2> QED BY <1>5, <1>6, <2>1, <2>2, <2>3, <2>4, AcceptedParts DEF Sound
<1> HIDE DEF n
<1> QED BY <1>2, <1>7, AdvanceKept

\* _ensure_order appends to the order of a scan or a search, which the
\* constructor does not look at.
LEMMA CompleteKept ==
  ASSUME WInv, NEW tieBreaker, Complete(tieBreaker)
  PROVE  WInv'
<1> DEFINE o == [plan EXCEPT !.order = Append(@, tieBreaker)]
<1>1. PlanOK(plan) /\ Advances("normalized", o, "completed") /\ plan.operation # "traverse"
  BY DEF WInv, Complete
<1>2. Shaped(o) /\ \A f \in PlanFields \ {"order"} : o[f] = plan[f]
  BY <1>1 DEF Shaped, PlanFields, PlanOK, Sound
<1>3. /\ o.catalog = plan.catalog /\ o.targets = plan.targets /\ o.joins = plan.joins
      /\ o.operation = plan.operation /\ o.aggregates = plan.aggregates
      /\ o.grouping = plan.grouping /\ o.result = plan.result /\ o.page = plan.page
      /\ o.budget = plan.budget /\ o.options = plan.options /\ o.traversal = plan.traversal
  BY <1>2 DEF PlanFields
<1> HIDE DEF o
<1>4. AcceptedAround(plan) /\ AcceptedTraversing(plan) /\ plan.traversal = Absent
  BY <1>1, AcceptedParts DEF AcceptedTraversing, PlanOK
<1>5. AcceptedAround(o)
  BY <1>3, <1>4, AroundKept
<1>6. AcceptedTraversing(o)
  BY <1>3, <1>4, TraversingKept
<1>7. Sound(o) /\ Accepted(o)
  BY <1>1, <1>2, <1>3, <1>4, <1>5, <1>6, AcceptedParts DEF PlanOK, Sound
<1> QED BY <1>1, <1>7, AdvanceKept

LEMMA NextWInv == WInv /\ [Next]_vars => WInv'
<1> SUFFICES ASSUME WInv, [Next]_vars PROVE WInv'
  OBVIOUS
<1>1. ASSUME NEW p \in Plans, Build(p) PROVE WInv'
  BY <1>1, PlansSound, AdvanceKept DEF Build
<1>2. ASSUME NEW closure \in Closures, NEW scope \in Scopes, Normalize(closure, scope) PROVE WInv'
  BY <1>2, NormalizeKept
<1>3. CASE Complete("tie-breaker")
  BY <1>3, CompleteKept
<1>4. CASE Send
  <2>1. stage # "idle"
    BY <1>4 DEF Send, WInv
  <2>2. received = Absent
    BY <1>4 DEF Send, WInv
  <2> QED BY <1>4, <2>1, <2>2 DEF Send, WInv
<1>5. CASE Rewrite
  BY <1>5 DEF Rewrite, WInv
<1>6. ASSUME NEW policy \in Policies, Receive(policy) PROVE WInv'
  BY <1>6 DEF Receive, WInv
<1>7. CASE UNCHANGED vars
  BY <1>7 DEF vars, WInv
<1> QED BY <1>1, <1>2, <1>3, <1>4, <1>5, <1>6, <1>7 DEF Next

LEMMA SpecWInv == Spec => []WInv
<1>1. Init => WInv
  BY DEF Init, WInv
<1> QED BY <1>1, NextWInv, PTL DEF Spec

\* Whatever is built and however it is closed and scoped, no constructor raises
\* on the way to a planned query (wire/__init__.py:358-392, 496-560).
THEOREM NeverRaisesMidway == Spec => []NothingRaisesMidway
<1>1. WInv => NothingRaisesMidway
  BY DEF WInv, NothingRaisesMidway
<1> QED BY <1>1, SpecWInv, PTL
-----------------------------------------------------------------------------
(* Reading *)

\* What from_mapping returns is a plan.
LEMMA ReadSound ==
  ASSUME NEW d, NEW policy, Readable(d, policy)
  PROVE  Sound(Read(d))
<1> DEFINE p == Read(d)
<1>1. Shaped(p) /\ p.page = d.page
  BY DEF Read, Shaped, PlanFields
<1>2. IsObject(p.options)
  BY DEF Read, IsObject
<1>3. p.traversal = TraversalRead(d.traversal)
  BY DEF Read
<1> HIDE DEF p
<1>4. ASSUME p.traversal # Absent
      PROVE  ShapedTraversal(p.traversal) /\ IsArray(p.traversal.relations)
  <2>1. d.traversal # Absent
    BY <1>3, <1>4 DEF TraversalRead
  <2>2. IsArray(d.traversal.relationSelector.relationCollections)
    BY <2>1 DEF Readable, TraversalReadable
  <2> QED BY <1>3, <2>1, <2>2 DEF TraversalRead, ShapedTraversal, TraversalFields
<1>5. Sound(p)
  BY <1>1, <1>2, <1>4 DEF Readable, Sound
<1> QED BY <1>5 DEF p

LEMMA FromMappingOK ==
  ASSUME NEW d, NEW policy, FromMapping(d, policy) # Refused
  PROVE  /\ Readable(d, policy) /\ Accepted(Read(d)) /\ FromMapping(d, policy) = Constructed(Read(d))
         /\ PlanOK(FromMapping(d, policy))
<1>1. Readable(d, policy) /\ Accepted(Read(d)) /\ FromMapping(d, policy) = Constructed(Read(d))
  BY DEF FromMapping
<1> QED BY <1>1, ReadSound, ConstructedOK

LEMMA PlanMeant ==
  ASSUME NEW p, PlanOK(p)
  PROVE  SelectorMeant(p)
BY AcceptedParts
  DEF PlanOK, AcceptedTraversing, TraversalAccepted, SelectorMeant, Explicit, Unresolved, ResolvedBy

\* Every plan, made here or read from any document, has one of the three
\* meanings a selector can have (wire/__init__.py:361-373).
THEOREM TypeCorrect == Spec => []TypeOK
<1>1. WInv => TypeOK
  <2> SUFFICES ASSUME WInv PROVE TypeOK
    OBVIOUS
  <2>1. stage = "idle" <=> plan = Absent
    BY PlanPresent DEF WInv, PlanOK, Sound
  <2>2. plan # Absent => SelectorMeant(plan)
    BY <2>1, PlanMeant DEF WInv
  <2>3. received # Absent /\ received.plan # Refused => SelectorMeant(received.plan)
    BY FromMappingOK, PlanMeant DEF WInv
  <2> QED BY <2>1, <2>2, <2>3 DEF WInv, TypeOK
<1> QED BY <1>1, SpecWInv, PTL

\* Reading back what is written gives the plan it was written from.
LEMMA ReadOfDocument ==
  ASSUME NEW p, PlanOK(p)
  PROVE  Read(Document(p)) = p
<1> DEFINE d == Document(p)
           r == Read(d)
<1>1. Shaped(p) /\ IsObject(p.options) /\ "budget" \notin DOMAIN p.options
  BY AcceptedParts DEF PlanOK, Sound, AcceptedAround, OptionKeys
<1>2. r.traversal = p.traversal
  <2>1. r.traversal = TraversalRead(TraversalDocument(p.traversal))
    BY DEF Read, Document
  <2>2. CASE p.traversal = Absent
    BY <2>1, <2>2 DEF TraversalRead, TraversalDocument
  <2>3. CASE p.traversal # Absent
    <3> DEFINE t == p.traversal
               w == TraversalDocument(t)
    <3>1. ShapedTraversal(t) /\ t.allNeighbors \in BOOLEAN
      BY <2>3, AcceptedParts DEF PlanOK, Sound, AcceptedTraversing, TraversalAccepted
    <3>2. w = [start |-> t.start, relationSelector |-> Selector(t), minDepth |-> t.minDepth,
               maxDepth |-> t.maxDepth, relationPredicates |-> t.predicates, resultShape |-> t.shape]
      BY <2>3 DEF TraversalDocument
    <3>3. w # Absent
      BY <3>2 DEF Absent
    <3>4. (w.relationSelector.kind = "allNeighbors") = t.allNeighbors
      BY <3>1, <3>2 DEF Selector
    <3>5. TraversalRead(w) = t
      BY <3>1, <3>2, <3>3, <3>4 DEF TraversalRead, Selector, ShapedTraversal, TraversalFields
    <3> QED BY <2>1, <3>5
  <2> QED BY <2>2, <2>3
<1>3. r.options = p.options /\ r.budget = p.budget
  <2>1. d.options = [key \in DOMAIN p.options \cup {"budget"} |->
                       IF key = "budget" THEN p.budget ELSE p.options[key]]
    BY DEF Document
  <2>2. r.options = [key \in DOMAIN d.options \ {"budget"} |-> d.options[key]]
        /\ r.budget = d.options["budget"]
    BY DEF Read
  <2> QED BY <1>1, <2>1, <2>2 DEF IsObject
<1>4. \A f \in PlanFields \ {"traversal", "options", "budget"} : r[f] = p[f]
  BY DEF Read, Document, PlanFields
<1>5. Shaped(r)
  BY DEF Read, Shaped, PlanFields
<1> HIDE DEF r
<1>6. \A f \in PlanFields : r[f] = p[f]
  BY <1>2, <1>3, <1>4
<1>7. r = p
  BY <1>1, <1>5, <1>6 DEF Shaped
<1> QED BY <1>7 DEF r

\* What is written can be read by whoever allows its extensions.
LEMMA DocumentReadable ==
  ASSUME NEW p, PlanOK(p), NEW policy
  PROVE  Readable(Document(p), policy) <=> DOMAIN p.extensions \subseteq policy
<1> DEFINE d == Document(p)
<1>1. HasFields(d, RootKeys)
  BY DEF Document, IsObject, HasFields, RootKeys
<1>2. d.page = p.page /\ d.extensions = p.extensions /\ d.traversal = TraversalDocument(p.traversal)
  BY DEF Document
<1>3. IsObject(d.options) /\ "budget" \in DOMAIN d.options
  BY DEF Document, IsObject
<1> HIDE DEF d
<1>4. HasFields(d.page, PageKeys)
  BY <1>2 DEF PlanOK, Sound
<1>5. ASSUME d.traversal # Absent PROVE TraversalReadable(d.traversal)
  <2> DEFINE t == p.traversal
             w == d.traversal
  <2>1. t # Absent /\ IsArray(t.relations)
    BY <1>2, <1>5 DEF TraversalDocument, PlanOK, Sound
  <2>2. w = [start |-> t.start, relationSelector |-> Selector(t), minDepth |-> t.minDepth,
             maxDepth |-> t.maxDepth, relationPredicates |-> t.predicates, resultShape |-> t.shape]
    BY <1>2, <2>1 DEF TraversalDocument
  <2> QED BY <2>1, <2>2 DEF TraversalReadable, Selector, TraversalKeys, SelectorKeys,
      HasFields, IsObject
<1>6. Readable(d, policy) <=> DOMAIN p.extensions \subseteq policy
  BY <1>1, <1>2, <1>3, <1>4, <1>5 DEF Readable
<1> QED BY <1>6 DEF d

LEMMA ConstructedOnce ==
  ASSUME NEW p, PlanOK(p)
  PROVE  Constructed(p) = p
<1>1. CASE p.traversal = Absent
  BY <1>1 DEF Constructed
<1>2. CASE p.traversal # Absent
  BY <1>2 DEF Constructed, PlanOK, Sound, Shaped, PlanFields
<1> QED BY <1>1, <1>2

LEMMA ReadsBack ==
  ASSUME NEW p, PlanOK(p), NEW policy
  PROVE  FromMapping(Document(p), policy) =
           IF DOMAIN p.extensions \subseteq policy THEN p ELSE Refused
<1>1. Readable(Document(p), policy) <=> DOMAIN p.extensions \subseteq policy
  BY DocumentReadable
<1>2. Read(Document(p)) = p /\ Accepted(p) /\ Constructed(p) = p
  BY ReadOfDocument, ConstructedOnce DEF PlanOK
<1> QED BY <1>1, <1>2 DEF FromMapping

\* A plan sent at any stage is read back as itself, or refused for its
\* extensions (wire/__init__.py:584-732).
THEOREM ReadBackHolds == Spec => []ReadBack
<1>1. WInv => ReadBack
  <2> SUFFICES ASSUME WInv, received # Absent, ~foreign
               PROVE  received.plan =
                        IF DOMAIN plan.extensions \subseteq received.policy THEN plan ELSE Refused
    BY DEF ReadBack
  <2>1. PlanOK(plan) /\ document = Document(plan)
        /\ received.plan = FromMapping(document, received.policy)
    BY DEF WInv
  <2> QED BY <2>1, ReadsBack
<1> QED BY <1>1, SpecWInv, PTL

\* The keys and fields of a document.
LEMMA DocumentFields ==
  ASSUME NEW p
  PROVE  /\ HasFields(Document(p), RootKeys)
         /\ Document(p).catalog = p.catalog /\ Document(p).targets = p.targets
         /\ Document(p).operation = p.operation /\ Document(p).result = p.result
         /\ Document(p).filter = p.filter /\ Document(p).joins = p.joins
         /\ Document(p).grouping = p.grouping /\ Document(p).aggregates = p.aggregates
         /\ Document(p).traversal = TraversalDocument(p.traversal)
         /\ Document(p).order = p.order /\ Document(p).page = p.page
         /\ Document(p).extensions = p.extensions
BY DEF Document, HasFields, IsObject, RootKeys

LEMMA TraversalDocumentFields ==
  ASSUME NEW t, ShapedTraversal(t), NEW w, w = TraversalDocument(t)
  PROVE  /\ HasFields(w, TraversalKeys) /\ HasFields(w.relationSelector, SelectorKeys)
         /\ w # Absent
         /\ w.start = t.start /\ w.minDepth = t.minDepth /\ w.maxDepth = t.maxDepth
         /\ w.relationPredicates = t.predicates /\ w.resultShape = t.shape
         /\ w.relationSelector.kind = IF t.allNeighbors THEN "allNeighbors" ELSE "explicit"
         /\ w.relationSelector.relationCollections = t.relations
         /\ w.relationSelector.registryFingerprint = t.fingerprint
<1>1. t # Absent
  BY TraversalPresent
<1>2. w = [start |-> t.start, relationSelector |-> Selector(t), minDepth |-> t.minDepth,
           maxDepth |-> t.maxDepth, relationPredicates |-> t.predicates, resultShape |-> t.shape]
  BY <1>1 DEF TraversalDocument
<1>3. w # Absent
  BY <1>2 DEF Absent
<1>4. /\ w.start = t.start /\ w.minDepth = t.minDepth /\ w.maxDepth = t.maxDepth
      /\ w.relationPredicates = t.predicates /\ w.resultShape = t.shape
      /\ w.relationSelector = Selector(t)
  BY <1>2
<1>5. HasFields(w, TraversalKeys)
  BY <1>2 DEF HasFields, IsObject, TraversalKeys
<1>6. /\ HasFields(Selector(t), SelectorKeys)
      /\ Selector(t).kind = IF t.allNeighbors THEN "allNeighbors" ELSE "explicit"
      /\ Selector(t).relationCollections = t.relations
      /\ Selector(t).registryFingerprint = t.fingerprint
  BY DEF Selector, HasFields, IsObject, SelectorKeys
<1> QED BY <1>3, <1>4, <1>5, <1>6
-----------------------------------------------------------------------------
(* Respelling *)

\* A document that respells the traversal of a plan is read as the plan with
\* its relations listed another way.
LEMMA RespelledRead ==
  ASSUME NEW p, PlanOK(p), NEW d, d # Document(p), Respells(d, Document(p)),
         NEW policy, DOMAIN p.extensions \subseteq policy
  PROVE  /\ Readable(d, policy)
         /\ p.traversal # Absent
         /\ ShapedTraversal(Read(d).traversal) /\ IsArray(Read(d).traversal.relations)
         /\ ToSet(Read(d).traversal.relations) = ToSet(p.traversal.relations)
         /\ \A f \in TraversalFields \ {"relations"} : Read(d).traversal[f] = p.traversal[f]
         /\ \A f \in PlanFields \ {"traversal"} : Read(d)[f] = p[f]
<1> DEFINE e == Document(p)
           w == d.traversal
           v == e.traversal
           t == p.traversal
<1>1. /\ AgreeExcept(d, e, "traversal")
      /\ w # Absent /\ v # Absent
      /\ AgreeExcept(w, v, "relationSelector")
      /\ AgreeExcept(w.relationSelector, v.relationSelector, "relationCollections")
      /\ IsArray(w.relationSelector.relationCollections)
      /\ ToSet(w.relationSelector.relationCollections) = ToSet(v.relationSelector.relationCollections)
  BY DEF Respells
<1>2. HasFields(e, RootKeys) /\ v = TraversalDocument(t)
  BY DocumentFields
<1>3. t # Absent /\ ShapedTraversal(t) /\ t.allNeighbors \in BOOLEAN
  BY <1>1, <1>2, AcceptedParts
    DEF TraversalDocument, PlanOK, Sound, AcceptedTraversing, TraversalAccepted
<1> HIDE DEF e
<1>4. HasFields(d, RootKeys) /\ \A k \in RootKeys \ {"traversal"} : d[k] = e[k]
  BY <1>1, <1>2 DEF AgreeExcept, HasFields
<1>5. /\ HasFields(w, TraversalKeys) /\ HasFields(w.relationSelector, SelectorKeys)
      /\ w.start = t.start /\ w.minDepth = t.minDepth /\ w.maxDepth = t.maxDepth
      /\ w.relationPredicates = t.predicates /\ w.resultShape = t.shape
      /\ w.relationSelector.kind = IF t.allNeighbors THEN "allNeighbors" ELSE "explicit"
      /\ w.relationSelector.registryFingerprint = t.fingerprint
      /\ ToSet(w.relationSelector.relationCollections) = ToSet(t.relations)
  <2>1. /\ HasFields(v, TraversalKeys) /\ HasFields(v.relationSelector, SelectorKeys)
        /\ v.start = t.start /\ v.minDepth = t.minDepth /\ v.maxDepth = t.maxDepth
        /\ v.relationPredicates = t.predicates /\ v.resultShape = t.shape
        /\ v.relationSelector.kind = IF t.allNeighbors THEN "allNeighbors" ELSE "explicit"
        /\ v.relationSelector.relationCollections = t.relations
        /\ v.relationSelector.registryFingerprint = t.fingerprint
    BY <1>2, <1>3, TraversalDocumentFields
  <2> HIDE DEF v, w, t
  <2>2. HasFields(w, TraversalKeys) /\ \A k \in TraversalKeys \ {"relationSelector"} : w[k] = v[k]
    BY <1>1, <2>1 DEF AgreeExcept, HasFields
  <2>3. /\ HasFields(w.relationSelector, SelectorKeys)
        /\ \A k \in SelectorKeys \ {"relationCollections"} :
             w.relationSelector[k] = v.relationSelector[k]
    BY <1>1, <2>1 DEF AgreeExcept, HasFields
  <2>4. /\ w.start = v.start /\ w.minDepth = v.minDepth /\ w.maxDepth = v.maxDepth
        /\ w.relationPredicates = v.relationPredicates /\ w.resultShape = v.resultShape
    BY <2>2 DEF TraversalKeys
  <2>5. /\ w.relationSelector.kind = v.relationSelector.kind
        /\ w.relationSelector.registryFingerprint = v.relationSelector.registryFingerprint
    BY <2>3 DEF SelectorKeys
  <2> QED BY <1>1, <2>1, <2>2, <2>3, <2>4, <2>5
<1>6. TraversalReadable(w)
  BY <1>1, <1>5 DEF TraversalReadable
<1>7. d.page = e.page /\ d.options = e.options /\ d.extensions = e.extensions
  BY <1>4 DEF RootKeys
<1>8. Readable(e, policy)
  BY DocumentReadable DEF e
<1>9. Readable(d, policy)
  BY <1>4, <1>6, <1>7, <1>8 DEF Readable
<1>10. \A f \in PlanFields \ {"traversal"} : Read(d)[f] = p[f]
  <2>1. \A f \in PlanFields \ {"traversal"} : Read(d)[f] = Read(e)[f]
    BY <1>4 DEF Read, PlanFields, RootKeys
  <2>2. Read(e) = p
    BY ReadOfDocument DEF e
  <2> QED BY <2>1, <2>2
<1>11. Read(d).traversal = TraversalRead(w)
  BY DEF Read
<1> HIDE DEF w, t
<1>12. (w.relationSelector.kind = "allNeighbors") = t.allNeighbors
  BY <1>3, <1>5
<1>13. /\ ShapedTraversal(TraversalRead(w))
       /\ TraversalRead(w).relations = w.relationSelector.relationCollections
       /\ \A f \in TraversalFields \ {"relations"} : TraversalRead(w)[f] = t[f]
  BY <1>1, <1>5, <1>12 DEF TraversalRead, ShapedTraversal, TraversalFields
<1> QED BY <1>1, <1>3, <1>5, <1>9, <1>10, <1>11, <1>13 DEF t

\* Listing the relations of a plan another way and sorting them gives the plan.
LEMMA RespelledPlan ==
  ASSUME NEW p, PlanOK(p), p.traversal # Absent,
         NEW r, Shaped(r), \A f \in PlanFields \ {"traversal"} : r[f] = p[f],
         ShapedTraversal(r.traversal), IsArray(r.traversal.relations),
         ToSet(r.traversal.relations) = ToSet(p.traversal.relations),
         \A f \in TraversalFields \ {"relations"} : r.traversal[f] = p.traversal[f]
  PROVE  Accepted(r) /\ Constructed(r) = p
<1> DEFINE t == p.traversal
           u == r.traversal
<1>1. /\ Shaped(p) /\ ShapedTraversal(t) /\ IsArray(t.relations) /\ Selection(t) = t
      /\ AcceptedAround(p) /\ AcceptedTraversing(p) /\ TraversalAccepted(t)
  BY AcceptedParts DEF PlanOK, Sound, AcceptedTraversing
<1>2. u # Absent
  BY TraversalPresent
<1>3. TraversalAccepted(u) /\ u.shape = t.shape
  <2>1. u.relations = <<>> <=> t.relations = <<>>
    BY <1>1, ListFacts
  <2>2. /\ u.allNeighbors = t.allNeighbors /\ u.fingerprint = t.fingerprint
        /\ u.minDepth = t.minDepth /\ u.maxDepth = t.maxDepth
        /\ u.predicates = t.predicates /\ u.shape = t.shape
    BY DEF TraversalFields
  <2> HIDE DEF t, u
  <2> QED BY <1>1, <2>1, <2>2 DEF TraversalAccepted, t, u
<1>4. /\ r.catalog = p.catalog /\ r.targets = p.targets /\ r.joins = p.joins
      /\ r.operation = p.operation /\ r.aggregates = p.aggregates /\ r.grouping = p.grouping
      /\ r.result = p.result /\ r.page = p.page /\ r.budget = p.budget /\ r.options = p.options
  BY DEF PlanFields
<1>5. AcceptedAround(r)
  BY <1>1, <1>4, AroundKept
<1>6. AcceptedTraversing(r)
  BY <1>1, <1>2, <1>3, <1>4, TraversingKept
<1>7. Selection(u) = t
  <2>1. ShapedTraversal(Selection(u)) /\ Selection(u).relations = SetToSeq(ToSet(u.relations))
        /\ \A f \in TraversalFields \ {"relations"} : Selection(u)[f] = u[f]
    BY SelectionKept
  <2>2. t.relations = SetToSeq(ToSet(t.relations))
    BY <1>1, SelectionKept
  <2>3. \A f \in TraversalFields : Selection(u)[f] = t[f]
    BY <2>1, <2>2
  <2> HIDE DEF t, u
  <2> QED BY <1>1, <2>1, <2>3 DEF ShapedTraversal
<1>8. Constructed(r) = p
  <2>1. Constructed(r) = [r EXCEPT !.traversal = t]
    BY <1>2, <1>7 DEF Constructed
  <2> QED BY <1>1, <2>1 DEF Shaped, PlanFields
<1> QED BY <1>5, <1>6, <1>8, AcceptedParts

\* Producers that list the same relations differently mean the same plan
\* (wire/__init__.py:361, 391, 637-732).
THEOREM RespelledHolds == Spec => []RespelledSame
<1>1. WInv => RespelledSame
  <2> SUFFICES ASSUME WInv, received # Absent, Respells(document, Document(plan)),
                      DOMAIN plan.extensions \subseteq received.policy
               PROVE  received.plan = plan
    BY DEF RespelledSame
  <2>1. PlanOK(plan) /\ received.plan = FromMapping(document, received.policy)
    BY DEF WInv
  <2>2. CASE document = Document(plan)
    BY <2>1, <2>2, ReadsBack
  <2>3. CASE document # Document(plan)
    <3>1. Readable(document, received.policy)
      BY <2>1, <2>3, RespelledRead
    <3>2. Shaped(Read(document))
      BY <3>1, ReadSound DEF Sound
    <3>3. Accepted(Read(document)) /\ Constructed(Read(document)) = plan
      BY <2>1, <2>3, <3>2, RespelledRead, RespelledPlan
    <3> QED BY <2>1, <3>1, <3>3 DEF FromMapping
  <2> QED BY <2>2, <2>3
<1> QED BY <1>1, SpecWInv, PTL

\* A document read as a plan says of everything but the traversal what the
\* plan's document says.
LEMMA ReadAround ==
  ASSUME NEW d, NEW policy, Readable(d, policy), Accepted(Read(d))
  PROVE  LET e == Document(Constructed(Read(d)))
         IN  HasFields(e, RootKeys) /\ \A k \in RootKeys \ {"traversal"} : d[k] = e[k]
<1> DEFINE r == Read(d)
           p == Constructed(r)
           e == Document(p)
<1>1. HasFields(e, RootKeys)
  BY DocumentFields
<1>2. \A f \in PlanFields \ {"traversal"} : p[f] = r[f]
  BY ReadSound, ConstructedOK
<1>3. /\ p.catalog = d.catalog /\ p.targets = d.targets /\ p.operation = d.operation
      /\ p.result = d.result /\ p.filter = d.filter /\ p.joins = d.joins
      /\ p.grouping = d.grouping /\ p.aggregates = d.aggregates /\ p.order = d.order
      /\ p.page = d.page /\ p.extensions = d.extensions
      /\ p.budget = d.options["budget"]
      /\ p.options = [key \in DOMAIN d.options \ {"budget"} |-> d.options[key]]
  BY <1>2 DEF Read, PlanFields
<1> HIDE DEF p
<1>4. e.options = d.options
  <2>1. e.options = [key \in DOMAIN p.options \cup {"budget"} |->
                       IF key = "budget" THEN p.budget ELSE p.options[key]]
    BY DEF Document
  <2>2. IsObject(d.options) /\ "budget" \in DOMAIN d.options
    BY DEF Readable
  <2> QED BY <1>3, <2>1, <2>2 DEF IsObject
<1>5. \A k \in RootKeys \ {"traversal"} : d[k] = e[k]
  BY <1>3, <1>4, DocumentFields DEF RootKeys
<1> QED BY <1>1, <1>5 DEF p

\* And of the traversal, all but how its relations are listed.
LEMMA ReadTraversal ==
  ASSUME NEW w, TraversalReadable(w), w # Absent,
         NEW v, v = TraversalDocument(Selection(TraversalRead(w)))
  PROVE  /\ v # Absent
         /\ AgreeExcept(w, v, "relationSelector")
         /\ AgreeExcept(w.relationSelector, v.relationSelector, "relationCollections")
         /\ IsArray(w.relationSelector.relationCollections)
         /\ ToSet(w.relationSelector.relationCollections) = ToSet(v.relationSelector.relationCollections)
<1> DEFINE u == TraversalRead(w)
           t == Selection(u)
<1>1. /\ HasFields(w, TraversalKeys) /\ HasFields(w.relationSelector, SelectorKeys)
      /\ w.relationSelector.kind \in {"explicit", "allNeighbors"}
      /\ IsArray(w.relationSelector.relationCollections)
  BY DEF TraversalReadable
<1>2. /\ u.start = w.start /\ u.minDepth = w.minDepth /\ u.maxDepth = w.maxDepth
      /\ u.predicates = w.relationPredicates /\ u.shape = w.resultShape
      /\ u.relations = w.relationSelector.relationCollections
      /\ u.allNeighbors = (w.relationSelector.kind = "allNeighbors")
      /\ u.fingerprint = w.relationSelector.registryFingerprint
  BY DEF TraversalRead
<1>3. ShapedTraversal(u)
  BY DEF TraversalRead, ShapedTraversal, TraversalFields
<1> HIDE DEF u
<1>4. /\ ShapedTraversal(t) /\ ToSet(t.relations) = ToSet(u.relations)
      /\ \A f \in TraversalFields \ {"relations"} : t[f] = u[f]
  BY <1>1, <1>2, <1>3, SelectionKept
<1>5. /\ t.start = u.start /\ t.minDepth = u.minDepth /\ t.maxDepth = u.maxDepth
      /\ t.predicates = u.predicates /\ t.shape = u.shape
      /\ t.allNeighbors = u.allNeighbors /\ t.fingerprint = u.fingerprint
  BY <1>4 DEF TraversalFields
<1> HIDE DEF t
<1>6. v = TraversalDocument(t)
  BY DEF t, u
<1>7. /\ v # Absent
      /\ HasFields(v, TraversalKeys) /\ HasFields(v.relationSelector, SelectorKeys)
      /\ v.start = w.start /\ v.minDepth = w.minDepth /\ v.maxDepth = w.maxDepth
      /\ v.relationPredicates = w.relationPredicates /\ v.resultShape = w.resultShape
      /\ v.relationSelector.kind = w.relationSelector.kind
      /\ v.relationSelector.registryFingerprint = w.relationSelector.registryFingerprint
      /\ ToSet(v.relationSelector.relationCollections) = ToSet(w.relationSelector.relationCollections)
  <2>1. /\ v # Absent
        /\ HasFields(v, TraversalKeys) /\ HasFields(v.relationSelector, SelectorKeys)
        /\ v.start = t.start /\ v.minDepth = t.minDepth /\ v.maxDepth = t.maxDepth
        /\ v.relationPredicates = t.predicates /\ v.resultShape = t.shape
        /\ v.relationSelector.kind = IF t.allNeighbors THEN "allNeighbors" ELSE "explicit"
        /\ v.relationSelector.relationCollections = t.relations
        /\ v.relationSelector.registryFingerprint = t.fingerprint
    BY <1>4, <1>6, TraversalDocumentFields
  <2>2. v.relationSelector.kind = w.relationSelector.kind
    BY <1>1, <1>2, <1>5, <2>1
  <2> QED BY <1>2, <1>4, <1>5, <2>1, <2>2
<1>8. AgreeExcept(w, v, "relationSelector")
  BY <1>1, <1>7 DEF AgreeExcept, HasFields, TraversalKeys
<1>9. AgreeExcept(w.relationSelector, v.relationSelector, "relationCollections")
  BY <1>1, <1>7 DEF AgreeExcept, HasFields, SelectorKeys
<1> QED BY <1>1, <1>7, <1>8, <1>9

\* A document that reads as the plan that was sent says what was sent
\* (wire/__init__.py:417-474, 637-732).
THEOREM NothingIgnoredHolds == Spec => []NothingIgnored
<1>1. WInv => NothingIgnored
  <2> SUFFICES ASSUME WInv, received # Absent, received.plan = plan
               PROVE  Respells(document, Document(plan))
    BY DEF NothingIgnored
  <2> DEFINE d == document
             p == plan
             e == Document(p)
  <2>1. PlanOK(p) /\ p = FromMapping(d, received.policy)
    BY DEF WInv
  <2>2. p # Refused
    BY <2>1, PlanPresent DEF PlanOK, Sound
  <2>3. Readable(d, received.policy) /\ Accepted(Read(d)) /\ p = Constructed(Read(d))
    BY <2>1, <2>2, FromMappingOK
  <2> HIDE DEF p, d
  <2>4. HasFields(e, RootKeys) /\ \A k \in RootKeys \ {"traversal"} : d[k] = e[k]
    BY <2>3, ReadAround
  <2>5. HasFields(d, RootKeys) /\ Read(d).traversal = TraversalRead(d.traversal)
    BY <2>3 DEF Readable, Read
  <2>6. p.traversal = IF Read(d).traversal = Absent THEN Absent ELSE Selection(Read(d).traversal)
    BY <2>3, ReadSound, ConstructedOK
  <2>7. e.traversal = TraversalDocument(p.traversal)
    BY DocumentFields
  <2> HIDE DEF e
  <2>8. CASE d.traversal = Absent
    <3>1. e.traversal = Absent
      BY <2>5, <2>6, <2>7, <2>8 DEF TraversalRead, TraversalDocument
    <3>2. \A k \in RootKeys : d[k] = e[k]
      BY <2>4, <2>8, <3>1
    <3>3. d = e
      BY <2>4, <2>5, <3>2 DEF HasFields, IsObject
    <3> QED BY <3>3 DEF Respells, d, e, p
  <2>9. CASE d.traversal # Absent
    <3>1. TraversalReadable(d.traversal)
      BY <2>3, <2>9 DEF Readable
    <3>2. TraversalRead(d.traversal) # Absent
      BY <2>9 DEF TraversalRead, Absent
    <3>3. e.traversal = TraversalDocument(Selection(TraversalRead(d.traversal)))
      BY <2>5, <2>6, <2>7, <3>2
    <3>4. AgreeExcept(d, e, "traversal")
      BY <2>4, <2>5 DEF AgreeExcept, HasFields
    <3>5. Respells(d, e)
      BY <2>9, <3>1, <3>3, <3>4, ReadTraversal DEF Respells
    <3> QED BY <3>5 DEF d, e, p
  <2> QED BY <2>8, <2>9
<1> QED BY <1>1, SpecWInv, PTL
=============================================================================
