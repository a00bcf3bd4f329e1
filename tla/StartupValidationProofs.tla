---------------------- MODULE StartupValidationProofs -----------------------
(***************************************************************************)
(* A ready startup keeps its promise, whatever is declared and installed   *)
(* in between.                                                             *)
(***************************************************************************)
EXTENDS StartupValidation, FiniteSetTheorems, TLAPS

AllItems == UNION {DeclaredItems(q) : q \in Queries}
ManifestMaps == [Bindings -> Manifests \cup {NoManifest}]

\* What startup compared were declarations and manifests, and its verdict is
\* about them.
IInv ==
  /\ manifest \in ManifestMaps
  /\ startup.probed \in ManifestMaps
  /\ declared \subseteq AllItems
  /\ startup.items \subseteq AllItems
  /\ startup.ready => Unready(startup.items, startup.probed) = {}

LEMMA InitIInv == Init => IInv
BY DEF Init, IInv, NotYet, AllItems, ManifestMaps

LEMMA NextIInv == IInv /\ [Next]_vars => IInv'
<1> SUFFICES ASSUME IInv, [Next]_vars PROVE IInv'
  OBVIOUS
<1>1. ASSUME NEW q \in Queries, Declare(q) PROVE IInv'
  BY <1>1 DEF Declare, IInv, AllItems
<1>2. ASSUME NEW b \in Bindings, NEW m \in Manifests \cup {NoManifest}, Authenticate(b, m)
      PROVE  IInv'
  BY <1>2 DEF Authenticate, IInv, ManifestMaps
<1>3. CASE ValidateStartup
  BY <1>3 DEF ValidateStartup, IInv
<1>4. CASE UNCHANGED vars
  BY <1>4 DEF vars, IInv
<1> QED BY <1>1, <1>2, <1>3, <1>4 DEF Next
-----------------------------------------------------------------------------
(* The greatest of finitely many limits *)

\* Among the elements above some x of S, those of an x with fewest are none.
LEMMA HasGreatest ==
  ASSUME NEW S \in SUBSET Nat, IsFiniteSet(S), S # {}
  PROVE  \E x \in S : \A y \in S : y <= x
<1> DEFINE Above(x) == {y \in S : y > x}
           T == {Above(x) : x \in S}
<1>1. T \subseteq FiniteSubsetsOf(S) /\ T # {}
  <2>1. ASSUME NEW x \in S PROVE Above(x) \in FiniteSubsetsOf(S)
    <3>1. Above(x) \in SUBSET S
      OBVIOUS
    <3> HIDE DEF Above
    <3> QED BY <3>1, FS_Subset DEF FiniteSubsetsOf
  <2> HIDE DEF Above
  <2> QED BY <2>1
<1>2. PICK A \in T : \A B \in T : <<B, A>> \notin StrictSubsetOrdering(S)
  <2> HIDE DEF T
  <2> QED BY <1>1, WFMin, FS_StrictSubsetOrderingWellFounded
<1>3. PICK x \in S : A = Above(x)
  OBVIOUS
<1>4. ASSUME NEW y \in S, y > x PROVE FALSE
  <2> DEFINE Ay == Above(y)
             Ax == Above(x)
  <2>0. \A z \in S : z \in Nat
    OBVIOUS
  <2>1. Ay \subseteq Ax /\ y \in Ax /\ y \notin Ay
    <3>1. \A z \in S : z > y => z > x
      BY <1>4, <2>0
    <3>2. Ay \subseteq Ax
      BY <3>1
    <3>3. y \in Ax
      BY <1>4
    <3>4. ~(y > y)
      BY <2>0
    <3> QED BY <3>2, <3>3, <3>4
  <2>2. Ay # Ax /\ Ay \in T /\ Ay \subseteq S /\ Ax \subseteq S /\ A = Ax
    BY <1>3, <2>1
  <2> HIDE DEF Ay, Ax, T
  <2> QED BY <1>2, <2>1, <2>2 DEF StrictSubsetOrdering
<1>5. \A y \in S : y <= x
  <2>1. \A y \in S : y \in Nat
    OBVIOUS
  <2> QED BY <1>4, <2>1
<1> QED BY <1>5

LEMMA GreatestBounds ==
  ASSUME NEW S \in SUBSET Nat, IsFiniteSet(S)
  PROVE  Greatest(S) \in Nat /\ \A x \in S : x <= Greatest(S)
<1>1. IsFiniteSet(S \cup {0}) /\ S \cup {0} \in SUBSET Nat /\ S \cup {0} # {}
  BY FS_AddElement
<1>2. \E x \in S \cup {0} : \A y \in S \cup {0} : y <= x
  BY <1>1, HasGreatest
<1> QED BY <1>1, <1>2 DEF Greatest

LEMMA ImageFinite ==
  ASSUME NEW S, IsFiniteSet(S), NEW f, DOMAIN f = S
  PROVE  IsFiniteSet({f[x] : x \in S})
<1>1. [x \in S |-> f[x]] \in Surjection(S, {f[x] : x \in S})
  BY DEF Surjection
<1> QED BY <1>1, FS_Surjection
-----------------------------------------------------------------------------
(* The limits of inferred requirements are natural numbers *)

Compiled(q) == EnsureOrder(q.operation, q.registry)
Graph(q) == InferRequirements(Compiled(q), q.registry)

LEMMA CompiledParts ==
  ASSUME NEW q \in Queries
  PROVE  /\ Compiled(q).page = q.operation.page
         /\ Compiled(q).budget = q.operation.budget
         /\ Compiled(q).traversal = q.operation.traversal
         /\ Compiled(q).filter = q.operation.filter
         /\ Compiled(q).measures = q.operation.measures
         /\ Conjuncts(Compiled(q)) = Conjuncts(q.operation)
<1>1. q.operation = [f \in OperationFields |-> q.operation[f]]
  BY QueryAssumption
<1>2. /\ Compiled(q).page = q.operation.page
      /\ Compiled(q).budget = q.operation.budget
      /\ Compiled(q).traversal = q.operation.traversal
      /\ Compiled(q).filter = q.operation.filter
      /\ Compiled(q).measures = q.operation.measures
      /\ Compiled(q).joins = q.operation.joins
  BY <1>1 DEF Compiled, EnsureOrder, OperationFields
<1> QED BY <1>2 DEF Conjuncts

LEMMA LargestAreNat ==
  ASSUME NEW q \in Queries
  PROVE  LargestMembership(Compiled(q)) \in Nat /\ LargestFacets(Compiled(q)) \in Nat
<1> DEFINE op == Compiled(q)
           In == Memberships(op)
           Text == Matches(op)
<1>1. /\ IsFiniteSet(Conjuncts(op))
      /\ \A c \in Conjuncts(op) : c.members \in Nat /\ IsFiniteSet(c.facets)
  BY CompiledParts, QueryAssumption
<1>2. In \in SUBSET Conjuncts(op) /\ Text \in SUBSET Conjuncts(op)
  BY DEF Memberships, Matches
<1> HIDE DEF op, In, Text
<1>3. IsFiniteSet(In) /\ IsFiniteSet(Text)
  BY <1>1, <1>2, FS_Subset
<1>4. Greatest({c.members : c \in In}) \in Nat
  <2> DEFINE f == [c \in In |-> c.members]
  <2>1. IsFiniteSet({f[c] : c \in In})
    BY <1>3, ImageFinite
  <2>2. {f[c] : c \in In} = {c.members : c \in In}
    OBVIOUS
  <2>3. {c.members : c \in In} \in SUBSET Nat
    BY <1>1, <1>2
  <2> QED BY <2>1, <2>2, <2>3, GreatestBounds
<1>5. Greatest({Cardinality(c.facets) : c \in Text}) \in Nat
  <2> DEFINE f == [c \in Text |-> Cardinality(c.facets)]
  <2>1. IsFiniteSet({f[c] : c \in Text})
    BY <1>3, ImageFinite
  <2>2. {f[c] : c \in Text} = {Cardinality(c.facets) : c \in Text}
    OBVIOUS
  <2>3. {Cardinality(c.facets) : c \in Text} \in SUBSET Nat
    BY <1>1, <1>2, FS_CardinalityType
  <2> QED BY <2>1, <2>2, <2>3, GreatestBounds
<1> QED BY <1>4, <1>5 DEF LargestMembership, LargestFacets, op, In, Text

NatLimits(r) == \A name \in DOMAIN r.limits : r.limits[name] \in Nat

LEMMA GraphLimits ==
  ASSUME NEW q \in Queries
  PROVE  \A r \in Graph(q) : NatLimits(r)
<1> DEFINE op == Compiled(q)
<1>1. /\ op.page.size \in Nat
      /\ op.budget.limits \in [BudgetFields -> Nat]
      /\ op.traversal # NoTraversal =>
           op.traversal.maxDepth \in Nat /\ IsFiniteSet(op.traversal.relations)
  BY CompiledParts, QueryAssumption
<1>2. LargestMembership(op) \in Nat /\ LargestFacets(op) \in Nat
  BY LargestAreNat
<1> HIDE DEF op
<1>3. NatLimits(OperationRequirement(op, q.registry))
  <2>1. \A f \in {"resultValues", "resultBytes", "deadlineMs"} : op.budget.limits[f] \in Nat
    BY <1>1 DEF BudgetFields
  <2> QED BY <1>1, <2>1 DEF OperationRequirement, Requirement, NatLimits
<1>4. \A operator : NatLimits(OperatorRequirement(op, q.registry, operator))
  <2> SUFFICES ASSUME NEW operator PROVE NatLimits(OperatorRequirement(op, q.registry, operator))
    OBVIOUS
  <2>1. OperatorRequirement(op, q.registry, operator).limits = OperatorLimits(op, operator)
    BY DEF OperatorRequirement, Requirement
  <2>2. \A name \in DOMAIN OperatorLimits(op, operator) : OperatorLimits(op, operator)[name] \in Nat
    BY <1>2 DEF OperatorLimits, NoLimits
  <2> QED BY <2>1, <2>2 DEF NatLimits
<1>5. NatLimits(KeysetRequirement(op, q.registry))
  BY <1>1 DEF KeysetRequirement, Requirement, NatLimits
<1>6. op.traversal # NoTraversal => NatLimits(TraversalRequirement(op))
  <2>1. \A f \in {"visitedValues", "returnedPaths"} : op.budget.limits[f] \in Nat
    BY <1>1 DEF BudgetFields
  <2>2. op.traversal # NoTraversal => Cardinality(op.traversal.relations) \in Nat
    BY <1>1, FS_CardinalityType
  <2> QED BY <1>1, <2>1, <2>2 DEF TraversalRequirement, Requirement, NatLimits
<1> QED BY <1>3, <1>4, <1>5, <1>6 DEF Graph, InferRequirements, When, op

LEMMA GraphFinite ==
  ASSUME NEW q \in Queries
  PROVE  IsFiniteSet(Graph(q))
<1> DEFINE op == Compiled(q)
           Ops == Operators(op)
           f == [operator \in Ops |-> OperatorRequirement(op, q.registry, operator)]
<1>1. IsFiniteSet(Ops)
  <2>1. IsFiniteSet(Conjuncts(op)) /\ IsFiniteSet(op.measures)
    BY CompiledParts, QueryAssumption
  <2> DEFINE C == Conjuncts(op)
             M == op.measures
             fc == [c \in C |-> c.operator]
             fm == [m \in M |-> m.function]
  <2> HIDE DEF C, M, op
  <2>2. IsFiniteSet({fc[c] : c \in C}) /\ IsFiniteSet({fm[m] : m \in M})
    BY <2>1, ImageFinite DEF C, M
  <2>3. {fc[c] : c \in C} = {c.operator : c \in C} /\ {fm[m] : m \in M} = {m.function : m \in M}
    OBVIOUS
  <2>4. IsFiniteSet(When(Cardinality(op.filter) > 1, "and"))
    BY FS_EmptySet, FS_Singleton DEF When
  <2> QED BY <2>2, <2>3, <2>4, FS_Union DEF Operators, C, M
<1>2. IsFiniteSet({OperatorRequirement(op, q.registry, operator) : operator \in Ops})
  <2>1. IsFiniteSet({f[operator] : operator \in Ops})
    <3> HIDE DEF Ops, op
    <3> QED BY <1>1, ImageFinite
  <2>2. {f[operator] : operator \in Ops}
          = {OperatorRequirement(op, q.registry, operator) : operator \in Ops}
    OBVIOUS
  <2> QED BY <2>1, <2>2
<1>3. /\ IsFiniteSet({OperationRequirement(op, q.registry)})
      /\ IsFiniteSet(When(op.order # <<>>, KeysetRequirement(op, q.registry)))
      /\ IsFiniteSet(IF op.traversal = NoTraversal THEN {} ELSE {TraversalRequirement(op)})
  BY FS_EmptySet, FS_Singleton DEF When
<1> HIDE DEF op, Ops
<1> QED BY <1>2, <1>3, FS_Union DEF Graph, InferRequirements, op, Ops

LEMMA MergedLimitsBound ==
  ASSUME NEW q \in Queries
  PROVE  /\ NatLimits(CoreRequirement(q))
         /\ \A r \in Graph(q) : \A name \in DOMAIN r.limits :
              /\ name \in DOMAIN CoreRequirement(q).limits
              /\ r.limits[name] <= CoreRequirement(q).limits[name]
<1> DEFINE G == Graph(q)
           Named(name) == {x \in G : name \in DOMAIN x.limits}
           Values(name) == {r.limits[name] : r \in Named(name)}
<1>1. CoreRequirement(q).limits = [name \in UNION {DOMAIN r.limits : r \in G} |-> Greatest(Values(name))]
  BY DEF CoreRequirement, MergedLimits, Graph, Compiled
<1>2. IsFiniteSet(G) /\ \A r \in G : NatLimits(r)
  BY GraphFinite, GraphLimits
<1> HIDE DEF G
<1>3. ASSUME NEW name PROVE Values(name) \in SUBSET Nat /\ IsFiniteSet(Values(name))
  <2> DEFINE N == Named(name)
             f == [r \in N |-> r.limits[name]]
  <2>1. IsFiniteSet(N)
    BY <1>2, FS_Subset
  <2>2. {f[r] : r \in N} = Values(name)
    OBVIOUS
  <2>3. IsFiniteSet({f[r] : r \in N})
    <3> HIDE DEF N
    <3> QED BY <2>1, ImageFinite
  <2>4. Values(name) \in SUBSET Nat
    BY <1>2 DEF NatLimits
  <2> QED BY <2>2, <2>3, <2>4
<1>4. ASSUME NEW name
      PROVE  /\ Greatest(Values(name)) \in Nat
             /\ \A n \in Values(name) : n <= Greatest(Values(name))
  <2> DEFINE V == Values(name)
  <2>1. V \in SUBSET Nat /\ IsFiniteSet(V)
    BY <1>3
  <2> HIDE DEF V
  <2>2. Greatest(V) \in Nat /\ \A n \in V : n <= Greatest(V)
    BY <2>1, GreatestBounds
  <2> QED BY <2>2 DEF V
<1>5. ASSUME NEW r \in G, NEW name \in DOMAIN r.limits PROVE r.limits[name] \in Values(name)
  OBVIOUS
<1> HIDE DEF Values
<1>6. NatLimits(CoreRequirement(q))
  BY <1>1, <1>4 DEF NatLimits
<1>7. \A r \in G : \A name \in DOMAIN r.limits :
        /\ name \in DOMAIN CoreRequirement(q).limits
        /\ r.limits[name] <= CoreRequirement(q).limits[name]
  BY <1>1, <1>4, <1>5
<1> QED BY <1>6, <1>7 DEF G
-----------------------------------------------------------------------------
(* What a manifest satisfies *)

\* The base requirement of a query asks for no more than the inferred one.
LEMMA BaseIsDominated ==
  ASSUME NEW q \in Queries
  PROVE  Dominates(CoreRequirement(q), BaseRequirement(q)) /\ NatLimits(BaseRequirement(q))
<1> DEFINE r == OperationRequirement(Compiled(q), q.registry)
<1>1. r \in Graph(q)
  BY DEF Graph, InferRequirements
<1>2. /\ r.guarantees = {"single-binding"}
      /\ "pageSize" \in DOMAIN r.limits
      /\ r.limits["pageSize"] = q.operation.page.size
  BY CompiledParts DEF OperationRequirement, Requirement
<1>3. /\ "pageSize" \in DOMAIN CoreRequirement(q).limits
      /\ q.operation.page.size <= CoreRequirement(q).limits["pageSize"]
  BY <1>1, <1>2, MergedLimitsBound
<1>4. CoreRequirement(q).contract = Contract(q.operation)
  BY DEF CoreRequirement
<1>5. "single-binding" \in CoreRequirement(q).guarantees
  BY <1>1, <1>2 DEF CoreRequirement, Graph, Compiled
<1>6. /\ BaseRequirement(q).contract = Contract(q.operation)
      /\ BaseRequirement(q).guarantees = {"single-binding"}
      /\ DOMAIN BaseRequirement(q).limits = {"pageSize"}
      /\ BaseRequirement(q).limits["pageSize"] = q.operation.page.size
  BY DEF BaseRequirement
<1>7. q.operation.page.size \in Nat
  BY QueryAssumption
<1> QED BY <1>3, <1>4, <1>5, <1>6, <1>7 DEF Dominates, NatLimits

\* What satisfies a requirement satisfies those it dominates.
LEMMA SatisfiesDown ==
  ASSUME NEW m \in Manifests \cup {NoManifest}, NEW larger, NEW requirement,
         NatLimits(larger), NatLimits(requirement),
         Satisfies(m, larger), Dominates(larger, requirement)
  PROVE  Satisfies(m, requirement)
<1> DEFINE offered == m.operations[requirement.contract]
<1>1. /\ m \in Manifests
      /\ requirement.contract \in DOMAIN m.operations
      /\ larger.guarantees \subseteq offered.guarantees
      /\ \A name \in DOMAIN larger.limits :
           name \in DOMAIN offered.limits /\ larger.limits[name] <= offered.limits[name]
  BY DEF Satisfies, Dominates
<1>2. \A name \in DOMAIN offered.limits : offered.limits[name] \in Nat
  BY <1>1, ManifestAssumption
<1>3. ASSUME NEW name \in DOMAIN requirement.limits
      PROVE  name \in DOMAIN offered.limits /\ requirement.limits[name] <= offered.limits[name]
  <2>1. name \in DOMAIN larger.limits /\ requirement.limits[name] <= larger.limits[name]
    BY DEF Dominates
  <2>2. requirement.limits[name] \in Nat /\ larger.limits[name] \in Nat
    BY <2>1 DEF NatLimits
  <2>3. name \in DOMAIN offered.limits /\ larger.limits[name] <= offered.limits[name]
    BY <1>1, <2>1
  <2>4. offered.limits[name] \in Nat
    BY <1>2, <2>3
  <2> HIDE DEF offered
  <2> QED BY <2>1, <2>2, <2>3, <2>4
<1>4. m # NoManifest
  BY DEF Satisfies
<1>5. requirement.guarantees \subseteq offered.guarantees
  BY <1>1 DEF Dominates
<1> QED BY <1>1, <1>3, <1>4, <1>5 DEF Satisfies

LEMMA InvariantServes == IInv => ReadyServes
<1> SUFFICES ASSUME IInv, NEW q \in Queries, NEW b \in BindingsOf(q.operation, q.registry),
                    startup.ready, manifest[b] = startup.probed[b], Covered(q, startup.items),
                    NEW passed \in {{}, {CoreRequirement(q)}},
                    NEW requirement \in Embedded(q, passed)
             PROVE  Satisfies(manifest[b], requirement)
  BY DEF ReadyServes
<1>1. PICK r \in Resources(q.operation) : b = Resolved(q.registry, r).binding
  BY DEF BindingsOf
<1>2. PICK item \in startup.items :
        item.binding = b /\ Dominates(item.requirement, CoreRequirement(q))
  BY <1>1 DEF Covered
<1>3. Satisfies(manifest[b], item.requirement)
  BY <1>2 DEF IInv, Unready
<1>4. NatLimits(item.requirement) /\ NatLimits(CoreRequirement(q))
  <2>1. item \in AllItems
    BY DEF IInv
  <2>2. PICK p \in Queries : item.requirement = CoreRequirement(p)
    BY <2>1 DEF AllItems, DeclaredItems
  <2> QED BY <2>2, MergedLimitsBound
<1>5. manifest[b] \in Manifests \cup {NoManifest}
  BY QueryAssumption DEF IInv, ManifestMaps
<1>6. Satisfies(manifest[b], CoreRequirement(q))
  BY <1>2, <1>3, <1>4, <1>5, SatisfiesDown
<1>7. Satisfies(manifest[b], BaseRequirement(q))
  BY <1>4, <1>5, <1>6, BaseIsDominated, SatisfiesDown
<1>8. requirement \in {CoreRequirement(q), BaseRequirement(q)}
  BY DEF Embedded
<1> QED BY <1>6, <1>7, <1>8

\* As long as the probed manifest of a Binding is installed, Core refuses no query
\* a ready startup covers (validation/__init__.py:212-244).
THEOREM StartupServes == Spec => []ReadyServes
<1>1. Init => IInv
  BY InitIInv
<1>2. IInv /\ [Next]_vars => IInv'
  BY NextIInv
<1>3. IInv => ReadyServes
  BY InvariantServes
<1> QED BY <1>1, <1>2, <1>3, PTL DEF Spec
-----------------------------------------------------------------------------
(* UnreadyForCause *)

\* Whatever is declared was declared for some query, all of it.
WholeQueries(items) ==
  \A item \in items : \E q \in Queries : item \in DeclaredItems(q) /\ DeclaredItems(q) \subseteq items

\* A verdict against the deployment is about a requirement that it compared.
CInv ==
  /\ WholeQueries(declared)
  /\ WholeQueries(startup.items)
  /\ startup # NotYet /\ ~startup.ready => Unready(startup.items, startup.probed) # {}

LEMMA InitCInv == Init => CInv
BY DEF Init, CInv, NotYet, WholeQueries

LEMMA NextCInv == CInv /\ [Next]_vars => CInv'
<1> SUFFICES ASSUME CInv, [Next]_vars PROVE CInv'
  OBVIOUS
<1>1. ASSUME NEW q \in Queries, Declare(q) PROVE CInv'
  <2>1. declared' = declared \cup DeclaredItems(q) /\ startup' = startup
    BY <1>1 DEF Declare
  <2>2. WholeQueries(declared \cup DeclaredItems(q))
    <3>1. \A item \in declared : \E p \in Queries :
            item \in DeclaredItems(p) /\ DeclaredItems(p) \subseteq declared
      BY DEF CInv, WholeQueries
    <3> QED BY <3>1 DEF WholeQueries
  <2> QED BY <2>1, <2>2 DEF CInv
<1>2. ASSUME NEW b \in Bindings, NEW m \in Manifests \cup {NoManifest}, Authenticate(b, m)
      PROVE  CInv'
  BY <1>2 DEF Authenticate, CInv
<1>3. CASE ValidateStartup
  BY <1>3 DEF ValidateStartup, CInv
<1>4. CASE UNCHANGED vars
  BY <1>4 DEF vars, CInv
<1> QED BY <1>1, <1>2, <1>3, <1>4 DEF Next

LEMMA UnreadyCause == CInv => UnreadyForCause
<1> SUFFICES ASSUME CInv, startup # NotYet, ~startup.ready
             PROVE  \E q \in Queries :
                      /\ DeclaredItems(q) \subseteq startup.items
                      /\ \E b \in BindingsOf(q.operation, q.registry) :
                           \E requirement \in Embedded(q, {CoreRequirement(q)}) :
                             ~Satisfies(startup.probed[b], requirement)
  BY DEF UnreadyForCause
<1>1. PICK item \in startup.items : ~Satisfies(startup.probed[item.binding], item.requirement)
  BY DEF CInv, Unready
<1>2. PICK q \in Queries : item \in DeclaredItems(q) /\ DeclaredItems(q) \subseteq startup.items
  BY DEF CInv, WholeQueries
<1>3. item.binding \in BindingsOf(q.operation, q.registry) /\ item.requirement = CoreRequirement(q)
  BY <1>2 DEF DeclaredItems, BindingsOf
<1>4. CoreRequirement(q) \in Embedded(q, {CoreRequirement(q)})
  BY DEF Embedded
<1> QED BY <1>1, <1>2, <1>3, <1>4

\* A deployment is kept from starting only when Core would refuse one of the queries
\* it declared (validation/__init__.py:212-244).
THEOREM UnreadyOnlyForCause == Spec => []UnreadyForCause
<1>1. Init => CInv
  BY InitCInv
<1>2. CInv /\ [Next]_vars => CInv'
  BY NextCInv
<1>3. CInv => UnreadyForCause
  BY UnreadyCause
<1> QED BY <1>1, <1>2, <1>3, PTL DEF Spec
=============================================================================
