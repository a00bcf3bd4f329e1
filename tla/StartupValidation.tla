-------------------------- MODULE StartupValidation -------------------------
(***************************************************************************)
(* Startup probes (meridian_storage.query.validation.validate_startup): a  *)
(* deployment declares, Resource by Resource, what its queries will        *)
(* require of a Binding, and compares that with the Capability manifests   *)
(* its adapters were authenticated with.  Later a query that was compiled  *)
(* against some registry is embedded in a Core Operation, which Core holds *)
(* against the manifest of its Binding again.                              *)
(*                                                                         *)
(* Core compares contracts, guarantees and limits; the operators, types    *)
(* and features of the requirements are not part of a Core requirement.    *)
(***************************************************************************)
EXTENDS QuerySemantics

CONSTANTS
  Queries,     \* normalized queries: [operation, registry they are compiled against]
  Bindings,
  Manifests,   \* what adapters may be authenticated with
  NoManifest   \* no adapter was

\* Queries were validated, keep to one Binding and have finitely many parts.
ASSUME QueryAssumption ==
  \A q \in Queries :
    /\ ValidationErrors(q.operation, q.registry) = {}
    /\ BindingsOf(q.operation, q.registry) \subseteq Bindings
    /\ q.operation = [f \in OperationFields |-> q.operation[f]]
    /\ q.operation.page.size \in Nat
    /\ q.operation.budget.limits \in [BudgetFields -> Nat]
    /\ IsFiniteSet(q.operation.filter) /\ IsFiniteSet(q.operation.measures)
    /\ IsFiniteSet(Conjuncts(q.operation))
    /\ \A c \in Conjuncts(q.operation) : c.members \in Nat /\ IsFiniteSet(c.facets)
    /\ q.operation.traversal # NoTraversal =>
         q.operation.traversal.maxDepth \in Nat /\ IsFiniteSet(q.operation.traversal.relations)

\* Advertised limits are natural numbers.
ASSUME ManifestAssumption ==
  /\ NoManifest \notin Manifests
  /\ \A m \in Manifests : \A c \in DOMAIN m.operations :
       \A name \in DOMAIN m.operations[c].limits : m.operations[c].limits[name] \in Nat

\* Startup was not validated yet.
NotYet == [ready |-> FALSE, items |-> {}, probed |-> [b \in Bindings |-> NoManifest]]

VARIABLES
  manifest,    \* manifest[b]: the authenticated manifest of b, or NoManifest
  declared,    \* the StartupResourceRequirements of the deployment
  startup      \* the last StartupValidation, with what it compared

vars == <<manifest, declared, startup>>
-----------------------------------------------------------------------------
(* RequirementGraph.to_core_requirement *)

Contract(op) == IF op.kind = "scan" THEN "query" ELSE op.kind

MergedLimits(requirements) ==
  [name \in UNION {DOMAIN r.limits : r \in requirements} |->
     Greatest({r.limits[name] : r \in {x \in requirements : name \in DOMAIN x.limits}})]

CoreRequirement(q) ==
  LET graph == InferRequirements(EnsureOrder(q.operation, q.registry), q.registry)
  IN  [contract   |-> Contract(q.operation),
       guarantees |-> UNION {r.guarantees : r \in graph},
       limits     |-> MergedLimits(graph)]
-----------------------------------------------------------------------------
(* QueryOperation.to_core_operation *)

BaseRequirement(q) ==
  [contract |-> Contract(q.operation), guarantees |-> {"single-binding"},
   limits |-> [pageSize |-> q.operation.page.size]]

\* A requirement that is passed replaces the base one of the same contract.
Embedded(q, passed) ==
  IF \E r \in passed : r.contract = Contract(q.operation) THEN passed
  ELSE passed \cup {BaseRequirement(q)}

\* External: capability_violations.
Satisfies(m, requirement) ==
  /\ m # NoManifest
  /\ requirement.contract \in DOMAIN m.operations
  /\ LET offered == m.operations[requirement.contract]
     IN  /\ requirement.guarantees \subseteq offered.guarantees
         /\ \A name \in DOMAIN requirement.limits :
              /\ name \in DOMAIN offered.limits
              /\ requirement.limits[name] <= offered.limits[name]
-----------------------------------------------------------------------------
(* validate_startup *)

\* Slip: a Binding that was not probed is passed over.
UnreadyWherePresent(items, manifests) ==
  {item \in items : /\ manifests[item.binding] # NoManifest
                    /\ ~Satisfies(manifests[item.binding], item.requirement)}

\* Slip: a requirement is compared with the manifest of every Binding.
UnreadyAnywhere(items, manifests) ==
  {item \in items : \E b \in Bindings : ~Satisfies(manifests[b], item.requirement)}

\* The declared requirements a diagnostic is about.
Unready(items, manifests) ==
  {item \in items : ~Satisfies(manifests[item.binding], item.requirement)}

Init == manifest \in [Bindings -> Manifests \cup {NoManifest}] /\ declared = {} /\ startup = NotYet

\* A deployment declares a query for each of its Resources.
DeclaredItems(q) ==
  {[resource |-> r, binding |-> Resolved(q.registry, r).binding, requirement |-> CoreRequirement(q)] :
     r \in Resources(q.operation)}

Declare(q) ==
  /\ ~(DeclaredItems(q) \subseteq declared)
  /\ declared' = declared \cup DeclaredItems(q)
  /\ UNCHANGED <<manifest, startup>>

\* External: an adapter is installed, replaced or withdrawn.
Authenticate(b, m) ==
  /\ m # manifest[b]
  /\ manifest' = [manifest EXCEPT ![b] = m]
  /\ UNCHANGED <<declared, startup>>

ValidateStartup ==
  /\ startup' = [ready |-> Unready(declared, manifest) = {}, items |-> declared, probed |-> manifest]
  /\ UNCHANGED <<manifest, declared>>

Next ==
  \/ \E q \in Queries : Declare(q)
  \/ \E b \in Bindings, m \in Manifests \cup {NoManifest} : Authenticate(b, m)
  \/ ValidateStartup

Spec == Init /\ [][Next]_vars
-----------------------------------------------------------------------------
(* Properties *)

\* Whatever asks for more than requirement asks for at least as much.
Dominates(larger, requirement) ==
  /\ larger.contract = requirement.contract
  /\ requirement.guarantees \subseteq larger.guarantees
  /\ \A name \in DOMAIN requirement.limits :
       /\ name \in DOMAIN larger.limits
       /\ requirement.limits[name] <= larger.limits[name]

\* Every Resource of q was declared on the Binding it resolves to, for a query
\* that asks for at least as much.
Covered(q, items) ==
  \A r \in Resources(q.operation) :
    \E item \in items :
      /\ item.resource = r
      /\ item.binding = Resolved(q.registry, r).binding
      /\ Dominates(item.requirement, CoreRequirement(q))

\* A ready startup keeps its promise: as long as the manifest of a Binding is the
\* one that was probed, Core refuses no query that startup covers, neither with
\* the requirements inferred for it nor with the base one alone.  A registry
\* that moves a Resource, or gives a closure more relations, leaves it uncovered
\* (validate_startup, to_core_requirement, to_core_operation).
ReadyServes ==
  \A q \in Queries :
    \A b \in BindingsOf(q.operation, q.registry) :
      startup.ready /\ manifest[b] = startup.probed[b] /\ Covered(q, startup.items) =>
        \A passed \in {{}, {CoreRequirement(q)}} :
          \A requirement \in Embedded(q, passed) : Satisfies(manifest[b], requirement)

\* A deployment is kept from starting only when Core would refuse one of the queries
\* it declared, by the manifest probed for that query's own Binding
\* (validate_startup, to_core_requirement, to_core_operation).
UnreadyForCause ==
  startup # NotYet /\ ~startup.ready =>
    \E q \in Queries :
      /\ DeclaredItems(q) \subseteq startup.items
      /\ \E b \in BindingsOf(q.operation, q.registry) :
           \E requirement \in Embedded(q, {CoreRequirement(q)}) :
             ~Satisfies(startup.probed[b], requirement)
=============================================================================
