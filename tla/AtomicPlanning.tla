---------------------------- MODULE AtomicPlanning ---------------------------
(***************************************************************************)
(* QueryPipeline implements AtomicQuery: although its calls are handed     *)
(* registries, planners and adapters of different moments, each plan is    *)
(* one that a single instant could have made.                              *)
(***************************************************************************)
EXTENDS QueryPipeline

CompletedAt(q, v) == EnsureOrder(NormalizedOperation(q, v), v)

\* Every requirement is implemented exactly under given capabilities, or the query
\* reads nothing.
Exact(op, requirements, assignments, capabilities) ==
  /\ assignments \in [{r.id : r \in requirements} -> Modes]
  /\ \/ EmptyClosure(op)
     \/ \A r \in requirements : ImplementedBy(assignments[r.id], capabilities, r, op)

\* Request q, valid against v, is planned under given capabilities.  A plan without
\* a closure may carry the fingerprint of any published registry, because
\* CompileValidation does not say which it was made against
\* (validation/__init__.py:133-138, planner/__init__.py:190-205).
PlannedAt(p, q, v, capabilities) ==
  /\ p.capabilities = Sha256(capabilities)
  /\ p.operation = CompletedAt(q, v)
  /\ ValidationErrors(NormalizedOperation(q, v), v) = {}
  /\ BindingsOf(p.operation, v) = {p.binding}
  /\ p.schemas = SchemasOf(p.operation, v)
  /\ p.requirements = InferRequirements(p.operation, v)
  /\ Exact(p.operation, p.requirements, p.assignments, capabilities)
  /\ p.empty = EmptyClosure(p.operation)
  /\ p.registry \in {w.fingerprint : w \in Registries}
  /\ Dynamic(p.operation) => p.registry = v.fingerprint

\* One registry and one set of capabilities account for everything in the plan.
PlannedAtOnce(p) ==
  \E q \in Requests, v \in Registries, capabilities \in CapabilitySets :
    PlannedAt(p, q, v, capabilities)

\* Why request q is refused when a registry, and an adapter, are in force.
InvalidAt(q, v) == ValidationErrors(NormalizedOperation(q, v), v)

UnsupportedAt(q, v, capabilities) ==
  {Select(NewPlanner(capabilities), r, CompletedAt(q, v), verdict) :
     r \in InferRequirements(CompletedAt(q, v), v), verdict \in Verdicts} \ Modes

RefusalsOf ==
  [q \in Requests |->
     (UNION {InvalidAt(q, v) : v \in Registries})
       \cup (UNION {UnsupportedAt(q, v, capabilities) :
                      v \in {w \in Registries : InvalidAt(q, w) = {}},
                      capabilities \in CapabilitySets})]

\* A closure that went stale may name what the registry no longer has in one
\* Binding, which is looked at before staleness (validation/__init__.py:168-186).
OutrunClosure(s) ==
  /\ ResolvesClosure(normalized[s].request)
  /\ error[s] \in {"UNKNOWN_RESOURCE", "CROSS_BINDING"}

\* A query that is refused before it has a plan, and not merely sent back, is one
\* that a single instant would have refused so: no registry or adapter of another
\* moment turns a good query away for good, an outrun closure excepted
\* (validation/__init__.py:168-201, planner/__init__.py:190-224).
RefusedAtOnce ==
  \A s \in Sessions :
    stage[s] = "failed" /\ plan[s] = NotYet /\ error[s] # "STALE_REGISTRY" =>
      error[s] \in RefusalsOf[normalized[s].request] \/ OutrunClosure(s)
-----------------------------------------------------------------------------
PhaseOf(at, code) ==
  CASE at \in {"idle", "normalized", "validated"} -> "open"
    [] at = "planned"   -> "planned"
    [] at = "compiled"  -> "executing"
    [] at = "delivered" -> "answered"
    [] at = "failed"    -> IF code = "STALE_REGISTRY" THEN "sent back" ELSE "refused"

Phase == [s \in Sessions |-> PhaseOf(stage[s], error[s])]

Atomic ==
  INSTANCE AtomicQuery
    WITH phase         <- Phase,
         FingerprintOf <- [c \in CapabilitySets |-> Sha256(c)],
         MadeAtOnce    <- PlannedAtOnce,
         Results       <- ResultSizes,
         Nothing       <- NotYet

\* Whatever a deployment publishes, replaces or rebuilds between the calls, a
\* caller sees queries planned at one instant each, executed only by the adapter
\* they were planned for, answered within their budget, and never started over
\* once executed (validation/__init__.py:168-201, planner/__init__.py:190-224,
\* adapter/__init__.py:319-340).
PlansAtomically == Atomic!Spec
=============================================================================
