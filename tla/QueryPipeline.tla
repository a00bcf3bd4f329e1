---------------------------- MODULE QueryPipeline ---------------------------
(***************************************************************************)
(* The public pipeline of meridian_storage.query: a caller normalizes a    *)
(* query, validates it, plans it, compiles it and bounds its result, one   *)
(* library call at a time.  Each call is a function of what it is given    *)
(* (QuerySemantics); what makes the pipeline hard is that between two      *)
(* calls the deployment may publish another registry, replace an adapter   *)
(* or rebuild a planner, and that each call is handed the registry anew.   *)
(***************************************************************************)
EXTENDS QuerySemantics

CONSTANTS
  Sessions,      \* callers, each driving one query at a time
  Requests,      \* what a builder built, with the scope and resolver a caller normalizes it with
  Registries,    \* the RegistryViews a deployment may publish
  Bindings,
  CapabilitySets,  \* what an adapter may advertise
  Rewrites, Residuals,  \* the rules planners are constructed with
  ResultSizes,   \* the values and bytes of the results adapters may return
  OtherPlan      \* the fingerprint of a plan that is not this session's

\* A registry fingerprint identifies its content; the limits of a workload
\* profile are natural numbers, every Resource has finitely many neighbours, an
\* identity that is a list of names, and a Binding with a translator and a planner.
ASSUME RegistryAssumption ==
  /\ NoFingerprint \notin {v.fingerprint : v \in Registries}
  /\ \A v, w \in Registries : v.fingerprint = w.fingerprint => v = w
  /\ \A v \in Registries :
       /\ \A name \in DOMAIN v.profiles : v.profiles[name] \in [BudgetFields -> Nat]
       /\ \A r \in DOMAIN v.resources :
            /\ v.resources[r].binding \in Bindings
            /\ IsFiniteSet(v.neighbors[r])
            /\ IsList(v.resources[r].schema.identity)

\* A builder leaves all_neighbors unresolved, and no consumer option claims scope.
ASSUME RequestAssumption ==
  \A q \in Requests :
    /\ q.operation = [f \in OperationFields |-> q.operation[f]]
    /\ q.operation.options = [f \in OptionFields |-> q.operation.options[f]]
    /\ q.operation.options.scopeInjected = FALSE
    /\ q.operation.budget.limits \in [BudgetFields -> Nat]
    /\ q.operation.primary.resource # Unqualified
    /\ IsFiniteSet(q.operation.joins)
    /\ IsList(q.operation.order)
    /\ q.operation.traversal # NoTraversal =>
         /\ q.operation.traversal = [f \in TraversalFields |-> q.operation.traversal[f]]
         /\ IsFiniteSet(q.operation.traversal.relations)
         /\ q.operation.traversal.fingerprint = NoFingerprint
         /\ q.operation.traversal.allNeighbors => q.operation.traversal.relations = {}

ASSUME ResultAssumption == ResultSizes \subseteq [values : Nat, bytes : Nat]

\* The output of a call not made yet, and the code of an error not raised.
NotYet == [reached |-> FALSE]
NoError == "NONE"

VARIABLES
  registry,    \* the RegistryView in force
  adapter,     \* adapter[b]: the capabilities of the translator installed for b
  planner,     \* planner[b]: the QueryPlanner built for b
  stage,       \* stage[s]: the last call of s that returned
  normalized,  \* normalized[s]: request, operation, and the registry of that call
  validation,  \* validation[s]: CompileValidation, and the RegistryView it was made against
  plan,        \* plan[s]: PlannedQuery
  command,     \* command[s]: CompiledQuery, and the capabilities it was compiled with
  result,      \* result[s]: what enforce_result_budget let through
  error        \* error[s]: the code a failed call raised

deployment == <<registry, adapter, planner>>
session == <<stage, normalized, validation, plan, command, result, error>>
vars == <<registry, adapter, planner, stage, normalized, validation, plan, command, result, error>>

NewPlanner(capabilities) ==
  [capabilities |-> capabilities, rewrites |-> Rewrites, residuals |-> Residuals]

Init ==
  /\ registry \in Registries
  /\ adapter \in [Bindings -> CapabilitySets]
  /\ planner = [b \in Bindings |-> NewPlanner(adapter[b])]
  /\ stage = [s \in Sessions |-> "idle"]
  /\ normalized = [s \in Sessions |-> NotYet]
  /\ validation = [s \in Sessions |-> NotYet]
  /\ plan = [s \in Sessions |-> NotYet]
  /\ command = [s \in Sessions |-> NotYet]
  /\ result = [s \in Sessions |-> NotYet]
  /\ error = [s \in Sessions |-> NoError]

Moves(s, from, to) ==
  /\ stage[s] = from
  /\ stage' = [stage EXCEPT ![s] = to]

\* The call that follows stage "from" raises.
Fails(s, from, code) ==
  /\ Moves(s, from, "failed")
  /\ error' = [error EXCEPT ![s] = code]
  /\ UNCHANGED <<deployment, normalized, validation, plan, command, result>>
-----------------------------------------------------------------------------
(* The deployment (external) *)

PublishRegistry(v) ==
  /\ v # registry
  /\ registry' = v
  /\ UNCHANGED <<adapter, planner, session>>

InstallAdapter(b, capabilities) ==
  /\ capabilities # adapter[b]
  /\ adapter' = [adapter EXCEPT ![b] = capabilities]
  /\ UNCHANGED <<registry, planner, session>>

\* QueryPlanner(...) for the capabilities of the installed adapter.
RebuildPlanner(b) ==
  /\ planner[b] # NewPlanner(adapter[b])
  /\ planner' = [planner EXCEPT ![b] = NewPlanner(adapter[b])]
  /\ UNCHANGED <<registry, adapter, session>>
-----------------------------------------------------------------------------
(* normalize_builder, normalize_expression *)

\* all_neighbors is replaced by the closure the resolver reads off a registry.
Closed(traversal, v) ==
  [traversal EXCEPT !.relations = v.neighbors[traversal.start], !.fingerprint = v.fingerprint]

ResolvesClosure(q) == Dynamic(q.operation) /\ q.resolver

\* Slip: the scope gives way to a filter of the consumer's.
NormalizedOperationUnscoped(q, v) ==
  [q.operation EXCEPT
     !.filter = IF @ = {} THEN q.scope ELSE @,
     !.options.scopeInjected = @ \/ q.scope # {},
     !.traversal = IF ResolvesClosure(q) THEN Closed(@, v) ELSE @]

NormalizedOperation(q, v) ==
  [q.operation EXCEPT
     !.filter = @ \cup q.scope,
     !.options.scopeInjected = @ \/ q.scope # {},
     !.traversal = IF ResolvesClosure(q) THEN Closed(@, v) ELSE @]

Normalize(s, q) ==
  /\ Moves(s, "idle", "normalized")
  /\ normalized' = [normalized EXCEPT ![s] =
       [request |-> q, operation |-> NormalizedOperation(q, registry), registry |-> registry]]
  /\ UNCHANGED <<deployment, validation, plan, command, result, error>>
-----------------------------------------------------------------------------
(* validate_compile: the caller hands over the registry in force, or the one it *)
(* took up when it normalized                                                   *)

ViewsOf(s) == {registry, normalized[s].registry}

\* Slip: the requirements are those of the operation before its order is completed.
ValidationOfUncompleted(op, v) ==
  [operation    |-> EnsureOrder(op, v),
   requirements |-> InferRequirements(op, v),
   binding      |-> CHOOSE b \in BindingsOf(op, v) : TRUE,
   schemas      |-> SchemasOf(op, v),
   view         |-> v]

Validation(op, v) ==
  LET completed == EnsureOrder(op, v)
  IN  [operation    |-> completed,
       requirements |-> InferRequirements(completed, v),
       binding      |-> CHOOSE b \in BindingsOf(op, v) : TRUE,
       schemas      |-> SchemasOf(op, v),
       view         |-> v]

Validate(s, v) ==
  /\ Moves(s, "normalized", "validated")
  /\ ValidationErrors(normalized[s].operation, v) = {}
  /\ validation' = [validation EXCEPT ![s] = Validation(normalized[s].operation, v)]
  /\ UNCHANGED <<deployment, normalized, plan, command, result, error>>

ValidateRaises(s, v) ==
  \E code \in ValidationErrors(normalized[s].operation, v) : Fails(s, "normalized", code)
-----------------------------------------------------------------------------
(* QueryPlanner.plan: the caller hands over the fingerprint of the registry in *)
(* force, or of the one it validated against                                   *)

FingerprintsOf(s) == {registry.fingerprint, validation[s].view.fingerprint}

PlannerOf(s) == planner[validation[s].binding]

Assignments(s, verdict) ==
  LET op == validation[s].operation
  IN  [id \in {r.id : r \in validation[s].requirements} |->
         Select(PlannerOf(s),
                CHOOSE r \in validation[s].requirements : r.id = id, op, verdict)]

PlannedQuery(s, fingerprint, verdict) ==
  [operation     |-> validation[s].operation,
   binding       |-> validation[s].binding,
   requirements  |-> validation[s].requirements,
   assignments   |-> Assignments(s, verdict),
   capabilities  |-> Sha256(PlannerOf(s).capabilities),
   registry      |-> fingerprint,
   schemas       |-> validation[s].schemas,
   empty         |-> EmptyClosure(validation[s].operation)]

\* The refusals among the selected implementations; the first in the order of
\* semantic ids is raised, which of several is left open.
Refusals(s, verdict) == Range(Assignments(s, verdict)) \ Modes

Plan(s, fingerprint, verdict) ==
  /\ Moves(s, "validated", "planned")
  /\ ~StaleClosure(validation[s].operation, fingerprint)
  /\ Refusals(s, verdict) = {}
  /\ plan' = [plan EXCEPT ![s] = PlannedQuery(s, fingerprint, verdict)]
  /\ UNCHANGED <<deployment, normalized, validation, command, result, error>>

PlanStale(s, fingerprint) ==
  /\ StaleClosure(validation[s].operation, fingerprint)
  /\ Fails(s, "validated", "STALE_REGISTRY")

PlanUnsupported(s, fingerprint, verdict) ==
  /\ ~StaleClosure(validation[s].operation, fingerprint)
  /\ \E code \in Refusals(s, verdict) : Fails(s, "validated", code)
-----------------------------------------------------------------------------
(* compile_query, with the translator installed for the plan's Binding *)

Translator(s) == adapter[plan[s].binding]

\* Slip: the translator is compared with the planner in force, not with the plan.
CapabilityChangedSincePlanner(s) ==
  Sha256(Translator(s)) # Sha256(planner[plan[s].binding].capabilities)

\* Slip: the translator is compared with the fingerprint of the plan itself.
CapabilityChangedAgainstPlan(s) == Sha256(Translator(s)) # Sha256(plan[s])

CapabilityChanged(s) == Sha256(Translator(s)) # plan[s].capabilities

\* What the adapter's compile() returns (external): normally a command for the
\* plan it was given, by mistake one for another plan.
Compilations(s) == {Sha256(plan[s]), OtherPlan}

\* Slip: whatever the adapter returns is taken for a command of this plan.
CompileUnchecked(s) ==
  /\ Moves(s, "planned", "compiled")
  /\ ~plan[s].empty
  /\ ~CapabilityChanged(s)
  /\ \E fingerprint \in Compilations(s) :
       command' = [command EXCEPT ![s] =
         [planFingerprint |-> fingerprint, capabilities |-> Translator(s)]]
  /\ UNCHANGED <<deployment, normalized, validation, plan, result, error>>

Compile(s) ==
  /\ Moves(s, "planned", "compiled")
  /\ ~plan[s].empty
  /\ ~CapabilityChanged(s)
  /\ \E fingerprint \in Compilations(s) :
       /\ fingerprint = Sha256(plan[s])
       /\ command' = [command EXCEPT ![s] =
            [planFingerprint |-> fingerprint, capabilities |-> Translator(s)]]
  /\ UNCHANGED <<deployment, normalized, validation, plan, result, error>>

\* An empty plan is not for an adapter; a caller that compiles it is refused.
CompileEmpty(s) ==
  /\ plan[s].empty
  /\ Fails(s, "planned", "EMPTY_PLAN")

CompileStale(s) ==
  /\ ~plan[s].empty
  /\ CapabilityChanged(s)
  /\ Fails(s, "planned", "STALE_REGISTRY")

\* assert_translation_contract: the command is not bound to this plan.
CompileUnbound(s) ==
  /\ ~plan[s].empty
  /\ ~CapabilityChanged(s)
  /\ \E fingerprint \in Compilations(s) : fingerprint # Sha256(plan[s])
  /\ Fails(s, "planned", "UNBOUND_COMMAND")
-----------------------------------------------------------------------------
(* Execution by the adapter (external), then enforce_result_budget *)

WithinResultBudget(size, budget) ==
  /\ size.values <= budget.limits["resultValues"]
  /\ size.bytes <= budget.limits["resultBytes"]

Deliver(s, size) ==
  /\ Moves(s, "compiled", "delivered")
  /\ WithinResultBudget(size, plan[s].operation.budget)
  /\ result' = [result EXCEPT ![s] = size]
  /\ UNCHANGED <<deployment, normalized, validation, plan, command, error>>

\* Slip: the result is handed out before its budget is checked.
DeliverThenRaise(s, size) ==
  /\ ~WithinResultBudget(size, plan[s].operation.budget)
  /\ Moves(s, "compiled", "failed")
  /\ result' = [result EXCEPT ![s] = size]
  /\ error' = [error EXCEPT ![s] = "EXCESSIVE_BUDGET"]
  /\ UNCHANGED <<deployment, normalized, validation, plan, command>>

DeliverRaises(s, size) ==
  /\ ~WithinResultBudget(size, plan[s].operation.budget)
  /\ Fails(s, "compiled", "EXCESSIVE_BUDGET")

\* The caller answers a plan marked empty itself.
DeliverEmpty(s) ==
  /\ Moves(s, "planned", "delivered")
  /\ plan[s].empty
  /\ result' = [result EXCEPT ![s] = [values |-> 0, bytes |-> 0]]
  /\ UNCHANGED <<deployment, normalized, validation, plan, command, error>>

\* The caller starts over (external): a stale plan is made again.
Resubmit(s) ==
  /\ Moves(s, "failed", "idle")
  /\ error[s] = "STALE_REGISTRY"
  /\ normalized' = [normalized EXCEPT ![s] = NotYet]
  /\ validation' = [validation EXCEPT ![s] = NotYet]
  /\ plan' = [plan EXCEPT ![s] = NotYet]
  /\ error' = [error EXCEPT ![s] = NoError]
  /\ UNCHANGED <<deployment, command, result>>
-----------------------------------------------------------------------------
Verdicts == {"proves", "declines", "raises"}

\* The call a session makes next, whatever it is handed and however it ends.
NormalizeStep(s) == \E q \in Requests : Normalize(s, q)

ValidateStep(s) ==
  /\ stage[s] = "normalized"
  /\ \E v \in ViewsOf(s) : Validate(s, v) \/ ValidateRaises(s, v)

PlanStep(s) ==
  /\ stage[s] = "validated"
  /\ \E fingerprint \in FingerprintsOf(s), verdict \in Verdicts :
       \/ Plan(s, fingerprint, verdict)
       \/ PlanStale(s, fingerprint)
       \/ PlanUnsupported(s, fingerprint, verdict)

CompileStep(s) ==
  /\ stage[s] = "planned"
  /\ Compile(s) \/ CompileEmpty(s) \/ CompileStale(s) \/ CompileUnbound(s) \/ DeliverEmpty(s)

DeliverStep(s) ==
  /\ stage[s] = "compiled"
  /\ \E size \in ResultSizes : Deliver(s, size) \/ DeliverRaises(s, size)

SessionStep(s) ==
  NormalizeStep(s) \/ ValidateStep(s) \/ PlanStep(s) \/ CompileStep(s) \/ DeliverStep(s) \/ Resubmit(s)

DeploymentStep ==
  \/ \E v \in Registries : PublishRegistry(v)
  \/ \E b \in Bindings, capabilities \in CapabilitySets : InstallAdapter(b, capabilities)
  \/ \E b \in Bindings : RebuildPlanner(b)

Next == DeploymentStep \/ \E s \in Sessions : SessionStep(s)

Spec == Init /\ [][Next]_vars

\* Every library call returns and a caller that began goes on to its next call;
\* a deployment that replaced an adapter rebuilds the planner for it.
Fairness ==
  /\ \A s \in Sessions : WF_vars(SessionStep(s))
  /\ \A b \in Bindings : WF_vars(RebuildPlanner(b))

FairSpec == Spec /\ Fairness
-----------------------------------------------------------------------------
(* Properties *)

Stages == {"idle", "normalized", "validated", "planned", "compiled", "delivered", "failed"}

Planners == {NewPlanner(capabilities) : capabilities \in CapabilitySets}

NormalizedBy(v) ==
  {[request |-> q, operation |-> NormalizedOperation(q, v), registry |-> v] : q \in Requests}

\* The deployment stays within what it may publish, and each session holds
\* exactly the outputs of the calls it has made.
TypeOK ==
  /\ registry \in Registries
  /\ adapter \in [Bindings -> CapabilitySets]
  /\ planner \in [Bindings -> Planners]
  /\ stage \in [Sessions -> Stages]
  /\ normalized \in [Sessions -> {NotYet} \cup UNION {NormalizedBy(v) : v \in Registries}]
  /\ DOMAIN validation = Sessions /\ DOMAIN plan = Sessions
  /\ DOMAIN command = Sessions /\ DOMAIN result = Sessions /\ DOMAIN error = Sessions
  /\ \A s \in Sessions :
       /\ stage[s] \notin {"idle", "failed"} => normalized[s] # NotYet
       /\ stage[s] \in {"validated", "planned", "compiled", "delivered"} => validation[s] # NotYet
       /\ stage[s] \in {"planned", "compiled", "delivered"} => plan[s] # NotYet
       /\ stage[s] = "compiled" => command[s] # NotYet
       /\ stage[s] = "delivered" <=> result[s] # NotYet

HasPlan(s) == stage[s] \in {"planned", "compiled", "delivered"}

\* A plan over all neighbours is coherent: whatever was published between the
\* calls, its closure, its Schemas and its Binding are all those of the one
\* registry whose fingerprint it carries (validation/__init__.py:702-720,
\* planner/__init__.py:190-205).
ClosureCoherent ==
  \A s \in Sessions :
    HasPlan(s) /\ Dynamic(plan[s].operation) =>
      \E v \in Registries :
        /\ v.fingerprint = plan[s].registry
        /\ plan[s].operation.traversal.relations = v.neighbors[plan[s].operation.traversal.start]
        /\ plan[s].schemas = SchemasOf(plan[s].operation, v)
        /\ BindingsOf(plan[s].operation, v) = {plan[s].binding}

\* How a mode implements a requirement exactly under given capabilities.
ImplementedBy(mode, capabilities, requirement, op) ==
  CASE mode = "NATIVE" -> Native(capabilities, requirement, op)
    [] mode = "EXACT_REWRITE" -> Rewritable(NewPlanner(capabilities), requirement, op)
    [] mode = "BOUNDED_RESIDUAL" -> ResidualBounded(NewPlanner(capabilities), requirement, op)
    [] OTHER -> FALSE

\* A query that reaches an adapter is implemented exactly by that adapter as it
\* was when it compiled, even when it was replaced after planning: for every
\* requirement of the query, the selected mode is justified by the capabilities
\* the command was compiled with, never by a broader scan
\* (planner/__init__.py:206-224,247-279,288-301).
ImplementedExactly ==
  \A s \in Sessions :
    command[s] # NotYet =>
      \A requirement \in InferRequirements(plan[s].operation, validation[s].view) :
        ImplementedBy(plan[s].assignments[requirement.id], command[s].capabilities,
                      requirement, plan[s].operation)

\* No plan touches a Resource without the scope its registration required: the
\* scope the deployment supplied is among the conjuncts of the planned filter
\* (normalize/__init__.py:65-66,131-132,194-200; validation/__init__.py:405-427).
ScopeKept ==
  \A s \in Sessions :
    HasPlan(s) /\ (\E r \in Resources(plan[s].operation) :
                     Resolved(validation[s].view, r).scope # {}) =>
      /\ normalized[s].request.scope # {}
      /\ normalized[s].request.scope \subseteq plan[s].operation.filter

\* What is delivered stays within the limits reviewed for the workload profile in
\* the registry the query was validated against, whatever was published since.
WithinReviewedBudget ==
  \A s \in Sessions :
    result[s] # NotYet =>
      LET profile == validation[s].view.profiles[plan[s].operation.budget.profile]
      IN  /\ result[s].values <= profile["resultValues"]
          /\ result[s].bytes <= profile["resultBytes"]
          /\ Cardinality(Relations(plan[s].operation)) <= profile["relationResources"]

\* Every planned page has a total keyset order: each identity field of the
\* primary Record, under the Schema the plan is bound to, is in it
\* (validation/__init__.py:285-331).
KeysetTotal ==
  \A s \in Sessions :
    HasPlan(s) /\ Paginated(plan[s].operation) =>
      LET op == plan[s].operation
          schema == PrimarySchema(op, validation[s].view)
      IN  /\ schema.identity # <<>>
          /\ plan[s].schemas[op.primary.resource] = Sha256(schema)
          /\ \A name \in Range(schema.identity) : \E sort \in Range(op.order) :
               /\ sort.field.name = name
               /\ op.primary.resource \in Candidates(op, sort.field)

\* An adapter only ever sees a plan that reads something, and executes the
\* command of that plan and no other.
CommandBoundToPlan ==
  \A s \in Sessions :
    command[s] # NotYet =>
      /\ ~EmptyClosure(plan[s].operation)
      /\ command[s].planFingerprint = Sha256(plan[s])

\* A query is sent back only when something it rests on has changed: the registry
\* since it was normalized, or the adapter against the one it was planned for
\* (validation/__init__.py:702-720, planner/__init__.py:190-205,
\* adapter/__init__.py:319-340).
ChangedUnder(s) ==
  \/ registry # normalized[s].registry
  \/ plan[s] # NotYet /\ Sha256(Translator(s)) # plan[s].capabilities

StaleForCause ==
  [][\A s \in Sessions :
       stage[s] # "failed" /\ stage'[s] = "failed" /\ error'[s] = "STALE_REGISTRY"
         => ChangedUnder(s)]_vars

Settled(s) ==
  stage[s] = "delivered" \/ (stage[s] = "failed" /\ error[s] # "STALE_REGISTRY")

Quiet == <>[][FALSE]_<<registry, adapter>>

\* Staleness is transient: once the deployment stops publishing registries and
\* replacing adapters, every query is delivered or refused for good, however
\* often it was sent back as stale before.
StalenessEnds == Quiet => \A s \in Sessions : <>[]Settled(s)
=============================================================================
