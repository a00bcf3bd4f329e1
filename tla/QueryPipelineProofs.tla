------------------------- MODULE QueryPipelineProofs -------------------------
(***************************************************************************)
(* Proofs about QueryPipeline, for every deployment, registry, request and *)
(* number of callers; last, that it implements AtomicQuery.                *)
(***************************************************************************)
EXTENDS AtomicPlanning, QuerySemanticsProofs

(* What a session's outputs say of one another *)

\* The outputs of the calls after the last one that returned are not there yet;
\* a failed call leaves those of the earlier ones.
StageOK(s) ==
  /\ normalized[s] # NotYet => stage[s] # "idle"
  /\ validation[s] # NotYet => stage[s] \notin {"idle", "normalized"}
  /\ plan[s] # NotYet => stage[s] \in {"planned", "compiled", "delivered", "failed"}
  /\ command[s] # NotYet =>
       \/ stage[s] \in {"compiled", "delivered"}
       \/ stage[s] = "failed" /\ error[s] = "EXCESSIVE_BUDGET"

\* A validation is that of the operation the session normalized, against a
\* registry that was published, and found nothing wrong with it.
ValidatedOK(s) ==
  validation[s] # NotYet =>
    /\ normalized[s] # NotYet
    /\ validation[s].view \in Registries
    /\ validation[s] = Validation(normalized[s].operation, validation[s].view)
    /\ ValidationErrors(normalized[s].operation, validation[s].view) = {}

\* The modes some planner the deployment had selects for a validation.
Selected(p, v) ==
  \E planned \in Planners, verdict \in Verdicts :
    /\ p.capabilities = Sha256(planned.capabilities)
    /\ p.assignments =
         [id \in {r.id : r \in v.requirements} |->
            Select(planned, CHOOSE r \in v.requirements : r.id = id, v.operation, verdict)]
    /\ Range(p.assignments) \subseteq Modes

\* A plan p is made of a validation v.
PlannedFrom(p, v) ==
  /\ p.operation = v.operation
  /\ p.binding = v.binding
  /\ p.schemas = v.schemas
  /\ p.empty = EmptyClosure(v.operation)
  /\ ~StaleClosure(v.operation, p.registry)
  /\ Selected(p, v)

PlannedOK(s) ==
  plan[s] # NotYet => validation[s] # NotYet /\ PlannedFrom(plan[s], validation[s])

\* A command is of the session's plan, under the capabilities of that plan.
CommandOK(s) ==
  command[s] # NotYet =>
    /\ plan[s] # NotYet
    /\ ~plan[s].empty
    /\ command[s].planFingerprint = Sha256(plan[s])
    /\ Sha256(command[s].capabilities) = plan[s].capabilities

\* A result is within the budget of the planned operation.
ResultOK(s) ==
  result[s] # NotYet =>
    /\ plan[s] # NotYet
    /\ \/ result[s] = [values |-> 0, bytes |-> 0]
       \/ result[s] \in ResultSizes /\ WithinResultBudget(result[s], plan[s].operation.budget)

SessionOK(s) ==
  StageOK(s) /\ ValidatedOK(s) /\ PlannedOK(s) /\ CommandOK(s) /\ ResultOK(s)

IInv == TypeOK /\ \A s \in Sessions : SessionOK(s)
-----------------------------------------------------------------------------
(* TypeOK *)

\* An output is a record of other fields than NotYet.
LEMMA OutputsAreReached ==
  /\ \A q, op, v : [request |-> q, operation |-> op, registry |-> v] # NotYet
  /\ \A op, v : Validation(op, v) # NotYet
  /\ \A s, fingerprint, verdict : PlannedQuery(s, fingerprint, verdict) # NotYet
  /\ \A f, c : [planFingerprint |-> f, capabilities |-> c] # NotYet
  /\ \A x, y : [values |-> x, bytes |-> y] # NotYet
  /\ \A size \in ResultSizes : size # NotYet
<1>1. \A q, op, v : [request |-> q, operation |-> op, registry |-> v] # NotYet
  BY DEF NotYet
<1>2. \A op, v : Validation(op, v) # NotYet
  BY DEF NotYet, Validation
<1>3. \A s, fingerprint, verdict : PlannedQuery(s, fingerprint, verdict) # NotYet
  BY DEF NotYet, PlannedQuery
<1>4. \A f, c : [planFingerprint |-> f, capabilities |-> c] # NotYet
  BY DEF NotYet
<1>5. \A x, y : [values |-> x, bytes |-> y] # NotYet
  BY DEF NotYet
<1>6. \A size \in ResultSizes : size # NotYet
  BY ResultAssumption DEF NotYet
<1> QED BY <1>1, <1>2, <1>3, <1>4, <1>5, <1>6

\* A session that raises keeps what its earlier calls returned.
LEMMA FailsTypeOK ==
  ASSUME TypeOK, NEW s \in Sessions, NEW from \in Stages \ {"delivered"}, NEW code,
         Fails(s, from, code)
  PROVE  TypeOK'
BY DEF TypeOK, Fails, Moves, Stages, deployment

LEMMA InitTypeOK == Init => TypeOK
BY DEF Init, TypeOK, Stages, Planners

LEMMA NextTypeOK == TypeOK /\ [Next]_vars => TypeOK'
<1> SUFFICES ASSUME TypeOK, [Next]_vars PROVE TypeOK'
  OBVIOUS
<1>1. ASSUME NEW v \in Registries, PublishRegistry(v) PROVE TypeOK'
  BY <1>1 DEF PublishRegistry, TypeOK, session
<1>2. ASSUME NEW b \in Bindings, NEW c \in CapabilitySets, InstallAdapter(b, c) PROVE TypeOK'
  BY <1>2 DEF InstallAdapter, TypeOK, session
<1>3. ASSUME NEW b \in Bindings, RebuildPlanner(b) PROVE TypeOK'
  <2>1. NewPlanner(adapter[b]) \in Planners
    BY DEF TypeOK, Planners
  <2> QED BY <1>3, <2>1 DEF RebuildPlanner, TypeOK, session
<1>4. ASSUME NEW s \in Sessions, NormalizeStep(s) PROVE TypeOK'
  <2>1. PICK q \in Requests : Normalize(s, q)
    BY <1>4 DEF NormalizeStep
  <2> DEFINE new == [request |-> q, operation |-> NormalizedOperation(q, registry), registry |-> registry]
  <2>2. new \in NormalizedBy(registry) /\ registry \in Registries /\ new # NotYet
    BY OutputsAreReached DEF NormalizedBy, TypeOK
  <2>3. normalized' = [normalized EXCEPT ![s] = new]
    BY <2>1 DEF Normalize
  <2> HIDE DEF new
  <2> QED BY <2>1, <2>2, <2>3 DEF Normalize, Moves, TypeOK, Stages, deployment
<1>5. ASSUME NEW s \in Sessions, ValidateStep(s) PROVE TypeOK'
  <2>1. PICK v \in ViewsOf(s) : Validate(s, v) \/ ValidateRaises(s, v)
    BY <1>5 DEF ValidateStep
  <2>2. CASE Validate(s, v)
    BY <2>2, OutputsAreReached DEF Validate, Moves, TypeOK, Stages, deployment
  <2>3. CASE ValidateRaises(s, v)
    BY <2>3, FailsTypeOK DEF ValidateRaises, Stages
  <2> QED BY <2>1, <2>2, <2>3
<1>6. ASSUME NEW s \in Sessions, PlanStep(s) PROVE TypeOK'
  <2>1. PICK fingerprint \in FingerprintsOf(s), verdict \in Verdicts :
          \/ Plan(s, fingerprint, verdict)
          \/ PlanStale(s, fingerprint)
          \/ PlanUnsupported(s, fingerprint, verdict)
    BY <1>6 DEF PlanStep
  <2>2. CASE Plan(s, fingerprint, verdict)
    BY <2>2, OutputsAreReached DEF Plan, Moves, TypeOK, Stages, deployment
  <2>3. CASE PlanStale(s, fingerprint)
    BY <2>3, FailsTypeOK DEF PlanStale, Stages
  <2>4. CASE PlanUnsupported(s, fingerprint, verdict)
    BY <2>4, FailsTypeOK DEF PlanUnsupported, Stages
  <2> QED BY <2>1, <2>2, <2>3, <2>4
<1>7. ASSUME NEW s \in Sessions, CompileStep(s) PROVE TypeOK'
  <2>1. CASE Compile(s)
    BY <2>1, OutputsAreReached DEF Compile, Moves, TypeOK, Stages, deployment
  <2>2. CASE CompileEmpty(s) \/ CompileStale(s) \/ CompileUnbound(s)
    BY <2>2, FailsTypeOK DEF CompileEmpty, CompileStale, CompileUnbound, Stages
  <2>3. CASE DeliverEmpty(s)
    BY <2>3, OutputsAreReached DEF DeliverEmpty, Moves, TypeOK, Stages, deployment
  <2> QED BY <1>7, <2>1, <2>2, <2>3 DEF CompileStep
<1>8. ASSUME NEW s \in Sessions, DeliverStep(s) PROVE TypeOK'
  <2>1. PICK size \in ResultSizes : Deliver(s, size) \/ DeliverRaises(s, size)
    BY <1>8 DEF DeliverStep
  <2>2. CASE Deliver(s, size)
    BY <2>2, OutputsAreReached DEF Deliver, Moves, TypeOK, Stages, deployment
  <2>3. CASE DeliverRaises(s, size)
    BY <2>3, FailsTypeOK DEF DeliverRaises, Stages
  <2> QED BY <2>1, <2>2, <2>3
<1>9. ASSUME NEW s \in Sessions, Resubmit(s) PROVE TypeOK'
  BY <1>9 DEF Resubmit, Moves, TypeOK, Stages, deployment
<1>10. CASE UNCHANGED vars
  BY <1>10 DEF vars, TypeOK
<1> QED BY <1>1, <1>2, <1>3, <1>4, <1>5, <1>6, <1>7, <1>8, <1>9, <1>10
        DEF Next, DeploymentStep, SessionStep

\* The deployment stays within what it may publish, and each session holds
\* exactly the outputs of the calls it has made.
THEOREM PipelineTypeCorrect == Spec => []TypeOK
BY InitTypeOK, NextTypeOK, PTL DEF Spec
-----------------------------------------------------------------------------
(* The inductive invariant *)

\* What SessionOK(s) speaks of is kept.
Kept(s) ==
  /\ stage'[s] = stage[s]
  /\ normalized'[s] = normalized[s]
  /\ validation'[s] = validation[s]
  /\ plan'[s] = plan[s]
  /\ command'[s] = command[s]
  /\ result'[s] = result[s]
  /\ error'[s] = error[s]

LEMMA KeptOK ==
  ASSUME NEW s \in Sessions, SessionOK(s), Kept(s)
  PROVE  SessionOK(s)'
<1>1. StageOK(s)'
  BY DEF SessionOK, StageOK, Kept
<1>2. ValidatedOK(s)'
  BY DEF SessionOK, ValidatedOK, Kept
<1>3. PlannedOK(s)'
  BY DEF SessionOK, PlannedOK, Kept
<1>4. CommandOK(s)'
  BY DEF SessionOK, CommandOK, Kept
<1>5. ResultOK(s)'
  BY DEF SessionOK, ResultOK, Kept
<1> QED BY <1>1, <1>2, <1>3, <1>4, <1>5 DEF SessionOK

\* A session's call leaves the other sessions alone.
LEMMA OthersKept ==
  ASSUME TypeOK, NEW t \in Sessions, NEW s \in Sessions, s # t, SessionStep(t)
  PROVE  Kept(s)
<1> USE DEF Kept, TypeOK, Moves
<1>1. ASSUME NEW from, NEW code, Fails(t, from, code) PROVE Kept(s)
  BY <1>1 DEF Fails
<1>2. CASE NormalizeStep(t)
  BY <1>2 DEF NormalizeStep, Normalize
<1>3. CASE ValidateStep(t)
  BY <1>1, <1>3 DEF ValidateStep, Validate, ValidateRaises
<1>4. CASE PlanStep(t)
  BY <1>1, <1>4 DEF PlanStep, Plan, PlanStale, PlanUnsupported
<1>5. CASE CompileStep(t)
  BY <1>1, <1>5 DEF CompileStep, Compile, CompileEmpty, CompileStale, CompileUnbound, DeliverEmpty
<1>6. CASE DeliverStep(t)
  BY <1>1, <1>6 DEF DeliverStep, Deliver, DeliverRaises
<1>7. CASE Resubmit(t)
  BY <1>7 DEF Resubmit
<1> QED BY <1>2, <1>3, <1>4, <1>5, <1>6, <1>7 DEF SessionStep

\* A call that raises keeps the outputs of the earlier calls; only a delivery that
\* exceeds its budget does so with a command at hand.
LEMMA FailsOK ==
  ASSUME TypeOK, NEW s \in Sessions, SessionOK(s), NEW from \in Stages, NEW code,
         Fails(s, from, code), from \notin {"idle", "delivered", "failed"},
         from = "compiled" => code = "EXCESSIVE_BUDGET"
  PROVE  SessionOK(s)'
<1>1. /\ stage[s] = from /\ stage'[s] = "failed" /\ error'[s] = code
      /\ UNCHANGED <<normalized, validation, plan, command, result>>
  BY DEF Fails, Moves, TypeOK
<1>2. StageOK(s)'
  BY <1>1 DEF SessionOK, StageOK
<1>3. ValidatedOK(s)'
  BY <1>1 DEF SessionOK, ValidatedOK
<1>4. PlannedOK(s)'
  BY <1>1 DEF SessionOK, PlannedOK
<1>5. CommandOK(s)'
  BY <1>1 DEF SessionOK, CommandOK
<1>6. ResultOK(s)'
  BY <1>1 DEF SessionOK, ResultOK
<1> QED BY <1>2, <1>3, <1>4, <1>5, <1>6 DEF SessionOK

LEMMA NormalizeOK ==
  ASSUME TypeOK, NEW s \in Sessions, SessionOK(s), NormalizeStep(s)
  PROVE  SessionOK(s)'
<1>1. /\ stage[s] = "idle" /\ stage'[s] = "normalized"
      /\ UNCHANGED <<validation, plan, command, result>>
  BY DEF NormalizeStep, Normalize, Moves, TypeOK
<1>2. validation[s] = NotYet /\ plan[s] = NotYet /\ command[s] = NotYet /\ result[s] = NotYet
  BY <1>1 DEF SessionOK, StageOK, TypeOK
<1> QED BY <1>1, <1>2 DEF SessionOK, StageOK, ValidatedOK, PlannedOK, CommandOK, ResultOK

\* What normalize left behind.
LEMMA NormalizedFacts ==
  ASSUME TypeOK, NEW s \in Sessions, normalized[s] # NotYet
  PROVE  /\ normalized[s].request \in Requests
         /\ normalized[s].registry \in Registries
         /\ normalized[s].operation =
              NormalizedOperation(normalized[s].request, normalized[s].registry)
<1>1. PICK v \in Registries : normalized[s] \in NormalizedBy(v)
  BY DEF TypeOK
<1>2. PICK q \in Requests :
        normalized[s] = [request |-> q, operation |-> NormalizedOperation(q, v), registry |-> v]
  BY <1>1 DEF NormalizedBy
<1> QED BY <1>2

LEMMA ValidateOK ==
  ASSUME TypeOK, NEW s \in Sessions, SessionOK(s),
         ValidateStep(s)
  PROVE  SessionOK(s)'
<1>1. PICK v \in ViewsOf(s) : Validate(s, v) \/ ValidateRaises(s, v)
  BY DEF ValidateStep
<1>2. CASE Validate(s, v)
  <2>1. /\ stage[s] = "normalized" /\ stage'[s] = "validated"
        /\ ValidationErrors(normalized[s].operation, v) = {}
        /\ validation'[s] = Validation(normalized[s].operation, v)
        /\ UNCHANGED <<normalized, plan, command, result>>
    BY <1>2 DEF Validate, Moves, TypeOK
  <2>2. normalized[s] # NotYet /\ plan[s] = NotYet /\ command[s] = NotYet /\ result[s] = NotYet
    BY <2>1 DEF SessionOK, StageOK, TypeOK
  <2>3. v \in Registries
    BY <2>2, NormalizedFacts DEF ViewsOf, TypeOK
  <2>4. validation'[s].view = v
    BY <2>1 DEF Validation
  <2>5. ValidatedOK(s)'
    BY <2>1, <2>2, <2>3, <2>4 DEF ValidatedOK
  <2> QED BY <2>1, <2>2, <2>5 DEF SessionOK, StageOK, PlannedOK, CommandOK, ResultOK
<1>3. CASE ValidateRaises(s, v)
  BY <1>3, FailsOK DEF ValidateRaises, Stages
<1> QED BY <1>1, <1>2, <1>3

-----------------------------------------------------------------------------
(* What an operation without validation errors is (validation/__init__.py:168-201) *)

LEMMA ValidMeans ==
  ASSUME NEW op, NEW v, ValidationErrors(op, v) = {}
  PROVE  /\ \A r \in Resources(op) : Registered(v, r)
         /\ OneBinding(op, v)
         /\ ~(Dynamic(op) /\ StaleClosure(op, v.fingerprint))
         /\ Diagnosed(EnsureOrder(op, v), v) = {}
<1>1. ResolutionErrors(op, v) = {} /\ OneBinding(op, v)
  BY DEF ValidationErrors
<1>2. ~(Dynamic(op) /\ StaleClosure(op, v.fingerprint))
  BY <1>1 DEF ValidationErrors
<1>3. Diagnosed(EnsureOrder(op, v), v) = {}
  BY <1>1, <1>2 DEF ValidationErrors
<1>4. ~UnknownResource(op, v)
  BY <1>1 DEF ResolutionErrors, When
<1> QED BY <1>1, <1>2, <1>3, <1>4 DEF UnknownResource

LEMMA BindingIsOne ==
  ASSUME NEW op, NEW v, ValidationErrors(op, v) = {}
  PROVE  /\ BindingsOf(op, v) = {Validation(op, v).binding}
         /\ v \in Registries => Validation(op, v).binding \in Bindings
<1> DEFINE b == CHOOSE x \in BindingsOf(op, v) : TRUE
<1>1. PICK x \in BindingsOf(op, v) : BindingsOf(op, v) = {x}
  BY ValidMeans DEF OneBinding
<1>2. b \in BindingsOf(op, v)
  BY <1>1
<1>3. Validation(op, v).binding = b
  BY DEF Validation
<1>4. ASSUME v \in Registries PROVE b \in Bindings
  <2>1. PICK r \in Resources(op) : b = Resolved(v, r).binding
    BY <1>2 DEF BindingsOf
  <2>2. r \in DOMAIN v.resources
    BY ValidMeans DEF Registered
  <2> QED BY <1>4, <2>1, <2>2, RegistryAssumption DEF Resolved
<1> QED BY <1>1, <1>2, <1>3, <1>4

LEMMA PlanOK ==
  ASSUME TypeOK, NEW s \in Sessions, SessionOK(s), PlanStep(s)
  PROVE  SessionOK(s)'
<1>1. PICK fingerprint \in FingerprintsOf(s), verdict \in Verdicts :
        \/ Plan(s, fingerprint, verdict)
        \/ PlanStale(s, fingerprint)
        \/ PlanUnsupported(s, fingerprint, verdict)
  BY DEF PlanStep
<1>2. CASE Plan(s, fingerprint, verdict)
  <2>1. /\ stage[s] = "validated" /\ stage'[s] = "planned"
        /\ ~StaleClosure(validation[s].operation, fingerprint)
        /\ Refusals(s, verdict) = {}
        /\ plan'[s] = PlannedQuery(s, fingerprint, verdict)
        /\ UNCHANGED <<normalized, validation, command, result>>
    BY <1>2 DEF Plan, Moves, TypeOK
  <2>2. validation[s] # NotYet /\ command[s] = NotYet /\ result[s] = NotYet
    BY <2>1 DEF SessionOK, StageOK, TypeOK
  <2> DEFINE p == PlannedQuery(s, fingerprint, verdict)
  <2>3. /\ p.operation = validation[s].operation
        /\ p.binding = validation[s].binding
        /\ p.schemas = validation[s].schemas
        /\ p.empty = EmptyClosure(validation[s].operation)
        /\ p.registry = fingerprint
        /\ p.capabilities = Sha256(PlannerOf(s).capabilities)
        /\ p.assignments = Assignments(s, verdict)
    BY DEF PlannedQuery
  <2>4. validation[s].binding \in Bindings
    BY <2>2, BindingIsOne DEF SessionOK, ValidatedOK
  <2>5. PlannerOf(s) \in Planners
    BY <2>4 DEF PlannerOf, TypeOK
  <2>6. Range(p.assignments) \subseteq Modes
    BY <2>1, <2>3 DEF Refusals
  <2>7. Selected(p, validation[s])
    BY <2>3, <2>5, <2>6 DEF Selected, Assignments
  <2>8. PlannedFrom(p, validation[s])
    BY <2>1, <2>3, <2>7 DEF PlannedFrom
  <2>9. PlannedOK(s)'
    BY <2>1, <2>2, <2>8 DEF PlannedOK
  <2> QED BY <2>1, <2>2, <2>9 DEF SessionOK, StageOK, ValidatedOK, CommandOK, ResultOK
<1>3. CASE PlanStale(s, fingerprint)
  BY <1>3, FailsOK DEF PlanStale, Stages
<1>4. CASE PlanUnsupported(s, fingerprint, verdict)
  BY <1>4, FailsOK DEF PlanUnsupported, Stages
<1> QED BY <1>1, <1>2, <1>3, <1>4

LEMMA CompileOK ==
  ASSUME TypeOK, NEW s \in Sessions, SessionOK(s), CompileStep(s)
  PROVE  SessionOK(s)'
<1>1. CASE Compile(s)
  <2>1. /\ stage[s] = "planned" /\ stage'[s] = "compiled"
        /\ ~plan[s].empty
        /\ Sha256(Translator(s)) = plan[s].capabilities
        /\ command'[s] = [planFingerprint |-> Sha256(plan[s]), capabilities |-> Translator(s)]
        /\ UNCHANGED <<normalized, validation, plan, result>>
    BY <1>1 DEF Compile, CapabilityChanged, Moves, TypeOK
  <2>2. plan[s] # NotYet /\ result[s] = NotYet
    BY <2>1 DEF TypeOK
  <2>3. CommandOK(s)'
    BY <2>1, <2>2 DEF CommandOK
  <2>4. StageOK(s)'
    BY <2>1 DEF SessionOK, StageOK
  <2> QED BY <2>1, <2>2, <2>3, <2>4 DEF SessionOK, ValidatedOK, PlannedOK, ResultOK
<1>2. CASE CompileEmpty(s) \/ CompileStale(s) \/ CompileUnbound(s)
  BY <1>2, FailsOK DEF CompileEmpty, CompileStale, CompileUnbound, Stages
<1>3. CASE DeliverEmpty(s)
  <2>1. /\ stage[s] = "planned" /\ stage'[s] = "delivered"
        /\ result'[s] = [values |-> 0, bytes |-> 0]
        /\ UNCHANGED <<normalized, validation, plan, command>>
    BY <1>3 DEF DeliverEmpty, Moves, TypeOK
  <2>2. plan[s] # NotYet
    BY <2>1 DEF TypeOK
  <2>3. StageOK(s)' /\ ResultOK(s)'
    BY <2>1, <2>2 DEF SessionOK, StageOK, ResultOK
  <2> QED BY <2>1, <2>3 DEF SessionOK, ValidatedOK, PlannedOK, CommandOK
<1> QED BY <1>1, <1>2, <1>3 DEF CompileStep

LEMMA DeliverOK ==
  ASSUME TypeOK, NEW s \in Sessions, SessionOK(s), DeliverStep(s)
  PROVE  SessionOK(s)'
<1>1. PICK size \in ResultSizes : Deliver(s, size) \/ DeliverRaises(s, size)
  BY DEF DeliverStep
<1>2. CASE Deliver(s, size)
  <2>1. /\ stage[s] = "compiled" /\ stage'[s] = "delivered"
        /\ WithinResultBudget(size, plan[s].operation.budget)
        /\ result'[s] = size
        /\ UNCHANGED <<normalized, validation, plan, command>>
    BY <1>2 DEF Deliver, Moves, TypeOK
  <2>2. plan[s] # NotYet
    BY <2>1 DEF TypeOK
  <2>3. StageOK(s)' /\ ResultOK(s)'
    BY <2>1, <2>2 DEF SessionOK, StageOK, ResultOK
  <2> QED BY <2>1, <2>3 DEF SessionOK, ValidatedOK, PlannedOK, CommandOK
<1>3. CASE DeliverRaises(s, size)
  BY <1>3, FailsOK DEF DeliverRaises, Stages
<1> QED BY <1>1, <1>2, <1>3

\* A query that starts over has neither a command nor a result: only a call before
\* compile_query returns, or that call itself, reports staleness.
LEMMA ResubmitOK ==
  ASSUME TypeOK, NEW s \in Sessions, SessionOK(s), Resubmit(s)
  PROVE  SessionOK(s)'
<1>1. /\ stage[s] = "failed" /\ stage'[s] = "idle"
      /\ error[s] = "STALE_REGISTRY"
      /\ normalized'[s] = NotYet /\ validation'[s] = NotYet /\ plan'[s] = NotYet
      /\ UNCHANGED <<command, result>>
  BY DEF Resubmit, Moves, TypeOK
<1>2. command[s] = NotYet /\ result[s] = NotYet
  BY <1>1 DEF SessionOK, StageOK, TypeOK
<1> QED BY <1>1, <1>2 DEF SessionOK, StageOK, ValidatedOK, PlannedOK, CommandOK, ResultOK

LEMMA InitIInv == Init => IInv
BY InitTypeOK DEF Init, IInv, SessionOK, StageOK, ValidatedOK, PlannedOK, CommandOK, ResultOK

LEMMA NextIInv == IInv /\ [Next]_vars => IInv'
<1> SUFFICES ASSUME IInv, [Next]_vars PROVE IInv'
  OBVIOUS
<1>1. TypeOK /\ TypeOK'
  BY NextTypeOK DEF IInv
<1>2. ASSUME NEW s \in Sessions PROVE SessionOK(s)'
  <2>1. SessionOK(s)
    BY DEF IInv
  <2>2. CASE DeploymentStep \/ UNCHANGED vars
    <3>1. Kept(s)
      BY <2>2 DEF DeploymentStep, PublishRegistry, InstallAdapter, RebuildPlanner, session, vars, Kept
    <3> QED BY <2>1, <3>1, KeptOK
  <2>3. CASE SessionStep(s)
    BY <1>1, <2>1, <2>3, NormalizeOK, ValidateOK, PlanOK, CompileOK, DeliverOK, ResubmitOK
    DEF SessionStep
  <2>4. ASSUME NEW t \in Sessions, t # s, SessionStep(t) PROVE SessionOK(s)'
    <3>1. Kept(s)
      BY <1>1, <2>4, OthersKept
    <3> QED BY <2>1, <3>1, KeptOK
  <2> QED BY <2>2, <2>3, <2>4 DEF Next
<1> QED BY <1>1, <1>2 DEF IInv

LEMMA Invariance == Spec => []IInv
BY InitIInv, NextIInv, PTL DEF Spec
-----------------------------------------------------------------------------
(* What normalization and order completion leave alone *)

\* An operation has the fields of one.
Shaped(op) == op = [f \in OperationFields |-> op[f]]

\* Normalizing adds the scope to the filter and closes the traversal
\* (normalize/__init__.py:59-85).
LEMMA NormalizedOperationFacts ==
  ASSUME NEW q \in Requests, NEW w
  PROVE  LET op == NormalizedOperation(q, w)
         IN  /\ Shaped(op)
             /\ op.primary = q.operation.primary
             /\ op.joins = q.operation.joins
             /\ op.order = q.operation.order
             /\ op.budget = q.operation.budget
             /\ op.filter = q.operation.filter \cup q.scope
             /\ op.options.scopeInjected <=> q.scope # {}
             /\ op.traversal = IF ResolvesClosure(q) THEN Closed(q.operation.traversal, w)
                               ELSE q.operation.traversal
<1> DEFINE op == NormalizedOperation(q, w)
<1>1. q.operation = [f \in OperationFields |-> q.operation[f]]
  BY RequestAssumption
<1>2. /\ q.operation.options = [f \in OptionFields |-> q.operation.options[f]]
      /\ q.operation.options.scopeInjected = FALSE
  BY RequestAssumption
<1>3. Shaped(op)
  BY <1>1 DEF Shaped, NormalizedOperation, OperationFields
<1>4. /\ op.primary = q.operation.primary
      /\ op.joins = q.operation.joins
      /\ op.order = q.operation.order
      /\ op.budget = q.operation.budget
      /\ op.filter = q.operation.filter \cup q.scope
      /\ op.traversal = IF ResolvesClosure(q) THEN Closed(q.operation.traversal, w)
                        ELSE q.operation.traversal
  BY <1>1 DEF NormalizedOperation, OperationFields
<1>5. op.options.scopeInjected <=> q.scope # {}
  BY <1>1, <1>2 DEF NormalizedOperation, OperationFields, OptionFields
<1> QED BY <1>3, <1>4, <1>5

\* Completing the order changes nothing but the order (validation/__init__.py:317-331).
LEMMA EnsureOrderFacts ==
  ASSUME NEW op, Shaped(op), NEW v
  PROVE  LET o == EnsureOrder(op, v)
         IN  /\ o.primary = op.primary
             /\ o.kind = op.kind
             /\ o.joins = op.joins
             /\ o.budget = op.budget
             /\ o.filter = op.filter
             /\ o.options = op.options
             /\ o.traversal = op.traversal
BY DEF Shaped, EnsureOrder, OperationFields

LEMMA SameResources ==
  ASSUME NEW op, NEW o, NEW v,
         o.primary = op.primary, o.joins = op.joins, o.traversal = op.traversal
  PROVE  /\ Resources(o) = Resources(op)
         /\ Relations(o) = Relations(op)
         /\ Dynamic(o) <=> Dynamic(op)
         /\ BindingsOf(o, v) = BindingsOf(op, v)
         /\ SchemasOf(o, v) = SchemasOf(op, v)
<1>1. Resources(o) = Resources(op) /\ Relations(o) = Relations(op)
  BY DEF Resources, Targets, Relations
<1>2. BindingsOf(o, v) = BindingsOf(op, v)
  BY <1>1 DEF BindingsOf
<1>3. SchemasOf(o, v) = SchemasOf(op, v)
  BY <1>1 DEF SchemasOf
<1> QED BY <1>1, <1>2, <1>3 DEF Dynamic

\* A planned operation is valid against the view its session validated with.
LEMMA PlannedFacts ==
  ASSUME IInv, NEW s \in Sessions, plan[s] # NotYet
  PROVE  LET q == normalized[s].request
             w == normalized[s].registry
             op == normalized[s].operation
             v == validation[s].view
         IN  /\ q \in Requests /\ w \in Registries /\ v \in Registries
             /\ op = NormalizedOperation(q, w)
             /\ ValidationErrors(op, v) = {}
             /\ validation[s] = Validation(op, v)
             /\ plan[s].operation = EnsureOrder(op, v)
             /\ plan[s].operation = validation[s].operation
             /\ PlannedFrom(plan[s], validation[s])
<1>1. TypeOK /\ PlannedOK(s) /\ ValidatedOK(s)
  BY DEF IInv, SessionOK
<1>2. validation[s] # NotYet /\ PlannedFrom(plan[s], validation[s])
  BY <1>1 DEF PlannedOK
<1>3. /\ normalized[s] # NotYet /\ validation[s].view \in Registries
      /\ validation[s] = Validation(normalized[s].operation, validation[s].view)
      /\ ValidationErrors(normalized[s].operation, validation[s].view) = {}
  BY <1>1, <1>2 DEF ValidatedOK
<1>4. validation[s].operation = EnsureOrder(normalized[s].operation, validation[s].view)
  BY <1>3 DEF Validation
<1>5. plan[s].operation = validation[s].operation
  BY <1>2 DEF PlannedFrom
<1> QED BY <1>1, <1>2, <1>3, <1>4, <1>5, NormalizedFacts
-----------------------------------------------------------------------------
(* The properties *)

LEMMA BoundCommand == IInv => CommandBoundToPlan
<1> SUFFICES ASSUME IInv, NEW s \in Sessions, command[s] # NotYet
             PROVE  /\ ~EmptyClosure(plan[s].operation)
                    /\ command[s].planFingerprint = Sha256(plan[s])
  BY DEF CommandBoundToPlan
<1>1. CommandOK(s) /\ PlannedOK(s)
  BY DEF IInv, SessionOK
<1>2. /\ plan[s] # NotYet /\ ~plan[s].empty
      /\ command[s].planFingerprint = Sha256(plan[s])
  BY <1>1 DEF CommandOK
<1> QED BY <1>1, <1>2 DEF PlannedOK, PlannedFrom

\* An adapter only ever sees a plan that reads something, and executes the
\* command of that plan and no other.
THEOREM CommandsBound == Spec => []CommandBoundToPlan
BY Invariance, BoundCommand, PTL

LEMMA CoherentClosure == IInv => ClosureCoherent
<1> SUFFICES ASSUME IInv, NEW s \in Sessions, HasPlan(s), Dynamic(plan[s].operation)
             PROVE  \E v \in Registries :
                      /\ v.fingerprint = plan[s].registry
                      /\ plan[s].operation.traversal.relations
                           = v.neighbors[plan[s].operation.traversal.start]
                      /\ plan[s].schemas = SchemasOf(plan[s].operation, v)
                      /\ BindingsOf(plan[s].operation, v) = {plan[s].binding}
  BY DEF ClosureCoherent
<1> DEFINE q == normalized[s].request
           w == normalized[s].registry
           op == normalized[s].operation
           v == validation[s].view
           o == plan[s].operation
<1>1. plan[s] # NotYet
  BY DEF HasPlan, IInv, TypeOK
<1>2. /\ q \in Requests /\ w \in Registries /\ v \in Registries
      /\ op = NormalizedOperation(q, w)
      /\ ValidationErrors(op, v) = {}
      /\ validation[s] = Validation(op, v)
      /\ o = EnsureOrder(op, v)
      /\ o = validation[s].operation
      /\ PlannedFrom(plan[s], validation[s])
  BY <1>1, PlannedFacts
<1> HIDE DEF q, w, op, v
<1>3. /\ Shaped(op)
      /\ op.traversal = IF ResolvesClosure(q) THEN Closed(q.operation.traversal, w)
                        ELSE q.operation.traversal
  BY <1>2, NormalizedOperationFacts
<1>4. o.primary = op.primary /\ o.joins = op.joins /\ o.traversal = op.traversal
  <2>1. Shaped(op) /\ o = EnsureOrder(op, v)
    BY <1>2, <1>3
  <2> QED BY <2>1, EnsureOrderFacts
<1>5. /\ Dynamic(op)
      /\ BindingsOf(o, v) = BindingsOf(op, v)
      /\ SchemasOf(o, v) = SchemasOf(op, v)
  BY <1>4, SameResources
<1>6. /\ ~StaleClosure(op, v.fingerprint)
      /\ Diagnosed(o, v) = {}
  BY <1>2, <1>5, ValidMeans
<1>7. o.traversal.fingerprint # NoFingerprint
  <2>1. TraversalOK(o, v)
    BY <1>6 DEF Diagnosed, TraversalErrors, When
  <2> QED BY <2>1 DEF TraversalOK, Dynamic
<1>8. ResolvesClosure(q)
  <2> SUFFICES ASSUME ~ResolvesClosure(q) PROVE FALSE
    OBVIOUS
  <2>1. op.traversal = q.operation.traversal
    BY <1>3
  <2>2. q.operation.traversal.fingerprint = NoFingerprint
    BY <1>2, <1>5, <2>1, RequestAssumption DEF Dynamic
  <2> QED BY <1>4, <1>7, <2>1, <2>2
<1>9. /\ o.traversal.relations = w.neighbors[o.traversal.start]
      /\ o.traversal.fingerprint = w.fingerprint
  <2>1. q.operation.traversal = [f \in TraversalFields |-> q.operation.traversal[f]]
    BY <1>2, <1>8, RequestAssumption DEF ResolvesClosure, Dynamic
  <2>2. o.traversal = Closed(q.operation.traversal, w)
    BY <1>3, <1>4, <1>8
  <2> QED BY <2>1, <2>2 DEF Closed, TraversalFields
<1>10. v = w
  <2>1. o.traversal.fingerprint = v.fingerprint
    BY <1>4, <1>5, <1>6, <1>7 DEF StaleClosure, Dynamic
  <2> QED BY <1>2, <1>9, <2>1, RegistryAssumption
<1>11. v.fingerprint = plan[s].registry
  <2>1. ~StaleClosure(o, plan[s].registry)
    BY <1>2 DEF PlannedFrom
  <2> QED BY <1>7, <1>9, <1>10, <2>1 DEF StaleClosure, Dynamic
<1>12. plan[s].schemas = SchemasOf(o, v)
  BY <1>2, <1>5 DEF PlannedFrom, Validation
<1>13. BindingsOf(o, v) = {plan[s].binding}
  BY <1>2, <1>5, BindingIsOne DEF PlannedFrom
<1> QED BY <1>2, <1>9, <1>10, <1>11, <1>12, <1>13

\* A plan over all neighbours is coherent: whatever was published between the
\* calls, its closure, Schemas and Binding are those of the one registry whose
\* fingerprint it carries.
THEOREM ClosuresCoherent == Spec => []ClosureCoherent
BY Invariance, CoherentClosure, PTL

LEMMA KeptScope == IInv => ScopeKept
<1> SUFFICES ASSUME IInv, NEW s \in Sessions, HasPlan(s),
                    NEW r \in Resources(plan[s].operation),
                    Resolved(validation[s].view, r).scope # {}
             PROVE  /\ normalized[s].request.scope # {}
                    /\ normalized[s].request.scope \subseteq plan[s].operation.filter
  BY DEF ScopeKept
<1> DEFINE q == normalized[s].request
           w == normalized[s].registry
           op == normalized[s].operation
           v == validation[s].view
           o == plan[s].operation
<1>1. plan[s] # NotYet
  BY DEF HasPlan, IInv, TypeOK
<1>2. /\ q \in Requests /\ op = NormalizedOperation(q, w)
      /\ ValidationErrors(op, v) = {} /\ o = EnsureOrder(op, v)
  BY <1>1, PlannedFacts
<1> HIDE DEF q, w, op
<1>3. /\ Shaped(op)
      /\ op.filter = q.operation.filter \cup q.scope
      /\ op.options.scopeInjected <=> q.scope # {}
  BY <1>2, NormalizedOperationFacts
<1>4. o.filter = op.filter /\ o.options = op.options
  <2>1. Shaped(op) /\ o = EnsureOrder(op, v)
    BY <1>2, <1>3
  <2> QED BY <2>1, EnsureOrderFacts
<1>5. o.options.scopeInjected
  <2>1. ScopeErrors(o, v) = {}
    BY <1>2, ValidMeans DEF Diagnosed
  <2> QED BY <2>1 DEF ScopeErrors, RequiresScope, When
<1> QED BY <1>3, <1>4, <1>5 DEF q

\* No plan touches a Resource without the scope its registration required.
THEOREM ScopesKept == Spec => []ScopeKept
BY Invariance, KeptScope, PTL

\* The relations a planned traversal crosses are finitely many.
LEMMA FiniteRelations ==
  ASSUME IInv, NEW s \in Sessions, plan[s] # NotYet
  PROVE  IsFiniteSet(Relations(plan[s].operation))
<1> DEFINE q == normalized[s].request
           w == normalized[s].registry
           op == normalized[s].operation
           v == validation[s].view
           o == plan[s].operation
<1>1. /\ q \in Requests /\ w \in Registries /\ v \in Registries
      /\ op = NormalizedOperation(q, w)
      /\ ValidationErrors(op, v) = {} /\ o = EnsureOrder(op, v)
  BY PlannedFacts
<1> HIDE DEF q, w, op, v
<1>2. /\ Shaped(op)
      /\ op.primary = q.operation.primary
      /\ op.joins = q.operation.joins
      /\ op.traversal = IF ResolvesClosure(q) THEN Closed(q.operation.traversal, w)
                        ELSE q.operation.traversal
  BY <1>1, NormalizedOperationFacts
<1>3. o.primary = op.primary /\ o.joins = op.joins /\ o.traversal = op.traversal
  <2>1. Shaped(op) /\ o = EnsureOrder(op, v)
    BY <1>1, <1>2
  <2> QED BY <2>1, EnsureOrderFacts
<1>4. CASE ~ResolvesClosure(q)
  <2>1. o.traversal = q.operation.traversal
    BY <1>2, <1>3, <1>4
  <2> QED BY <1>1, <2>1, RequestAssumption, FS_EmptySet DEF Relations
<1>5. CASE ResolvesClosure(q)
  <2>1. /\ q.operation.traversal # NoTraversal
        /\ q.operation.traversal.allNeighbors
        /\ q.operation.traversal = [f \in TraversalFields |-> q.operation.traversal[f]]
    BY <1>1, <1>5, RequestAssumption DEF ResolvesClosure, Dynamic
  <2>2. o.traversal = Closed(q.operation.traversal, w)
    BY <1>2, <1>3, <1>5
  <2>3. /\ o.traversal.fingerprint = w.fingerprint
        /\ o.traversal.start = q.operation.traversal.start
        /\ o.traversal.allNeighbors
        /\ o.traversal.relations = w.neighbors[o.traversal.start]
    BY <2>1, <2>2 DEF Closed, TraversalFields
  <2>4. CASE o.traversal = NoTraversal
    BY <2>4, FS_EmptySet DEF Relations
  <2>5. CASE o.traversal # NoTraversal
    <3>1. Dynamic(op)
      BY <1>3, <2>3, <2>5 DEF Dynamic
    <3>2. ~StaleClosure(op, v.fingerprint) /\ TraversalErrors(o, v) = {}
      BY <1>1, <3>1, ValidMeans DEF Diagnosed
    <3>3. w = v
      BY <1>1, <1>3, <2>3, <2>5, <3>2, RegistryAssumption DEF StaleClosure
    <3>4. o.traversal.start = o.primary.resource
      BY <2>5, <3>2 DEF TraversalErrors, TraversalOK, When
    <3>5. o.primary.resource \in DOMAIN w.resources
      <4>1. op.primary.resource \in Resources(op)
        BY DEF Resources, Targets
      <4> QED BY <1>1, <1>3, <3>3, <4>1, ValidMeans DEF Registered
    <3>6. IsFiniteSet(w.neighbors[o.traversal.start])
      BY <1>1, <3>4, <3>5, RegistryAssumption
    <3> QED BY <2>3, <2>5, <3>6 DEF Relations
  <2> QED BY <2>4, <2>5
<1> QED BY <1>4, <1>5

LEMMA ReviewedBudget == IInv => WithinReviewedBudget
<1> SUFFICES ASSUME IInv, NEW s \in Sessions, result[s] # NotYet
             PROVE  LET profile == validation[s].view.profiles[plan[s].operation.budget.profile]
                    IN  /\ result[s].values <= profile["resultValues"]
                        /\ result[s].bytes <= profile["resultBytes"]
                        /\ Cardinality(Relations(plan[s].operation)) <= profile["relationResources"]
  BY DEF WithinReviewedBudget
<1> DEFINE q == normalized[s].request
           w == normalized[s].registry
           op == normalized[s].operation
           v == validation[s].view
           o == plan[s].operation
           profile == v.profiles[o.budget.profile]
<1>1. ResultOK(s)
  BY DEF IInv, SessionOK
<1>2. plan[s] # NotYet
  BY <1>1 DEF ResultOK
<1>3. /\ q \in Requests /\ v \in Registries /\ op = NormalizedOperation(q, w)
      /\ ValidationErrors(op, v) = {} /\ o = EnsureOrder(op, v)
  BY <1>2, PlannedFacts
<1>4. IsFiniteSet(Relations(o))
  BY <1>2, FiniteRelations
<1> HIDE DEF q, w, op, v
<1>5. Shaped(op) /\ op.budget = q.operation.budget
  BY <1>3, NormalizedOperationFacts
<1>6. o.budget = op.budget
  <2>1. Shaped(op) /\ o = EnsureOrder(op, v)
    BY <1>3, <1>5
  <2> QED BY <2>1, EnsureOrderFacts
<1>7. WithinProfile(o.budget, v) /\ WithinBudget(o)
  <2>1. BudgetErrors(o, v) = {}
    BY <1>3, ValidMeans DEF Diagnosed
  <2> QED BY <2>1 DEF BudgetErrors, When
<1>8. profile \in [BudgetFields -> Nat] /\ o.budget.limits \in [BudgetFields -> Nat]
  BY <1>3, <1>5, <1>6, <1>7, RegistryAssumption, RequestAssumption DEF WithinProfile
<1>9. \A f \in BudgetFields :
        o.budget.limits[f] <= profile[f] /\ o.budget.limits[f] \in Nat /\ profile[f] \in Nat
  BY <1>7, <1>8 DEF WithinProfile
<1>10. result[s].values <= profile["resultValues"] /\ result[s].bytes <= profile["resultBytes"]
  <2> HIDE DEF profile
  <2>1. /\ "resultValues" \in BudgetFields
        /\ "resultBytes" \in BudgetFields
    BY DEF BudgetFields
  <2>2. CASE result[s] = [values |-> 0, bytes |-> 0]
    BY <1>9, <2>1, <2>2
  <2>3. CASE result[s] \in ResultSizes /\ WithinResultBudget(result[s], o.budget)
    BY <1>9, <2>1, <2>3, ResultAssumption DEF WithinResultBudget
  <2> QED BY <1>1, <2>2, <2>3 DEF ResultOK
<1>11. Cardinality(Relations(o)) <= profile["relationResources"]
  <2> HIDE DEF profile, o
  <2>1. "relationResources" \in BudgetFields
    BY DEF BudgetFields
  <2>2. CASE o.traversal = NoTraversal
    BY <1>9, <2>1, <2>2, FS_EmptySet DEF Relations
  <2>3. CASE o.traversal # NoTraversal
    <3>1. Cardinality(Relations(o)) <= o.budget.limits["relationResources"]
      BY <1>7, <2>3 DEF WithinBudget, Relations
    <3>2. Cardinality(Relations(o)) \in Nat
      BY <1>4, FS_CardinalityType
    <3> QED BY <1>9, <2>1, <3>1, <3>2
  <2> QED BY <2>2, <2>3
<1> QED BY <1>10, <1>11 DEF v

\* What is delivered stays within the limits reviewed for the workload profile in
\* the registry the query was validated against.
THEOREM BudgetsReviewed == Spec => []WithinReviewedBudget
BY Invariance, ReviewedBudget, PTL

\* A semantic id names one requirement of an operation (requirements/__init__.py:163-263).
LEMMA RequirementIds ==
  ASSUME NEW op, NEW v,
         NEW r1 \in InferRequirements(op, v), NEW r2 \in InferRequirements(op, v),
         r1.id = r2.id
  PROVE  r1 = r2
<1>1. OperationRequirement(op, v).id = <<"operation", op.kind>>
  BY DEF OperationRequirement, Requirement
<1>2. \A x : OperatorRequirement(op, v, x).id = <<"operator", x>>
  BY DEF OperatorRequirement, Requirement
<1>3. KeysetRequirement(op, v).id = <<"pagination", "keyset">>
  BY DEF KeysetRequirement, Requirement
<1>4. TraversalRequirement(op).id = <<"traversal", "bounded">>
  BY DEF TraversalRequirement, Requirement
<1>5. ASSUME NEW r \in InferRequirements(op, v)
      PROVE  \/ r = OperationRequirement(op, v)
             \/ \E x \in Operators(op) : r = OperatorRequirement(op, v, x)
             \/ r = KeysetRequirement(op, v)
             \/ r = TraversalRequirement(op)
  BY DEF InferRequirements, When
<1>6. \A x, y : <<"operator", x>> = <<"operator", y>> => x = y
  OBVIOUS
<1> QED BY <1>1, <1>2, <1>3, <1>4, <1>5, <1>6

\* A mode that is selected is justified by the capabilities it was selected under
\* (planner/__init__.py:247-301).
LEMMA SelectIsExact ==
  ASSUME NEW p \in Planners, NEW requirement, NEW op, NEW verdict \in Verdicts,
         ~EmptyClosure(op), Select(p, requirement, op, verdict) \in Modes
  PROVE  ImplementedBy(Select(p, requirement, op, verdict), p.capabilities, requirement, op)
<1>1. p = NewPlanner(p.capabilities)
  BY DEF Planners, NewPlanner
<1>2. CASE Native(p.capabilities, requirement, op)
  BY <1>2 DEF Select, ImplementedBy
<1>3. CASE ~Native(p.capabilities, requirement, op) /\ Rewritable(p, requirement, op)
  BY <1>1, <1>3 DEF Select, ImplementedBy
<1>4. CASE /\ ~Native(p.capabilities, requirement, op)
           /\ ~Rewritable(p, requirement, op)
           /\ ResidualBounded(p, requirement, op)
  <2>1. Select(p, requirement, op, verdict) = "BOUNDED_RESIDUAL"
    BY <1>4 DEF Select, ProofOutcome, Modes, Verdicts
  <2> QED BY <1>1, <1>4, <2>1 DEF ImplementedBy
<1>5. CASE /\ ~Native(p.capabilities, requirement, op)
           /\ ~Rewritable(p, requirement, op)
           /\ ~ResidualBounded(p, requirement, op)
  BY <1>5 DEF Select, Modes
<1> QED BY <1>2, <1>3, <1>4, <1>5

LEMMA ExactImplementation == IInv => ImplementedExactly
<1> SUFFICES ASSUME IInv, NEW s \in Sessions, command[s] # NotYet,
                    NEW requirement \in InferRequirements(plan[s].operation, validation[s].view)
             PROVE  ImplementedBy(plan[s].assignments[requirement.id], command[s].capabilities,
                                  requirement, plan[s].operation)
  BY DEF ImplementedExactly
<1> DEFINE o == plan[s].operation
           requirements == validation[s].requirements
<1>1. /\ plan[s] # NotYet
      /\ Sha256(command[s].capabilities) = plan[s].capabilities
      /\ ~EmptyClosure(o)
  <2>1. CommandOK(s) /\ PlannedOK(s)
    BY DEF IInv, SessionOK
  <2> QED BY <2>1 DEF CommandOK, PlannedOK, PlannedFrom
<1>2. /\ validation[s] = Validation(normalized[s].operation, validation[s].view)
      /\ o = EnsureOrder(normalized[s].operation, validation[s].view)
      /\ o = validation[s].operation
      /\ Selected(plan[s], validation[s])
  BY <1>1, PlannedFacts DEF PlannedFrom
<1>3. requirements = InferRequirements(o, validation[s].view)
  BY <1>2 DEF Validation
<1>4. PICK p \in Planners, verdict \in Verdicts :
        /\ plan[s].capabilities = Sha256(p.capabilities)
        /\ plan[s].assignments =
             [id \in {r.id : r \in requirements} |->
                Select(p, CHOOSE r \in requirements : r.id = id, o, verdict)]
        /\ Range(plan[s].assignments) \subseteq Modes
  BY <1>2 DEF Selected
<1>5. p.capabilities = command[s].capabilities
  BY <1>1, <1>4 DEF Sha256
<1> DEFINE ids == {r.id : r \in requirements}
           chosen == [id \in ids |-> Select(p, CHOOSE r \in requirements : r.id = id, o, verdict)]
<1>6. requirement \in requirements
  BY <1>3
<1> HIDE DEF o, requirements
<1>7. (CHOOSE r \in requirements : r.id = requirement.id) = requirement
  <2>1. \A r \in requirements : r.id = requirement.id => r = requirement
    BY <1>3, <1>6, RequirementIds
  <2> QED BY <1>6, <2>1
<1>8. requirement.id \in ids
  BY <1>6
<1>9. plan[s].assignments = chosen
  BY <1>4
<1> HIDE DEF ids
<1>10. /\ chosen[requirement.id] = Select(p, requirement, o, verdict)
       /\ requirement.id \in DOMAIN chosen
  BY <1>7, <1>8
<1> HIDE DEF chosen
<1>11. plan[s].assignments[requirement.id] \in Modes
  BY <1>4, <1>9, <1>10 DEF Range
<1> QED BY <1>1, <1>5, <1>9, <1>10, <1>11, SelectIsExact DEF o

\* A query that reaches an adapter is implemented exactly by that adapter as it
\* was when it compiled, even when it was replaced after planning.
THEOREM ExactlyImplemented == Spec => []ImplementedExactly
BY Invariance, ExactImplementation, PTL
-----------------------------------------------------------------------------
(* The completed order (validation/__init__.py:285-331) *)

LEMMA TotalKeyset == IInv => KeysetTotal
<1> SUFFICES ASSUME IInv, NEW s \in Sessions, HasPlan(s), Paginated(plan[s].operation)
             PROVE  LET op == plan[s].operation
                        schema == PrimarySchema(op, validation[s].view)
                    IN  /\ schema.identity # <<>>
                        /\ plan[s].schemas[op.primary.resource] = Sha256(schema)
                        /\ \A name \in Range(schema.identity) : \E sort \in Range(op.order) :
                             /\ sort.field.name = name
                             /\ op.primary.resource \in Candidates(op, sort.field)
  BY DEF KeysetTotal
<1> DEFINE q == normalized[s].request
           w == normalized[s].registry
           op == normalized[s].operation
           v == validation[s].view
           o == plan[s].operation
           schema == PrimarySchema(o, v)
<1>1. plan[s] # NotYet
  BY DEF HasPlan, IInv, TypeOK
<1>2. /\ q \in Requests /\ w \in Registries /\ v \in Registries
      /\ op = NormalizedOperation(q, w)
      /\ ValidationErrors(op, v) = {}
      /\ validation[s] = Validation(op, v)
      /\ o = EnsureOrder(op, v)
      /\ PlannedFrom(plan[s], validation[s])
  BY <1>1, PlannedFacts
<1>3. plan[s].schemas = SchemasOf(op, v)
  BY <1>2 DEF PlannedFrom, Validation
<1> HIDE DEF q, w, op, v, schema
<1>4. /\ Shaped(op)
      /\ op.primary = q.operation.primary
      /\ op.order = q.operation.order
  BY <1>2, NormalizedOperationFacts
<1>5. /\ o.primary = op.primary /\ o.joins = op.joins /\ o.traversal = op.traversal
      /\ o.kind = op.kind
  <2>1. Shaped(op) /\ o = EnsureOrder(op, v)
    BY <1>2, <1>4
  <2> QED BY <2>1, EnsureOrderFacts
<1>6. Resources(o) = Resources(op) /\ Qualifier(o) = Qualifier(op)
  BY <1>5, SameResources DEF Qualifier
<1>7. Diagnosed(o, v) = {}
  BY <1>2, ValidMeans
<1>8. schema.identity # <<>>
  <2>1. OrderErrors(o, v) = {}
    BY <1>7 DEF Diagnosed
  <2> QED BY <2>1 DEF OrderErrors, When, schema
<1>9. schema = PrimarySchema(op, v) /\ op.primary.resource \in Resources(op)
  BY <1>5 DEF schema, PrimarySchema, Resources, Targets
<1>10. plan[s].schemas[o.primary.resource] = Sha256(schema)
  BY <1>3, <1>5, <1>9 DEF SchemasOf, PrimarySchema
<1>11. IsList(schema.identity)
  <2>1. op.primary.resource \in DOMAIN v.resources
    BY <1>2, <1>9, ValidMeans DEF Registered
  <2> QED BY <1>2, <1>9, <2>1, RegistryAssumption DEF PrimarySchema, Resolved
<1>12. IsList(op.order) /\ o.primary.resource # Unqualified
  <2>1. IsList(q.operation.order) /\ q.operation.primary.resource # Unqualified
    BY <1>2, RequestAssumption
  <2> QED BY <1>4, <1>5, <2>1
<1>13. o.order = Completed(op, schema.identity)
  <2>1. o = [op EXCEPT !.order = op.order \o TieBreakers(op, PrimarySchema(op, v).identity)]
    BY <1>2, <1>5 DEF EnsureOrder, Paginated
  <2> QED BY <1>4, <1>9, <2>1 DEF Shaped, OperationFields, Completed
<1>14. ASSUME NEW name \in Range(schema.identity)
       PROVE  \E sort \in Range(o.order) :
                sort.field.name = name /\ o.primary.resource \in Candidates(o, sort.field)
  <2>1. PICK sort \in Range(o.order) :
          sort.field.name = name /\ sort.field.on \in {Qualifier(o), Unqualified}
    <3>1. \E sort \in Range(o.order) :
            sort.field.name = name /\ sort.field.on \in {Qualifier(op), Unqualified}
      BY <1>11, <1>12, <1>13, CompletedOrder
    <3> QED BY <1>6, <3>1
  <2>2. FieldResolves(o, v, sort.field)
    <3>1. ExpressionErrors(o, v) = {}
      BY <1>7 DEF Diagnosed
    <3>2. sort.field \in PlainFields(o)
      BY DEF PlainFields
    <3> QED BY <3>1, <3>2 DEF ExpressionErrors, When
  <2> QED BY <1>12, <2>1, <2>2, SortIsOfPrimary
<1> QED BY <1>8, <1>10, <1>14 DEF schema, v

\* Every planned page has a total keyset order: each identity field of the primary
\* Record, under the Schema the plan is bound to, is in it
\* (validation/__init__.py:285-331).
THEOREM KeysetsTotal == Spec => []KeysetTotal
BY Invariance, TotalKeyset, PTL
-----------------------------------------------------------------------------
(* QueryPipeline implements AtomicQuery *)

LEMMA InitImplements == Init => Atomic!Init
BY DEF Init, Atomic!Init, Phase, PhaseOf
-----------------------------------------------------------------------------
(* A plan is one that an instant could have made *)

\* A validated operation is what normalizing against the view it was validated
\* with would have made of the request.
LEMMA NormalizedAtView ==
  ASSUME IInv, NEW s \in Sessions, validation[s] # NotYet
  PROVE  LET q == normalized[s].request
             v == validation[s].view
         IN  /\ q \in Requests /\ v \in Registries
             /\ normalized[s].operation = NormalizedOperation(q, v)
             /\ Shaped(normalized[s].operation)
             /\ validation[s] = Validation(normalized[s].operation, v)
             /\ ValidationErrors(normalized[s].operation, v) = {}
<1> DEFINE q == normalized[s].request
           w == normalized[s].registry
           op == normalized[s].operation
           v == validation[s].view
<1>1. /\ normalized[s] # NotYet /\ v \in Registries
      /\ validation[s] = Validation(op, v)
      /\ ValidationErrors(op, v) = {}
  BY DEF IInv, SessionOK, ValidatedOK
<1>2. q \in Requests /\ w \in Registries /\ op = NormalizedOperation(q, w)
  BY <1>1, NormalizedFacts DEF IInv
<1> HIDE DEF q, w, op, v
<1>3. /\ Shaped(op)
      /\ op.traversal = IF ResolvesClosure(q) THEN Closed(q.operation.traversal, w)
                        ELSE q.operation.traversal
  BY <1>2, NormalizedOperationFacts
<1>4. ASSUME ~ResolvesClosure(q) PROVE op = NormalizedOperation(q, v)
  BY <1>2, <1>4 DEF NormalizedOperation
<1>5. ASSUME ResolvesClosure(q) PROVE op = NormalizedOperation(q, v)
  <2>1. /\ q.operation.traversal = [f \in TraversalFields |-> q.operation.traversal[f]]
        /\ q.operation.traversal.allNeighbors
    BY <1>2, <1>5, RequestAssumption DEF ResolvesClosure, Dynamic
  <2>2. op.traversal = Closed(q.operation.traversal, w)
    BY <1>3, <1>5
  <2>3. op.traversal.fingerprint = w.fingerprint /\ op.traversal.allNeighbors
    BY <2>1, <2>2 DEF Closed, TraversalFields
  <2>4. op.traversal # NoTraversal
    <3>1. "start" \in DOMAIN op.traversal
      BY <2>1, <2>2 DEF Closed, TraversalFields
    <3> QED BY <3>1 DEF NoTraversal
  <2>5. ~StaleClosure(op, v.fingerprint)
    BY <1>1, <2>3, <2>4, ValidMeans DEF Dynamic
  <2>6. w.fingerprint # NoFingerprint
    BY <1>2, RegistryAssumption
  <2>7. w = v
    BY <1>1, <1>2, <2>3, <2>4, <2>5, <2>6, RegistryAssumption DEF StaleClosure
  <2> QED BY <1>2, <2>7
<1>6. op = NormalizedOperation(q, v)
  BY <1>4, <1>5
<1> QED BY <1>1, <1>2, <1>3, <1>6 DEF q, op, v

\* The assignments of a plan that was not refused are exact
\* (planner/__init__.py:206-224).
LEMMA AssignmentsExact ==
  ASSUME NEW p \in Planners, NEW op, NEW v, NEW verdict \in Verdicts, NEW f,
         f = [id \in {r.id : r \in InferRequirements(op, v)} |->
                Select(p, CHOOSE r \in InferRequirements(op, v) : r.id = id, op, verdict)],
         Range(f) \subseteq Modes
  PROVE  Exact(op, InferRequirements(op, v), f, p.capabilities)
<1> DEFINE requirements == InferRequirements(op, v)
<1>1. f \in [{r.id : r \in requirements} -> Modes]
  <2>1. \A id \in {r.id : r \in requirements} : f[id] \in Range(f)
    BY DEF Range
  <2> QED BY <2>1
<1>2. ASSUME NEW r \in requirements, ~EmptyClosure(op)
      PROVE  ImplementedBy(f[r.id], p.capabilities, r, op)
  <2>1. (CHOOSE x \in requirements : x.id = r.id) = r
    <3>1. \A x \in requirements : x.id = r.id => x = r
      BY <1>2, RequirementIds
    <3> QED BY <1>2, <3>1
  <2>2. f[r.id] = Select(p, r, op, verdict)
    BY <1>2, <2>1
  <2>3. f[r.id] \in Modes
    BY <1>1, <1>2
  <2> QED BY <1>2, <2>2, <2>3, SelectIsExact
<1> QED BY <1>1, <1>2 DEF Exact

LEMMA PlanIsAtomic ==
  ASSUME IInv, NEW s \in Sessions, validation[s] # NotYet,
         NEW fingerprint \in FingerprintsOf(s), NEW verdict \in Verdicts,
         ~StaleClosure(validation[s].operation, fingerprint),
         Refusals(s, verdict) = {}
  PROVE  PlannedAtOnce(PlannedQuery(s, fingerprint, verdict))
<1> DEFINE q == normalized[s].request
           op == normalized[s].operation
           v == validation[s].view
           o == validation[s].operation
           p == PlannedQuery(s, fingerprint, verdict)
<1>1. /\ q \in Requests /\ v \in Registries
      /\ op = NormalizedOperation(q, v) /\ Shaped(op)
      /\ validation[s] = Validation(op, v)
      /\ ValidationErrors(op, v) = {}
  BY NormalizedAtView
<1>2. /\ o = EnsureOrder(op, v) /\ o = CompletedAt(q, v)
      /\ validation[s].schemas = SchemasOf(op, v)
      /\ validation[s].requirements = InferRequirements(o, v)
      /\ validation[s].binding = Validation(op, v).binding
  BY <1>1 DEF Validation, CompletedAt
<1>3. /\ p.operation = o
      /\ p.binding = validation[s].binding
      /\ p.requirements = InferRequirements(o, v)
      /\ p.assignments = Assignments(s, verdict)
      /\ p.capabilities = Sha256(PlannerOf(s).capabilities)
      /\ p.registry = fingerprint
      /\ p.schemas = SchemasOf(op, v)
      /\ p.empty = EmptyClosure(o)
  BY <1>2 DEF PlannedQuery
<1>4. PlannerOf(s) \in Planners /\ PlannerOf(s).capabilities \in CapabilitySets
  <2>1. validation[s].binding \in Bindings
    BY <1>1, <1>2, BindingIsOne
  <2>2. PlannerOf(s) \in Planners
    BY <2>1 DEF PlannerOf, IInv, TypeOK
  <2> QED BY <2>2 DEF Planners, NewPlanner
<1>5. Range(p.assignments) \subseteq Modes
  BY <1>3 DEF Refusals
<1>6. p.assignments = [id \in {r.id : r \in InferRequirements(o, v)} |->
        Select(PlannerOf(s), CHOOSE r \in InferRequirements(o, v) : r.id = id, o, verdict)]
  BY <1>2, <1>3 DEF Assignments
<1>7. fingerprint \in {x.fingerprint : x \in Registries}
  BY <1>1 DEF FingerprintsOf, IInv, TypeOK
<1> HIDE DEF q, op, v, o, p
<1>8. o.primary = op.primary /\ o.joins = op.joins /\ o.traversal = op.traversal
  <2>1. Shaped(op) /\ o = EnsureOrder(op, v)
    BY <1>1, <1>2
  <2> QED BY <2>1, EnsureOrderFacts
<1>9. BindingsOf(o, v) = {p.binding} /\ p.schemas = SchemasOf(o, v) /\ (Dynamic(o) <=> Dynamic(op))
  BY <1>1, <1>2, <1>3, <1>8, BindingIsOne, SameResources
<1>10. Exact(o, InferRequirements(o, v), p.assignments, PlannerOf(s).capabilities)
  BY <1>4, <1>5, <1>6, AssignmentsExact
<1>11. ASSUME Dynamic(o) PROVE fingerprint = v.fingerprint
  <2>1. ~StaleClosure(op, v.fingerprint) /\ Diagnosed(o, v) = {}
    BY <1>1, <1>2, <1>9, <1>11, ValidMeans
  <2>2. TraversalOK(o, v)
    BY <2>1 DEF Diagnosed, TraversalErrors, When
  <2>3. o.traversal # NoTraversal /\ o.traversal.fingerprint # NoFingerprint
    BY <1>11, <2>2 DEF TraversalOK, Dynamic
  <2>4. o.traversal.fingerprint = v.fingerprint
    BY <1>8, <2>1, <2>3 DEF StaleClosure
  <2>5. ~StaleClosure(o, fingerprint)
    BY DEF o
  <2> QED BY <2>3, <2>4, <2>5 DEF StaleClosure
<1>12. PlannedAt(p, q, v, PlannerOf(s).capabilities)
  BY <1>1, <1>2, <1>3, <1>7, <1>9, <1>10, <1>11 DEF PlannedAt
<1> QED BY <1>1, <1>4, <1>12 DEF PlannedAtOnce, p
-----------------------------------------------------------------------------
(* Steps *)

\* Where a query that was not refused stands (the stages of QueryPipeline).
LEMMA PhaseNames ==
  ASSUME NEW code
  PROVE  /\ PhaseOf("idle", code) = "open"
         /\ PhaseOf("normalized", code) = "open"
         /\ PhaseOf("validated", code) = "open"
         /\ PhaseOf("planned", code) = "planned"
         /\ PhaseOf("compiled", code) = "executing"
         /\ PhaseOf("delivered", code) = "answered"
<1>1. PhaseOf("idle", code) = "open"
  BY DEF PhaseOf
<1>2. PhaseOf("normalized", code) = "open"
  BY DEF PhaseOf
<1>3. PhaseOf("validated", code) = "open"
  BY DEF PhaseOf
<1>4. PhaseOf("planned", code) = "planned"
  BY DEF PhaseOf
<1>5. PhaseOf("compiled", code) = "executing"
  BY DEF PhaseOf
<1>6. PhaseOf("delivered", code) = "answered"
  BY DEF PhaseOf
<1> QED BY <1>1, <1>2, <1>3, <1>4, <1>5, <1>6

LEMMA PhaseTurns ==
  ASSUME TypeOK, NEW s \in Sessions, NEW from, NEW to, Moves(s, from, to),
         \A t \in Sessions : t # s => error'[t] = error[t]
  PROVE  /\ Phase[s] = PhaseOf(from, error[s])
         /\ Phase' = [Phase EXCEPT ![s] = PhaseOf(to, error'[s])]
<1>1. /\ stage[s] = from /\ stage'[s] = to
      /\ \A t \in Sessions : t # s => stage'[t] = stage[t]
  BY DEF Moves, TypeOK
<1> QED BY <1>1 DEF Phase

\* A call that raises refuses the query or sends it back.
LEMMA FailsImplements ==
  ASSUME TypeOK, NEW s \in Sessions, NEW code,
         NEW from \in {"normalized", "validated", "planned", "compiled"},
         Fails(s, from, code),
         from = "compiled" => code # "STALE_REGISTRY"
  PROVE  Atomic!Refuse(s) \/ Atomic!SendBack(s)
<1>1. /\ Moves(s, from, "failed") /\ error'[s] = code
      /\ \A t \in Sessions : t # s => error'[t] = error[t]
      /\ UNCHANGED <<adapter, plan, result>>
  BY DEF Fails, TypeOK, deployment
<1>2. /\ Phase[s] = PhaseOf(from, error[s])
      /\ Phase' = [Phase EXCEPT ![s] = PhaseOf("failed", code)]
  BY <1>1, PhaseTurns
<1>3. CASE code = "STALE_REGISTRY"
  <2>1. Phase[s] \in {"open", "planned"} /\ Phase' = [Phase EXCEPT ![s] = "sent back"]
    BY <1>2, <1>3 DEF PhaseOf
  <2> QED BY <1>1, <2>1 DEF Atomic!SendBack, Atomic!Turns
<1>4. CASE code # "STALE_REGISTRY"
  <2>1. Phase[s] \in {"open", "planned", "executing"} /\ Phase' = [Phase EXCEPT ![s] = "refused"]
    BY <1>2, <1>4 DEF PhaseOf
  <2> QED BY <1>1, <2>1 DEF Atomic!Refuse, Atomic!Turns
<1> QED BY <1>3, <1>4

\* Normalizing and validating are not seen.
LEMMA UnseenImplements ==
  ASSUME TypeOK, NEW s \in Sessions,
         NEW from \in {"idle", "normalized"}, NEW to \in {"normalized", "validated"},
         Moves(s, from, to), UNCHANGED <<adapter, plan, result, error>>
  PROVE  UNCHANGED Atomic!vars
<1>1. /\ Phase[s] = PhaseOf(from, error[s])
      /\ Phase' = [Phase EXCEPT ![s] = PhaseOf(to, error'[s])]
  BY PhaseTurns
<1>2. Phase' = [Phase EXCEPT ![s] = Phase[s]]
  BY <1>1 DEF PhaseOf
<1>3. Phase' = Phase
  BY <1>2 DEF Phase
<1> QED BY <1>3 DEF Atomic!vars

LEMMA PlanImplements ==
  ASSUME IInv, NEW s \in Sessions,
         NEW fingerprint \in FingerprintsOf(s), NEW verdict \in Verdicts,
         Plan(s, fingerprint, verdict)
  PROVE  Atomic!PlanAtOnce(s)
<1>1. TypeOK
  BY DEF IInv
<1>2. /\ Moves(s, "validated", "planned")
      /\ plan' = [plan EXCEPT ![s] = PlannedQuery(s, fingerprint, verdict)]
      /\ UNCHANGED <<adapter, result, error>>
  BY DEF Plan, deployment
<1>3. /\ Phase[s] = "open" /\ Phase' = [Phase EXCEPT ![s] = "planned"]
  BY <1>1, <1>2, PhaseTurns, PhaseNames
<1>4. plan'[s] = PlannedQuery(s, fingerprint, verdict)
  BY <1>1, <1>2 DEF TypeOK
<1>5. validation[s] # NotYet
  BY <1>1, <1>2 DEF TypeOK, Moves
<1>6. PlannedAtOnce(plan'[s])
  BY <1>4, <1>5, PlanIsAtomic DEF Plan
<1> QED BY <1>2, <1>3, <1>4, <1>6 DEF Atomic!PlanAtOnce, Atomic!Turns

LEMMA CompileImplements ==
  ASSUME IInv, NEW s \in Sessions, Compile(s)
  PROVE  Atomic!Execute(s)
<1>1. TypeOK
  BY DEF IInv
<1>2. /\ Moves(s, "planned", "compiled")
      /\ ~plan[s].empty
      /\ Sha256(adapter[plan[s].binding]) = plan[s].capabilities
      /\ UNCHANGED <<adapter, plan, result, error>>
  BY DEF Compile, CapabilityChanged, Translator, deployment
<1>3. Phase[s] = "planned" /\ Phase' = [Phase EXCEPT ![s] = "executing"]
  BY <1>1, <1>2, PhaseTurns, PhaseNames
<1>4. plan[s] # NotYet
  BY <1>1, <1>2 DEF TypeOK, Moves
<1>5. plan[s].binding \in Bindings
  <2>1. plan[s].binding = validation[s].binding
    BY <1>4, PlannedFacts DEF PlannedFrom
  <2> QED BY <1>4, <2>1, PlannedFacts, BindingIsOne
<1>6. adapter[plan[s].binding] \in CapabilitySets
  BY <1>1, <1>5 DEF TypeOK
<1> QED BY <1>2, <1>3, <1>6 DEF Atomic!Execute, Atomic!Turns

LEMMA DeliverImplements ==
  ASSUME TypeOK, NEW s \in Sessions, NEW size \in ResultSizes, Deliver(s, size)
  PROVE  Atomic!Answer(s)
<1>1. /\ Moves(s, "compiled", "delivered")
      /\ UNCHANGED <<adapter, plan, error>>
  BY DEF Deliver, deployment
<1>2. Phase[s] = "executing" /\ Phase' = [Phase EXCEPT ![s] = "answered"]
  BY <1>1, PhaseTurns, PhaseNames
<1> QED BY <1>1, <1>2 DEF Deliver, WithinResultBudget, Atomic!Answer, Atomic!Turns

LEMMA DeliverEmptyImplements ==
  ASSUME TypeOK, NEW s \in Sessions, DeliverEmpty(s)
  PROVE  Atomic!AnswerEmpty(s)
<1>1. /\ Moves(s, "planned", "delivered")
      /\ UNCHANGED <<adapter, plan, error>>
  BY DEF DeliverEmpty, deployment
<1>2. Phase[s] = "planned" /\ Phase' = [Phase EXCEPT ![s] = "answered"]
  BY <1>1, PhaseTurns, PhaseNames
<1> QED BY <1>1, <1>2 DEF DeliverEmpty, Atomic!AnswerEmpty, Atomic!Turns

LEMMA ResubmitImplements ==
  ASSUME TypeOK, NEW s \in Sessions, Resubmit(s)
  PROVE  Atomic!Retry(s)
<1>1. /\ Moves(s, "failed", "idle") /\ error[s] = "STALE_REGISTRY"
      /\ plan' = [plan EXCEPT ![s] = NotYet]
      /\ \A t \in Sessions : t # s => error'[t] = error[t]
      /\ UNCHANGED <<adapter, result>>
  BY DEF Resubmit, TypeOK, deployment
<1>2. Phase[s] = "sent back" /\ Phase' = [Phase EXCEPT ![s] = "open"]
  BY <1>1, PhaseTurns DEF PhaseOf
<1> QED BY <1>1, <1>2 DEF Atomic!Retry, Atomic!Turns

LEMMA SessionImplements ==
  ASSUME IInv, NEW s \in Sessions, SessionStep(s)
  PROVE  Atomic!Next \/ UNCHANGED Atomic!vars
<1>1. TypeOK
  BY DEF IInv
<1>2. CASE NormalizeStep(s)
  BY <1>1, <1>2, UnseenImplements DEF NormalizeStep, Normalize, deployment
<1>3. CASE ValidateStep(s)
  <2>1. PICK v \in ViewsOf(s) : Validate(s, v) \/ ValidateRaises(s, v)
    BY <1>3 DEF ValidateStep
  <2>2. CASE Validate(s, v)
    BY <1>1, <2>2, UnseenImplements DEF Validate, deployment
  <2>3. CASE ValidateRaises(s, v)
    BY <1>1, <2>3, FailsImplements DEF ValidateRaises, Atomic!Next
  <2> QED BY <2>1, <2>2, <2>3
<1>4. CASE PlanStep(s)
  <2>1. PICK fingerprint \in FingerprintsOf(s), verdict \in Verdicts :
          \/ Plan(s, fingerprint, verdict)
          \/ PlanStale(s, fingerprint)
          \/ PlanUnsupported(s, fingerprint, verdict)
    BY <1>4 DEF PlanStep
  <2>2. CASE Plan(s, fingerprint, verdict)
    BY <2>2, PlanImplements DEF Atomic!Next
  <2>3. CASE PlanStale(s, fingerprint) \/ PlanUnsupported(s, fingerprint, verdict)
    BY <1>1, <2>3, FailsImplements DEF PlanStale, PlanUnsupported, Atomic!Next
  <2> QED BY <2>1, <2>2, <2>3
<1>5. CASE CompileStep(s)
  <2>1. CASE Compile(s)
    BY <2>1, CompileImplements DEF Atomic!Next
  <2>2. CASE CompileEmpty(s) \/ CompileStale(s) \/ CompileUnbound(s)
    BY <1>1, <2>2, FailsImplements DEF CompileEmpty, CompileStale, CompileUnbound, Atomic!Next
  <2>3. CASE DeliverEmpty(s)
    BY <1>1, <2>3, DeliverEmptyImplements DEF Atomic!Next
  <2> QED BY <1>5, <2>1, <2>2, <2>3 DEF CompileStep
<1>6. CASE DeliverStep(s)
  <2>1. PICK size \in ResultSizes : Deliver(s, size) \/ DeliverRaises(s, size)
    BY <1>6 DEF DeliverStep
  <2>2. CASE Deliver(s, size)
    BY <1>1, <2>2, DeliverImplements DEF Atomic!Next
  <2>3. CASE DeliverRaises(s, size)
    BY <1>1, <2>3, FailsImplements DEF DeliverRaises, Atomic!Next
  <2> QED BY <2>1, <2>2, <2>3
<1>7. CASE Resubmit(s)
  BY <1>1, <1>7, ResubmitImplements DEF Atomic!Next
<1> QED BY <1>2, <1>3, <1>4, <1>5, <1>6, <1>7 DEF SessionStep

LEMMA NextImplements == IInv /\ [Next]_vars => [Atomic!Next]_(Atomic!vars)
<1> SUFFICES ASSUME IInv, [Next]_vars PROVE Atomic!Next \/ UNCHANGED Atomic!vars
  OBVIOUS
<1>1. ASSUME NEW b \in Bindings, NEW c \in CapabilitySets, InstallAdapter(b, c)
      PROVE  Atomic!Next
  <2>1. adapter' \in [Bindings -> CapabilitySets]
    BY <1>1 DEF InstallAdapter, IInv, TypeOK
  <2>2. UNCHANGED <<Phase, plan, result>>
    BY <1>1 DEF InstallAdapter, session, Phase
  <2> QED BY <2>1, <2>2 DEF Atomic!InstallAdapter, Atomic!Next
<1>2. CASE \/ \E v \in Registries : PublishRegistry(v)
           \/ \E b \in Bindings : RebuildPlanner(b)
           \/ UNCHANGED vars
  <2>1. UNCHANGED <<adapter, plan, result, stage, error>>
    BY <1>2 DEF PublishRegistry, RebuildPlanner, session, vars
  <2> QED BY <2>1 DEF Phase, Atomic!vars
<1>3. ASSUME NEW s \in Sessions, SessionStep(s) PROVE Atomic!Next \/ UNCHANGED Atomic!vars
  BY <1>3, SessionImplements
<1> QED BY <1>1, <1>2, <1>3 DEF Next, DeploymentStep

\* However registries, planners and adapters change between the calls of a
\* pipeline, its callers see queries planned at one instant each, executed only by
\* the adapter they were planned for and answered within their budget, or refused.
THEOREM Implements == Spec => PlansAtomically
BY InitImplements, NextImplements, Invariance, PTL DEF Spec, PlansAtomically, Atomic!Spec
-----------------------------------------------------------------------------
(* Why a query fails *)

\* A diagnosed operation is not reported as stale (validation/__init__.py:194-198).
LEMMA ReportedCode ==
  ASSUME NEW op, NEW v, Diagnosed(op, v) # {}
  PROVE  Reported(Diagnosed(op, v)) # "STALE_REGISTRY"
<1> DEFINE codes == Diagnosed(op, v)
           first(i) == Precedence[i] \in codes /\ \A j \in 1..(i - 1) : Precedence[j] \notin codes
<1>1. codes \subseteq {"EXCESSIVE_BUDGET", "INVALID_TRAVERSAL", "NONDETERMINISTIC_ORDER",
                       "FIELD_TYPE_MISMATCH", "SCOPE_REQUIRED"}
  BY DEF Diagnosed, OrderErrors, BudgetErrors, ScopeErrors, ExpressionErrors, ProfileErrors,
         TraversalErrors, When
<1>2. /\ DOMAIN Precedence = 1..5
      /\ Precedence[1] = "EXCESSIVE_BUDGET" /\ Precedence[2] = "INVALID_TRAVERSAL"
      /\ Precedence[3] = "NONDETERMINISTIC_ORDER" /\ Precedence[4] = "FIELD_TYPE_MISMATCH"
      /\ Precedence[5] = "SCOPE_REQUIRED"
  BY DEF Precedence
<1>3. Reported(codes) = Precedence[CHOOSE i \in DOMAIN Precedence : first(i)]
  BY DEF Reported
<1> HIDE DEF codes
<1>4. \E i \in DOMAIN Precedence : first(i)
  <2>1. CASE Precedence[1] \in codes
    BY <1>2, <2>1
  <2>2. CASE Precedence[1] \notin codes /\ Precedence[2] \in codes
    BY <1>2, <2>2
  <2>3. CASE Precedence[1] \notin codes /\ Precedence[2] \notin codes /\ Precedence[3] \in codes
    BY <1>2, <2>3
  <2>4. CASE /\ Precedence[1] \notin codes /\ Precedence[2] \notin codes
             /\ Precedence[3] \notin codes /\ Precedence[4] \in codes
    BY <1>2, <2>4
  <2>5. CASE /\ Precedence[1] \notin codes /\ Precedence[2] \notin codes
             /\ Precedence[3] \notin codes /\ Precedence[4] \notin codes
    <3>1. Precedence[5] \in codes
      BY <1>1, <1>2, <2>5 DEF codes
    <3> QED BY <1>2, <2>5, <3>1
  <2> QED BY <2>1, <2>2, <2>3, <2>4, <2>5
<1> HIDE DEF first
<1>5. (CHOOSE i \in DOMAIN Precedence : first(i)) \in 1..5
  BY <1>2, <1>4
<1>6. \A i \in 1..5 : Precedence[i] # "STALE_REGISTRY"
  BY <1>2
<1> QED BY <1>3, <1>5, <1>6 DEF codes

\* Only a stale closure is sent back by validation.
LEMMA InvalidAsStale ==
  ASSUME NEW op, NEW v, "STALE_REGISTRY" \in ValidationErrors(op, v)
  PROVE  StaleClosure(op, v.fingerprint)
<1>1. "STALE_REGISTRY" \notin ResolutionErrors(op, v)
  BY DEF ResolutionErrors, When
<1>2. Diagnosed(EnsureOrder(op, v), v) # {} =>
        Reported(Diagnosed(EnsureOrder(op, v), v)) # "STALE_REGISTRY"
  BY ReportedCode
<1> QED BY <1>1, <1>2 DEF ValidationErrors

\* The closure of a normalized operation is of the registry it was normalized with,
\* and no other operation has a fingerprint (normalize/__init__.py:66-84).
LEMMA ClosureFrom ==
  ASSUME TypeOK, NEW s \in Sessions, normalized[s] # NotYet,
         normalized[s].operation.traversal # NoTraversal,
         normalized[s].operation.traversal.fingerprint # NoFingerprint
  PROVE  /\ ResolvesClosure(normalized[s].request) /\ Dynamic(normalized[s].operation)
         /\ normalized[s].operation.traversal.fingerprint = normalized[s].registry.fingerprint
<1> DEFINE q == normalized[s].request
           w == normalized[s].registry
           op == normalized[s].operation
<1>1. q \in Requests /\ w \in Registries /\ op = NormalizedOperation(q, w)
  BY NormalizedFacts
<1> HIDE DEF q, w, op
<1>2. op.traversal = IF ResolvesClosure(q) THEN Closed(q.operation.traversal, w)
                     ELSE q.operation.traversal
  BY <1>1, NormalizedOperationFacts
<1>3. op.traversal # NoTraversal /\ op.traversal.fingerprint # NoFingerprint
  BY DEF op
<1>4. ResolvesClosure(q)
  BY <1>1, <1>2, <1>3, RequestAssumption
<1>5. /\ q.operation.traversal = [f \in TraversalFields |-> q.operation.traversal[f]]
      /\ q.operation.traversal.allNeighbors
  BY <1>1, <1>4, RequestAssumption DEF ResolvesClosure, Dynamic
<1>6. op.traversal.fingerprint = w.fingerprint /\ op.traversal.allNeighbors
  BY <1>2, <1>4, <1>5 DEF Closed, TraversalFields
<1> QED BY <1>3, <1>4, <1>6 DEF Dynamic, q, w, op

\* A closure is stale only against a registry it was not normalized with.
LEMMA StaleMeans ==
  ASSUME TypeOK, NEW s \in Sessions, normalized[s] # NotYet,
         NEW o, o.traversal = normalized[s].operation.traversal, NEW fingerprint
  PROVE  StaleClosure(o, fingerprint) <=>
           /\ Dynamic(normalized[s].operation)
           /\ o.traversal.fingerprint # NoFingerprint
           /\ fingerprint # normalized[s].registry.fingerprint
BY ClosureFrom DEF StaleClosure, Dynamic

LEMMA SelectCodes ==
  ASSUME NEW p, NEW r, NEW op, NEW verdict \in Verdicts
  PROVE  Select(p, r, op, verdict) # "STALE_REGISTRY"
BY DEF Select, ProofOutcome, Verdicts

\* What a session's failing call was, and what it raised.
LEMMA FailingStep ==
  ASSUME TypeOK, NEW s \in Sessions, SessionStep(s), stage[s] # "failed", stage'[s] = "failed"
  PROVE  /\ UNCHANGED <<registry, adapter, planner, normalized, validation, plan>>
         /\ \/ /\ stage[s] = "normalized"
               /\ \E v \in ViewsOf(s) :
                    error'[s] \in ValidationErrors(normalized[s].operation, v)
            \/ /\ stage[s] = "validated" /\ error'[s] = "STALE_REGISTRY"
               /\ \E fingerprint \in FingerprintsOf(s) :
                    StaleClosure(validation[s].operation, fingerprint)
            \/ /\ stage[s] = "validated"
               /\ \E verdict \in Verdicts : error'[s] \in Refusals(s, verdict)
            \/ /\ stage[s] = "planned"
               /\ error'[s] = "STALE_REGISTRY" => CapabilityChanged(s)
            \/ stage[s] = "compiled" /\ error'[s] = "EXCESSIVE_BUDGET"
<1> DEFINE Outcome ==
      /\ UNCHANGED <<registry, adapter, planner, normalized, validation, plan>>
      /\ \/ /\ stage[s] = "normalized"
            /\ \E v \in ViewsOf(s) : error'[s] \in ValidationErrors(normalized[s].operation, v)
         \/ /\ stage[s] = "validated" /\ error'[s] = "STALE_REGISTRY"
            /\ \E fingerprint \in FingerprintsOf(s) :
                 StaleClosure(validation[s].operation, fingerprint)
         \/ /\ stage[s] = "validated"
            /\ \E verdict \in Verdicts : error'[s] \in Refusals(s, verdict)
         \/ /\ stage[s] = "planned"
            /\ error'[s] = "STALE_REGISTRY" => CapabilityChanged(s)
         \/ stage[s] = "compiled" /\ error'[s] = "EXCESSIVE_BUDGET"
<1>1. \A from, to : Moves(s, from, to) => stage[s] = from /\ to = "failed"
  BY DEF Moves, TypeOK
<1>2. ASSUME NEW from, NEW code, Fails(s, from, code)
      PROVE  /\ stage[s] = from /\ error'[s] = code
             /\ UNCHANGED <<registry, adapter, planner, normalized, validation, plan>>
  BY <1>2 DEF Fails, Moves, TypeOK, deployment
<1>3. CASE NormalizeStep(s)
  BY <1>1, <1>3 DEF NormalizeStep, Normalize
<1>4. CASE ValidateStep(s)
  <2>1. PICK v \in ViewsOf(s) : Validate(s, v) \/ ValidateRaises(s, v)
    BY <1>4 DEF ValidateStep
  <2>2. ValidateRaises(s, v)
    BY <1>1, <2>1 DEF Validate
  <2>3. PICK code \in ValidationErrors(normalized[s].operation, v) : Fails(s, "normalized", code)
    BY <2>2 DEF ValidateRaises
  <2> QED BY <1>2, <2>3
<1>5. CASE PlanStep(s)
  <2>1. PICK fingerprint \in FingerprintsOf(s), verdict \in Verdicts :
          \/ Plan(s, fingerprint, verdict)
          \/ PlanStale(s, fingerprint)
          \/ PlanUnsupported(s, fingerprint, verdict)
    BY <1>5 DEF PlanStep
  <2>2. CASE Plan(s, fingerprint, verdict)
    BY <1>1, <2>2 DEF Plan
  <2>3. CASE PlanStale(s, fingerprint)
    BY <1>2, <2>3 DEF PlanStale
  <2>4. CASE PlanUnsupported(s, fingerprint, verdict)
    BY <1>2, <2>4 DEF PlanUnsupported
  <2> QED BY <2>1, <2>2, <2>3, <2>4
<1>6. CASE CompileStep(s)
  <2>1. ~Compile(s) /\ ~DeliverEmpty(s)
    BY <1>1 DEF Compile, DeliverEmpty
  <2>2. CompileEmpty(s) \/ CompileStale(s) \/ CompileUnbound(s)
    BY <1>6, <2>1 DEF CompileStep
  <2> QED BY <1>2, <2>2 DEF CompileEmpty, CompileStale, CompileUnbound
<1>7. CASE DeliverStep(s)
  <2>1. PICK size \in ResultSizes : Deliver(s, size) \/ DeliverRaises(s, size)
    BY <1>7 DEF DeliverStep
  <2>2. DeliverRaises(s, size)
    BY <1>1, <2>1 DEF Deliver
  <2> QED BY <1>2, <2>2 DEF DeliverRaises
<1>8. CASE Resubmit(s)
  BY <1>1, <1>8 DEF Resubmit
<1>9. Outcome
  BY <1>3, <1>4, <1>5, <1>6, <1>7, <1>8 DEF SessionStep
<1> QED BY <1>9

\* What validation left in a session that validated.
LEMMA ValidatedTraversal ==
  ASSUME IInv, NEW s \in Sessions, validation[s] # NotYet
  PROVE  /\ normalized[s] # NotYet
         /\ validation[s].operation.traversal = normalized[s].operation.traversal
         /\ ~(Dynamic(normalized[s].operation)
                /\ StaleClosure(normalized[s].operation, validation[s].view.fingerprint))
<1>1. /\ normalized[s] # NotYet
      /\ validation[s] = Validation(normalized[s].operation, validation[s].view)
      /\ Shaped(normalized[s].operation)
      /\ ValidationErrors(normalized[s].operation, validation[s].view) = {}
  BY NormalizedAtView DEF IInv, SessionOK, ValidatedOK
<1>2. validation[s].operation = EnsureOrder(normalized[s].operation, validation[s].view)
  BY <1>1 DEF Validation
<1> QED BY <1>1, <1>2, EnsureOrderFacts, ValidMeans

LEMMA SentBackForCause ==
  ASSUME IInv, NEW s \in Sessions, SessionStep(s),
         stage[s] # "failed", stage'[s] = "failed", error'[s] = "STALE_REGISTRY"
  PROVE  ChangedUnder(s)
<1>1. TypeOK
  BY DEF IInv
<1>2. CASE /\ stage[s] = "normalized"
           /\ \E v \in ViewsOf(s) : error'[s] \in ValidationErrors(normalized[s].operation, v)
  <2>1. PICK v \in ViewsOf(s) : "STALE_REGISTRY" \in ValidationErrors(normalized[s].operation, v)
    BY <1>2
  <2>2. normalized[s] # NotYet /\ StaleClosure(normalized[s].operation, v.fingerprint)
    BY <1>1, <1>2, <2>1, InvalidAsStale DEF TypeOK
  <2>3. v.fingerprint # normalized[s].registry.fingerprint
    BY <1>1, <2>2, StaleMeans
  <2> QED BY <2>1, <2>3 DEF ViewsOf, ChangedUnder
<1>3. CASE /\ stage[s] = "validated"
           /\ \E fingerprint \in FingerprintsOf(s) :
                StaleClosure(validation[s].operation, fingerprint)
  <2>1. PICK fingerprint \in FingerprintsOf(s) : StaleClosure(validation[s].operation, fingerprint)
    BY <1>3
  <2>2. /\ normalized[s] # NotYet
        /\ validation[s].operation.traversal = normalized[s].operation.traversal
        /\ ~(Dynamic(normalized[s].operation)
               /\ StaleClosure(normalized[s].operation, validation[s].view.fingerprint))
    BY <1>1, <1>3, ValidatedTraversal DEF TypeOK
  <2>3. /\ Dynamic(normalized[s].operation)
        /\ validation[s].operation.traversal.fingerprint # NoFingerprint
        /\ fingerprint # normalized[s].registry.fingerprint
    BY <1>1, <2>1, <2>2, StaleMeans
  <2>4. validation[s].view.fingerprint = normalized[s].registry.fingerprint
    <3>1. ~StaleClosure(normalized[s].operation, validation[s].view.fingerprint)
      BY <2>2, <2>3
    <3> QED BY <1>1, <2>2, <2>3, <3>1, StaleMeans
  <2> QED BY <2>1, <2>3, <2>4 DEF FingerprintsOf, ChangedUnder
<1>4. CASE /\ stage[s] = "validated"
           /\ \E verdict \in Verdicts : error'[s] \in Refusals(s, verdict)
  <2>1. PICK verdict \in Verdicts : "STALE_REGISTRY" \in Range(Assignments(s, verdict))
    BY <1>4 DEF Refusals
  <2> QED BY <2>1, SelectCodes DEF Assignments, Range
<1>5. CASE stage[s] = "planned" /\ (error'[s] = "STALE_REGISTRY" => CapabilityChanged(s))
  BY <1>1, <1>5 DEF TypeOK, CapabilityChanged, ChangedUnder
<1>6. CASE stage[s] = "compiled" /\ error'[s] = "EXCESSIVE_BUDGET"
  BY <1>6
<1> QED BY <1>1, <1>2, <1>3, <1>4, <1>5, <1>6, FailingStep

\* Only a step of the session itself makes it fail.
LEMMA FailsByItself ==
  ASSUME TypeOK, [Next]_vars, NEW s \in Sessions, stage'[s] # stage[s]
  PROVE  SessionStep(s)
<1>1. ~DeploymentStep /\ ~UNCHANGED vars
  BY DEF DeploymentStep, PublishRegistry, InstallAdapter, RebuildPlanner, session, vars
<1>2. PICK t \in Sessions : SessionStep(t)
  BY <1>1 DEF Next
<1>3. t = s
  BY <1>2, OthersKept DEF Kept
<1> QED BY <1>2, <1>3

\* A query is sent back only when the registry has changed since it was normalized,
\* or the adapter against the one it was planned for.
THEOREM StaleOnlyForCause == Spec => StaleForCause
<1> DEFINE ForCause ==
      \A s \in Sessions :
        stage[s] # "failed" /\ stage'[s] = "failed" /\ error'[s] = "STALE_REGISTRY"
          => ChangedUnder(s)
<1>1. IInv /\ [Next]_vars => [ForCause]_vars
  <2> SUFFICES ASSUME IInv, [Next]_vars, NEW s \in Sessions,
                      stage[s] # "failed", stage'[s] = "failed", error'[s] = "STALE_REGISTRY"
               PROVE  ChangedUnder(s)
    OBVIOUS
  <2>1. SessionStep(s)
    BY FailsByItself DEF IInv
  <2> QED BY <2>1, SentBackForCause
<1> QED BY <1>1, Invariance, PTL DEF Spec, StaleForCause
-----------------------------------------------------------------------------
(* RefusedAtOnce *)

\* The queries refused so far, one by one.
RefusalOK(s) ==
  stage[s] = "failed" /\ plan[s] = NotYet /\ error[s] # "STALE_REGISTRY" =>
    /\ normalized[s] # NotYet
    /\ error[s] \in RefusalsOf[normalized[s].request] \/ OutrunClosure(s)

\* A query is refused by validation as the registry it is validated against would
\* have refused it, unless its closure names what that registry no longer has.
LEMMA InvalidAtOnce ==
  ASSUME TypeOK, NEW s \in Sessions, normalized[s] # NotYet, NEW v \in Registries,
         NEW code \in ValidationErrors(normalized[s].operation, v), code # "STALE_REGISTRY"
  PROVE  \/ code \in RefusalsOf[normalized[s].request]
         \/ /\ ResolvesClosure(normalized[s].request)
            /\ code \in {"UNKNOWN_RESOURCE", "CROSS_BINDING"}
<1> DEFINE q == normalized[s].request
           w == normalized[s].registry
           op == normalized[s].operation
           o == NormalizedOperation(q, v)
<1>1. q \in Requests /\ w \in Registries /\ op = NormalizedOperation(q, w)
  BY NormalizedFacts
<1>2. InvalidAt(q, v) \subseteq RefusalsOf[q]
  BY <1>1 DEF RefusalsOf
<1> HIDE DEF q, w, op
<1>3. CASE v = w \/ ~ResolvesClosure(q)
  <2>1. op = o
    BY <1>1, <1>3 DEF NormalizedOperation
  <2>2. code \in InvalidAt(q, v)
    BY <2>1 DEF InvalidAt, op
  <2> QED BY <1>2, <2>2 DEF q
<1>4. CASE v # w /\ ResolvesClosure(q)
  <2>1. /\ op.primary = o.primary /\ op.joins = o.joins
        /\ op.traversal = Closed(q.operation.traversal, w)
    BY <1>1, <1>4, NormalizedOperationFacts
  <2>2. /\ q.operation.traversal = [f \in TraversalFields |-> q.operation.traversal[f]]
        /\ q.operation.traversal.allNeighbors
    BY <1>1, <1>4, RequestAssumption DEF ResolvesClosure, Dynamic
  <2>3. op.traversal.fingerprint = w.fingerprint /\ op.traversal.allNeighbors
    BY <2>1, <2>2 DEF Closed, TraversalFields
  <2>4. op.traversal # NoTraversal
    <3>1. "start" \in DOMAIN op.traversal
      BY <2>1, <2>2 DEF Closed, TraversalFields
    <3> QED BY <3>1 DEF NoTraversal
  <2>5. Dynamic(op) /\ StaleClosure(op, v.fingerprint)
    BY <1>1, <1>4, <2>3, <2>4, RegistryAssumption DEF Dynamic, StaleClosure
  <2>6. \/ code \in ResolutionErrors(op, v)
        \/ code = "CROSS_BINDING"
    <3>1. code \in ValidationErrors(op, v)
      BY DEF op
    <3> QED BY <2>5, <3>1 DEF ValidationErrors
  <2>7. ASSUME code = "UNKNOWN_SCHEMA" PROVE code \in InvalidAt(q, v)
    <3>1. UnknownSchema(op, v)
      BY <2>6, <2>7 DEF ResolutionErrors, When
    <3>2. UnknownSchema(o, v)
      BY <2>1, <3>1 DEF UnknownSchema, Targets
    <3>3. "UNKNOWN_SCHEMA" \in ResolutionErrors(o, v)
      BY <3>2 DEF ResolutionErrors, When
    <3> QED BY <2>7, <3>3 DEF InvalidAt, ValidationErrors
  <2>8. code \in {"UNKNOWN_RESOURCE", "UNKNOWN_SCHEMA", "CROSS_BINDING"}
    BY <2>6 DEF ResolutionErrors, When
  <2> QED BY <1>2, <1>4, <2>7, <2>8 DEF q
<1> QED BY <1>3, <1>4

\* A query is refused by planning as one planner and the registry of its validation
\* would have refused it.
LEMMA UnsupportedAtOnce ==
  ASSUME IInv, NEW s \in Sessions, validation[s] # NotYet,
         NEW verdict \in Verdicts, NEW code \in Refusals(s, verdict)
  PROVE  code \in RefusalsOf[normalized[s].request]
<1> DEFINE q == normalized[s].request
           op == normalized[s].operation
           v == validation[s].view
           o == validation[s].operation
           requirements == validation[s].requirements
           c == PlannerOf(s).capabilities
<1>1. /\ q \in Requests /\ v \in Registries
      /\ op = NormalizedOperation(q, v)
      /\ validation[s] = Validation(op, v)
      /\ ValidationErrors(op, v) = {}
  BY NormalizedAtView
<1>2. /\ o = CompletedAt(q, v)
      /\ requirements = InferRequirements(o, v)
      /\ validation[s].binding = Validation(op, v).binding
  BY <1>1 DEF Validation, CompletedAt
<1>3. PlannerOf(s) = NewPlanner(c) /\ c \in CapabilitySets
  <2>1. validation[s].binding \in Bindings
    BY <1>1, <1>2, BindingIsOne
  <2>2. PlannerOf(s) \in Planners
    BY <2>1 DEF PlannerOf, IInv, TypeOK
  <2> QED BY <2>2 DEF Planners, NewPlanner
<1>4. PICK id \in {r.id : r \in requirements} :
        code = Select(PlannerOf(s), CHOOSE r \in requirements : r.id = id, o, verdict)
  BY DEF Refusals, Assignments, Range
<1>5. PICK r \in requirements : code = Select(PlannerOf(s), r, o, verdict)
  <2>1. \E r \in requirements : r.id = id
    BY <1>4
  <2>2. (CHOOSE r \in requirements : r.id = id) \in requirements
    BY <2>1
  <2> QED BY <1>4, <2>2
<1>6. code \notin Modes
  BY DEF Refusals
<1> HIDE DEF q, op, v, o, requirements, c
<1>7. code \in UnsupportedAt(q, v, c)
  <2>1. code = Select(NewPlanner(c), r, CompletedAt(q, v), verdict)
    BY <1>2, <1>3, <1>5
  <2>2. r \in InferRequirements(CompletedAt(q, v), v)
    BY <1>2
  <2> QED BY <1>6, <2>1, <2>2 DEF UnsupportedAt
<1>8. InvalidAt(q, v) = {}
  BY <1>1 DEF InvalidAt
<1>9. code \in RefusalsOf[q]
  <2> DEFINE sets == {UnsupportedAt(q, x, capabilities) :
                        x \in {w \in Registries : InvalidAt(q, w) = {}},
                        capabilities \in CapabilitySets}
  <2>1. UnsupportedAt(q, v, c) \in sets
    BY <1>1, <1>3, <1>8
  <2>2. RefusalsOf[q] = (UNION {InvalidAt(q, x) : x \in Registries}) \cup (UNION sets)
    BY <1>1 DEF RefusalsOf
  <2> HIDE DEF sets
  <2>3. code \in UNION sets
    BY <1>7, <2>1
  <2> QED BY <2>2, <2>3
<1> QED BY <1>9 DEF q

LEMMA RefusalStep ==
  ASSUME IInv, NEW s \in Sessions, RefusalOK(s), [Next]_vars
  PROVE  RefusalOK(s)'
<1>1. TypeOK
  BY DEF IInv
<1>2. CASE SessionStep(s) /\ stage[s] # "failed"
  <2> SUFFICES ASSUME stage'[s] = "failed", plan'[s] = NotYet, error'[s] # "STALE_REGISTRY"
               PROVE  /\ normalized'[s] # NotYet
                      /\ error'[s] \in RefusalsOf[normalized'[s].request] \/ OutrunClosure(s)'
    BY DEF RefusalOK
  <2>1. UNCHANGED <<registry, normalized, validation, plan>> /\ normalized[s] # NotYet
    BY <1>1, <1>2, FailingStep DEF TypeOK
  <2>2. CASE \E v \in ViewsOf(s) : error'[s] \in ValidationErrors(normalized[s].operation, v)
    <3>1. PICK v \in ViewsOf(s) : error'[s] \in ValidationErrors(normalized[s].operation, v)
      BY <2>2
    <3>2. v \in Registries
      BY <1>1, <2>1, NormalizedFacts DEF ViewsOf, TypeOK
    <3> QED BY <1>1, <2>1, <3>1, <3>2, InvalidAtOnce DEF OutrunClosure
  <2>3. CASE stage[s] = "validated" /\ \E verdict \in Verdicts : error'[s] \in Refusals(s, verdict)
    <3>1. validation[s] # NotYet
      BY <1>1, <2>3 DEF TypeOK
    <3> QED BY <2>1, <2>3, <3>1, UnsupportedAtOnce
  <2>4. CASE stage[s] \in {"planned", "compiled"}
    BY <1>1, <2>1, <2>4 DEF TypeOK
  <2> QED BY <1>1, <1>2, <2>2, <2>3, <2>4, FailingStep
<1>3. CASE stage'[s] # stage[s] /\ stage[s] = "failed"
  BY <1>3 DEF RefusalOK
<1>4. CASE ~SessionStep(s)
  <2>1. Kept(s)
    <3>1. CASE UNCHANGED vars
      BY <3>1 DEF vars, Kept
    <3>2. CASE DeploymentStep
      BY <3>2 DEF DeploymentStep, PublishRegistry, InstallAdapter, RebuildPlanner, session, Kept
    <3>3. CASE \E t \in Sessions : SessionStep(t)
      BY <1>1, <1>4, <3>3, OthersKept
    <3> QED BY <3>1, <3>2, <3>3 DEF Next
  <2> QED BY <2>1 DEF RefusalOK, OutrunClosure, Kept
<1>5. CASE SessionStep(s) /\ stage'[s] = "failed" /\ stage[s] = "failed"
  <2>1. \A from, to : Moves(s, from, to) => from = "failed" /\ to = "failed"
    BY <1>1, <1>5 DEF Moves, TypeOK
  <2>2. \A from, code : Fails(s, from, code) => from = "failed"
    BY <2>1 DEF Fails
  <2>3. ~NormalizeStep(s) /\ ~Resubmit(s)
    BY <2>1 DEF NormalizeStep, Normalize, Resubmit
  <2>4. ~ValidateStep(s) /\ ~PlanStep(s) /\ ~CompileStep(s) /\ ~DeliverStep(s)
    BY <1>5 DEF ValidateStep, PlanStep, CompileStep, DeliverStep
  <2> QED BY <1>5, <2>3, <2>4 DEF SessionStep
<1> QED BY <1>2, <1>3, <1>4, <1>5 DEF RefusalOK

\* A query that is refused before it has a plan, and not merely sent back, is one
\* that a single instant would have refused so, an outrun closure excepted.
THEOREM RefusalsAtOnce == Spec => []RefusedAtOnce
<1> DEFINE Refusals_OK == \A s \in Sessions : RefusalOK(s)
<1>1. Init => Refusals_OK
  BY DEF Init, RefusalOK
<1>2. IInv /\ Refusals_OK /\ [Next]_vars => Refusals_OK'
  BY RefusalStep
<1>3. Refusals_OK => RefusedAtOnce
  BY DEF RefusalOK, RefusedAtOnce
<1> HIDE DEF Refusals_OK
<1> QED BY <1>1, <1>2, <1>3, Invariance, PTL DEF Spec
=============================================================================
