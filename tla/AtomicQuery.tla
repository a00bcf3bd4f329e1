----------------------------- MODULE AtomicQuery -----------------------------
(***************************************************************************)
(* What meridian_storage.query promises its callers, whatever changes      *)
(* between their calls: a query is planned at one instant, executed only   *)
(* by the adapter it was planned for, and answered within its budget, or   *)
(* refused.  Which plans can be made at an instant is a constant here.     *)
(***************************************************************************)
EXTENDS Integers

CONSTANTS
  Sessions,
  Bindings,
  CapabilitySets,
  FingerprintOf,  \* the fingerprint of each of them
  MadeAtOnce(_),  \* whether a plan can be made at one instant
  Results,
  Nothing         \* a plan not made, a result not delivered

VARIABLES
  adapter,  \* adapter[b]: the capabilities in force for b
  phase,    \* phase[s]: "open", "planned", "executing", "answered", "sent back" or "refused"
  plan,
  result

vars == <<adapter, phase, plan, result>>

Init ==
  /\ adapter \in [Bindings -> CapabilitySets]
  /\ phase = [s \in Sessions |-> "open"]
  /\ plan = [s \in Sessions |-> Nothing]
  /\ result = [s \in Sessions |-> Nothing]

Turns(s, from, to) ==
  /\ phase[s] = from
  /\ phase' = [phase EXCEPT ![s] = to]

InstallAdapter ==
  /\ adapter' \in [Bindings -> CapabilitySets]
  /\ UNCHANGED <<phase, plan, result>>

PlanAtOnce(s) ==
  /\ Turns(s, "open", "planned")
  /\ MadeAtOnce(plan'[s])
  /\ plan' = [plan EXCEPT ![s] = plan'[s]]
  /\ UNCHANGED <<adapter, result>>

\* The adapter in force is the one the plan was made for.
Execute(s) ==
  /\ Turns(s, "planned", "executing")
  /\ ~plan[s].empty
  /\ FingerprintOf[adapter[plan[s].binding]] = plan[s].capabilities
  /\ UNCHANGED <<adapter, plan, result>>

Answer(s) ==
  /\ Turns(s, "executing", "answered")
  /\ \E r \in Results :
       /\ r.values <= plan[s].operation.budget.limits["resultValues"]
       /\ r.bytes <= plan[s].operation.budget.limits["resultBytes"]
       /\ result' = [result EXCEPT ![s] = r]
  /\ UNCHANGED <<adapter, plan>>

\* A plan that reads nothing is answered without an adapter.
AnswerEmpty(s) ==
  /\ Turns(s, "planned", "answered")
  /\ plan[s].empty
  /\ result' = [result EXCEPT ![s] = [values |-> 0, bytes |-> 0]]
  /\ UNCHANGED <<adapter, plan>>

Refuse(s) ==
  /\ \E from \in {"open", "planned", "executing"} : Turns(s, from, "refused")
  /\ UNCHANGED <<adapter, plan, result>>

\* What it was planned with is stale; never once an adapter executes it.
SendBack(s) ==
  /\ \E from \in {"open", "planned"} : Turns(s, from, "sent back")
  /\ UNCHANGED <<adapter, plan, result>>

Retry(s) ==
  /\ Turns(s, "sent back", "open")
  /\ plan' = [plan EXCEPT ![s] = Nothing]
  /\ UNCHANGED <<adapter, result>>

Next ==
  \/ InstallAdapter
  \/ \E s \in Sessions :
       \/ PlanAtOnce(s) \/ Execute(s) \/ Answer(s) \/ AnswerEmpty(s)
       \/ Refuse(s) \/ SendBack(s) \/ Retry(s)

Spec == Init /\ [][Next]_vars
=============================================================================
