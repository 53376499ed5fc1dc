------------------------------ MODULE PlanGate ------------------------------
(***************************************************************************)
(* The plan gate of a question: one QueryPlan from the LLM is structured   *)
(* by query_planner and judged by plan_validator.  No await lies between   *)
(* the two, so the judgement is one step.                                  *)
(***************************************************************************)
EXTENDS DemoScope

CONSTANT RawPlans  \* the plans that the LLM may come up with

ASSUME RawPlansAssumption == \A p \in RawPlans : p \in Plans

VARIABLES plan, verdict

gateVars == <<plan, verdict>>

Init == plan \in RawPlans /\ verdict = "pending"

Accept ==
    /\ verdict = "pending" /\ PlanAccepted(plan)
    /\ verdict' = "accepted"
    /\ UNCHANGED plan

(* Mutant of Refuse: the code of a later gate is reported.                 *)
RefuseAsSql ==
    /\ verdict = "pending" /\ ~PlanAccepted(plan)
    /\ verdict' = "sql_rejected"
    /\ UNCHANGED plan

(* QueryPlanInvalidError, from either of the two.                          *)
Refuse ==
    /\ verdict = "pending" /\ ~PlanAccepted(plan)
    /\ verdict' = "query_plan_invalid"
    /\ UNCHANGED plan

Next == Accept \/ Refuse

Spec == Init /\ [][Next]_gateVars

-----------------------------------------------------------------------------
(* Every variable has its type.                                            *)
GateTypeOK == plan \in Plans /\ verdict \in {"pending", "accepted", "query_plan_invalid"}

(* The contract of QueryPlan and the checks of plan_validator let exactly  *)
(* the demo scope's plans through.  The validator only asks that required  *)
(* ids are contained and leaves it to the registry, by the kind check,     *)
(* that nothing else is: the comment at plan_validator.py:57 relies on it. *)
ScopeIsExact ==
    /\ verdict = "accepted" => InDemoScope(plan)
    /\ verdict = "query_plan_invalid" => ~InDemoScope(plan)
=============================================================================
