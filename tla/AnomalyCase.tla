------------------------------- MODULE AnomalyCase -------------------------------
(***************************************************************************)
(* One case of the anomaly lifecycle on what its activities really return: *)
(* the classes of Triage, the single plan of internal/analysis, the check  *)
(* of internal/verifier, and the UI schema a reader of the case is given   *)
(* (internal/uischema).  AnomalyLifecycle has the workflow's part in full  *)
(* and takes any plan; here an activity that ends, in whichever way, is    *)
(* one step, and the gate has nobody at it.                                *)
(***************************************************************************)
EXTENDS Triage, PolicyEngine

CONSTANTS
    BudgetTarget,   \* the "budget:<service>:<account>" every plan targets
    NoAnomaly,      \* no case yet
    CostSeries      \* answers of Cost Explorer: the cost of each day of the window

ASSUME CaseAssumption ==
    /\ BudgetTarget \in Resources
    /\ CostSeries \subseteq Seq(Int)

VARIABLES
    anomaly,            \* CostAnomaly, and whether WorkflowInput names a window
    currentPhase, approval, shouldTerminate, reason,    \* as in AnomalyLifecycle
    plan,               \* FinOpsState.Analysis's actions; <<>> before it is set
    executions,         \* FinOpsState.Executions, as positions in the plan
    recommendation      \* VerificationResult.Recommendation, "none" before

stateVars == <<currentPhase, approval, shouldTerminate, reason, plan, executions, recommendation>>
caseVars == <<anomaly, stateVars, triageVars>>

\* The workflow starts on this anomaly.
StartCase(a) ==
    /\ anomaly' = a
    /\ currentPhase' = "watcher"
    /\ approval' = "pending"
    /\ shouldTerminate' = FALSE
    /\ reason' = "none"
    /\ plan' = <<>>
    /\ executions' = <<>>
    /\ recommendation' = "none"
    /\ stage' = "idle" /\ seen' = NothingSeen /\ category' = "none"

NoCase ==
    /\ anomaly = NoAnomaly
    /\ currentPhase = "watcher"
    /\ approval = "pending"
    /\ shouldTerminate = FALSE
    /\ reason = "none"
    /\ plan = <<>>
    /\ executions = <<>>
    /\ recommendation = "none"
    /\ stage = "idle" /\ seen = NothingSeen /\ category = "none"

InPhaseThoughOver(phase) == anomaly # NoAnomaly /\ currentPhase = phase
InPhase(phase) == anomaly # NoAnomaly /\ currentPhase = phase /\ ~shouldTerminate

Return(r) == shouldTerminate' = TRUE /\ reason' = r

KeepRunning == UNCHANGED <<shouldTerminate, reason>>

-----------------------------------------------------------------------------

Watch ==
    /\ InPhase("watcher")
    /\ currentPhase' = "triage"
    /\ StartTriage
    /\ KeepRunning
    /\ UNCHANGED <<anomaly, approval, plan, executions, recommendation>>

TriageAnomaly(allocations) ==
    /\ InPhase("triage")
    /\ TriageStep(anomaly, allocations)
    /\ UNCHANGED <<anomaly, stateVars>>

\* The triage is over: its error ends the case, and so would growth it was sure of.
TriageReturns ==
    /\ InPhase("triage")
    /\ stage \in {"classified", "failed"}
    /\ IF stage = "failed" THEN Return("triage_error") /\ UNCHANGED currentPhase
       ELSE IF category = "expected_growth" /\ Confidence[category] >= 85
         THEN Return("expected_growth_high_confidence") /\ UNCHANGED currentPhase
       ELSE currentPhase' = "analyst" /\ KeepRunning
    /\ UNCHANGED <<anomaly, approval, plan, executions, recommendation, triageVars>>

\* The only plan there is: a budget alert.
AnalyzeAndRecommendMedium == <<[risk |-> "medium", target |-> BudgetTarget]>>
AnalyzeAndRecommend == <<[risk |-> "low", target |-> BudgetTarget]>>

\* The planner asks for the bill of the window it was given, and a query without
\* dates is refused: triage fills in a default window, the planner does not.
PlanDefaultsWindow == TRUE
PlanCanSucceed == anomaly.windowed

PlanFails ==
    /\ InPhase("analyst")
    /\ Return("plan_error")
    /\ UNCHANGED <<anomaly, currentPhase, approval, plan, executions, recommendation, triageVars>>

PlanReturns ==
    /\ InPhase("analyst")
    /\ PlanCanSucceed
    /\ plan' = AnalyzeAndRecommend
    /\ IF Decide(plan') = "auto_approved"
         THEN currentPhase' = "executor" /\ approval' = "auto_approved" /\ KeepRunning
         ELSE /\ currentPhase' = "hil_gate"
              /\ IF Decide(plan') = "denied"
                   THEN approval' = "denied" /\ Return("policy_denied")
                   ELSE approval' = "pending" /\ KeepRunning
    /\ UNCHANGED <<anomaly, executions, recommendation, triageVars>>

\* The budget target is no ARN and carries no tags, if the tag service answers at all.
ExecuteFails ==
    /\ InPhase("executor")
    /\ Return("execution_error")
    /\ UNCHANGED <<anomaly, currentPhase, approval, plan, executions, recommendation, triageVars>>

ExecuteReturns ==
    /\ InPhase("executor")
    /\ EnforceExecutorSafety(approval, plan, [r \in Resources |-> {}])
    /\ executions' = [i \in DOMAIN plan |-> i]
    /\ currentPhase' = "verifier"
    /\ KeepRunning
    /\ UNCHANGED <<anomaly, approval, plan, recommendation, triageVars>>

\* transformCostTimeseries: what the last day costs less than the first.
ObservedSavings(days) == IF Len(days) < 2 THEN 0 ELSE days[1] - days[Len(days)]

VerifyFails ==
    /\ InPhase("verifier")
    /\ Return("verify_error")
    /\ UNCHANGED <<anomaly, currentPhase, approval, plan, executions, recommendation, triageVars>>

VerifyReturns ==
    /\ InPhase("verifier")
    /\ \E days \in CostSeries :
          recommendation' = IF ObservedSavings(days) > 0 THEN "close" ELSE "monitor"
    /\ currentPhase' = "completed"
    /\ Return("completed")
    /\ UNCHANGED <<anomaly, approval, plan, executions, triageVars>>

CaseStep(allocations) ==
    \/ Watch \/ TriageAnomaly(allocations) \/ TriageReturns
    \/ PlanFails \/ PlanReturns \/ ExecuteFails \/ ExecuteReturns \/ VerifyFails \/ VerifyReturns

-----------------------------------------------------------------------------
(* The UI schema of a case.                                                  *)

\* The component categoryEvidence picks for a class.
EvidenceComponentSwapped(c) ==
    IF c = "commitment_coverage_drift" THEN "commitment_drift"
    ELSE IF c \in {"credits_refunds_fees", "data_transfer"} THEN "credit_breakdown"
    ELSE IF c = "marketplace" THEN "data_transfer_spike"
    ELSE "evidence_panel"
EvidenceComponent(c) ==
    IF c = "commitment_coverage_drift" THEN "commitment_drift"
    ELSE IF c \in {"credits_refunds_fees", "marketplace"} THEN "credit_breakdown"
    ELSE IF c = "k8s_cost_shift" THEN "k8s_namespace_deltas"
    ELSE IF c = "deploy_related" THEN "deploy_correlation"
    ELSE IF c = "data_transfer" THEN "data_transfer_spike"
    ELSE IF c = "expected_growth" THEN "cost_timeseries"
    ELSE "evidence_panel"

\* The figures each of them shows.  The cases that the panel is for hold none of its
\* three correlations: deploys and usage decide a class of their own, and nothing
\* sets InfraCorrelation.
ShownFigures(component) ==
    LET items == QueryResult(seen.bill)
    IN  IF component = "commitment_drift"
          THEN {Magnitude(CoverageDelta(seen.ri)), Magnitude(CoverageDelta(seen.sp))}
        ELSE IF component = "credit_breakdown"
          THEN {Magnitude(Credits(items)), Magnitude(Refunds(items))} \cup
               {MarketplaceCharges(items) : c \in {category} \ {"credits_refunds_fees"}}
        ELSE IF component = "k8s_namespace_deltas" THEN seen.namespaces
        ELSE IF component = "deploy_correlation" THEN {seen.deploys}
        ELSE IF component = "data_transfer_spike" THEN {DataTransfer(items)}
        ELSE IF component = "cost_timeseries" THEN {seen.usage.current - seen.usage.baseline}
        ELSE {}

\* The components of Build, in the order it appends them.
Build ==
    (IF anomaly # NoAnomaly THEN <<"anomaly_summary">> ELSE <<>>) \o
    (IF stage = "classified" /\ (currentPhase # "triage" \/ shouldTerminate)
       THEN <<"triage_card", EvidenceComponent(category)>> ELSE <<>>) \o
    (IF plan # <<>> THEN <<"action_plan">> \o [i \in DOMAIN plan |-> "action_editor"] ELSE <<>>) \o
    (IF plan # <<>> /\ approval = "pending" THEN <<"approval_queue">> ELSE <<>>) \o
    (IF executions # <<>> THEN <<"execution_results">> ELSE <<>>) \o
    (IF recommendation # "none" THEN <<"verification_dashboard">> ELSE <<>>)
=============================================================================
