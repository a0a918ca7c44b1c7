------------------------------ MODULE LifecycleView ------------------------------
(***************************************************************************)
(* The anomaly lifecycle as a reader of its state sees it: the fields of   *)
(* FinOpsState that the "state" Query shows and the Reason of the result.  *)
(* AnomalyLifecycle implements this view; StateStream reads it.            *)
(***************************************************************************)

VARIABLES
    currentPhase,       \* FinOpsState.CurrentPhase
    approval,           \* FinOpsState.Approval
    planned,            \* FinOpsState.Analysis is set
    shouldTerminate,    \* FinOpsState.ShouldTerminate
    reason              \* WorkflowResult.Reason, "none" until the workflow returns

viewVars == <<currentPhase, approval, planned, shouldTerminate, reason>>

Init ==
    /\ currentPhase = "watcher"
    /\ approval = "pending"
    /\ planned = FALSE
    /\ shouldTerminate = FALSE
    /\ reason = "none"

Advance(from, to) ==
    /\ currentPhase = from
    /\ ~shouldTerminate
    /\ currentPhase' = to
    /\ UNCHANGED <<shouldTerminate, reason>>

Triage == Advance("watcher", "triage") /\ UNCHANGED <<approval, planned>>
Analyse == Advance("triage", "analyst") /\ UNCHANGED <<approval, planned>>

\* The plan is there and the policy leaves it to a human, or approves it.
Plan ==
    /\ planned' = TRUE
    /\ \/ Advance("analyst", "hil_gate") /\ UNCHANGED approval
       \/ Advance("analyst", "executor") /\ approval' = "auto_approved"

Approve == Advance("hil_gate", "executor") /\ approval' = "approved" /\ UNCHANGED planned
Verify == Advance("executor", "verifier") /\ UNCHANGED <<approval, planned>>

\* The workflow returns from this phase for this reason.
Return(phase, r) ==
    /\ currentPhase = phase
    /\ ~shouldTerminate
    /\ shouldTerminate' = TRUE
    /\ reason' = r

\* The returns that show nothing new but the return.
Stop ==
    /\ \/ Return("watcher", "no_anomaly")
       \/ Return("triage", "expected_growth_high_confidence")
       \/ Return("triage", "triage_error")
       \/ Return("analyst", "plan_error")
       \/ Return("executor", "execution_error")
       \/ Return("verifier", "verify_error")
    /\ UNCHANGED <<currentPhase, approval, planned>>

NothingToDo == Return("analyst", "no_actions") /\ planned' = TRUE /\ UNCHANGED <<currentPhase, approval>>

Deny ==
    \/ /\ Return("analyst", "policy_denied")
       /\ currentPhase' = "hil_gate" /\ planned' = TRUE /\ approval' = "denied"
    \/ /\ \/ Return("hil_gate", "human_denied") /\ approval' = "denied"
          \/ Return("hil_gate", "approval_timed_out") /\ approval' = "timed_out"
       /\ UNCHANGED <<currentPhase, planned>>

Complete == Return("verifier", "completed") /\ currentPhase' = "completed" /\ UNCHANGED <<approval, planned>>

Next == Triage \/ Analyse \/ Plan \/ Approve \/ Verify \/ Stop \/ NothingToDo \/ Deny \/ Complete

Spec == Init /\ [][Next]_viewVars
=============================================================================
