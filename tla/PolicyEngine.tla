------------------------------ MODULE PolicyEngine ------------------------------
(***************************************************************************)
(* The deterministic policy engine (internal/policy/engine.go) and the     *)
(* risk table it reads (internal/domain/enums.go).                         *)
(*                                                                         *)
(* An action is reduced to what the policy looks at: its risk level and    *)
(* its target resource.  The wording of PolicyDecision.Details is left     *)
(* out, and so is which of its three errors the executor gate returns.     *)
(***************************************************************************)
EXTENDS Integers, Sequences

CONSTANTS
    Resources,      \* the cloud resources (ARNs) an action can target
    NoTarget        \* an action's empty TargetResource

ASSUME NoTargetAssumption == NoTarget \notin Resources

\* The five ActionRiskLevel constants, and any other string.  A risk level is a
\* plain Go string: nothing between the planner and the policy validates it.
KnownRisks == {"low", "low_medium", "medium", "high", "critical"}
UnknownRisk == "unknown"
ActionRiskLevels == KnownRisks \cup {UnknownRisk}

\* domain.RiskScore[level]; a Go map yields 0 for a key it does not hold.
RiskScore(level) ==
    IF level = "low" THEN 10
    ELSE IF level = "low_medium" THEN 20
    ELSE IF level = "medium" THEN 30
    ELSE IF level = "high" THEN 40
    ELSE IF level = "critical" THEN 50
    ELSE 0

RecommendedActions == [risk : ActionRiskLevels, target : Resources \cup {NoTarget}]

\* NewPolicyEngine's thresholds.
AutoApproveMaxRisk == "low"
DenyMinRisk == "critical"

\* An action of the highest score: no other position holds a greater one, and
\* no earlier position holds the same one (the loop replaces only on s > maxScore).
IsFirstMax(actions, i) ==
    \A j \in DOMAIN actions :
        /\ RiskScore(actions[j].risk) <= RiskScore(actions[i].risk)
        /\ j < i => RiskScore(actions[j].risk) < RiskScore(actions[i].risk)

\* MaxRisk: the risk level the loop over a non-empty list ends with.
MaxRisk(actions) ==
    actions[CHOOSE i \in DOMAIN actions : IsFirstMax(actions, i)].risk

-----------------------------------------------------------------------------
(* Changed forms, each the slip a maintainer could make in Decide or in the  *)
(* executor gate.                                                            *)

DecideAutoApprovesMedium(actions) ==
    IF actions = <<>> THEN "denied"
    ELSE IF RiskScore(MaxRisk(actions)) >= RiskScore(DenyMinRisk) THEN "denied"
    ELSE IF RiskScore(MaxRisk(actions)) <= RiskScore("medium") THEN "auto_approved"
    ELSE "pending"

-----------------------------------------------------------------------------

\* Decide: none -> denied, at or above the deny threshold -> denied, at or
\* below the auto-approve threshold -> auto_approved, otherwise pending.
Decide(actions) ==
    IF actions = <<>> THEN "denied"
    ELSE IF RiskScore(MaxRisk(actions)) >= RiskScore(DenyMinRisk) THEN "denied"
    ELSE IF RiskScore(MaxRisk(actions)) <= RiskScore(AutoApproveMaxRisk) THEN "auto_approved"
    ELSE "pending"

\* The tags the executor gate honours; a resource's tags are abstracted to those
\* of them it carries with the value "true".
ProtectiveTags == {"do-not-modify", "manual-only"}

IsProtected(tagSet) == tagSet \cap ProtectiveTags # {}

\* EnforceExecutorSafety returns nil.  A resource whose tags were not fetched is
\* absent from the Go map and so passes, like one with no tags.
EnforceExecutorSafety(approval, actions, tagsByARN) ==
    /\ approval \in {"approved", "auto_approved"}
    /\ \A i \in DOMAIN actions :
        /\ actions[i].risk # "critical"
        /\ actions[i].target # NoTarget => ~IsProtected(tagsByARN[actions[i].target])
=============================================================================
