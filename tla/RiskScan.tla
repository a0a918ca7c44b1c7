-------------------------------- MODULE RiskScan --------------------------------
(***************************************************************************)
(* PolicyEngine.MaxRisk as the loop it is, and Decide on top of it: one    *)
(* step per turn of the loop.  PolicyEngine.tla gives the same functions   *)
(* by what they return; the invariants say that the two agree.             *)
(***************************************************************************)
EXTENDS PolicyEngine

CONSTANT Inputs     \* the action lists handed to Decide

ASSUME InputsAssumption == Inputs \subseteq Seq(RecommendedActions)

VARIABLES
    actions,        \* the argument, never assigned
    next,           \* position the loop looks at
    maxLevel,       \* the loop's maxLevel; its maxScore is RiskScore(maxLevel)
    decision        \* PolicyDecision.Approval, "none" until Decide returns

vars == <<actions, next, maxLevel, decision>>

Init ==
    /\ actions \in Inputs
    /\ next = 1
    /\ maxLevel = UnknownRisk
    /\ decision = "none"

\* The guard of Decide: no actions, no loop.
DecideEmpty ==
    /\ decision = "none"
    /\ actions = <<>>
    /\ decision' = "denied"
    /\ UNCHANGED <<actions, next, maxLevel>>

\* maxLevel := actions[0].RiskLevel, and the loop starts at the second action.
LoopStartLate == 3
LoopStart == 2
FirstAction ==
    /\ decision = "none"
    /\ actions # <<>>
    /\ next = 1
    /\ maxLevel' = actions[1].risk
    /\ next' = LoopStart
    /\ UNCHANGED <<actions, decision>>

IsAnother(level) == level # maxLevel
Exceeds(level) == RiskScore(level) > RiskScore(maxLevel)

\* One turn of `for _, a := range actions[1:]`.
NextAction ==
    /\ decision = "none"
    /\ next \in LoopStart..Len(actions)
    /\ maxLevel' = IF Exceeds(actions[next].risk) THEN actions[next].risk ELSE maxLevel
    /\ next' = next + 1
    /\ UNCHANGED <<actions, decision>>

\* The thresholds, once the loop is over.
ApplyThresholds ==
    /\ decision = "none"
    /\ next > 1
    /\ next > Len(actions)
    /\ decision' =
         IF RiskScore(maxLevel) >= RiskScore(DenyMinRisk) THEN "denied"
         ELSE IF RiskScore(maxLevel) <= RiskScore(AutoApproveMaxRisk) THEN "auto_approved"
         ELSE "pending"
    /\ UNCHANGED <<actions, next, maxLevel>>

Next == DecideEmpty \/ FirstAction \/ NextAction \/ ApplyThresholds

Spec == Init /\ [][Next]_vars /\ WF_vars(Next)

\* The loop never looks past the end of the list, and keeps a level of some action.
TypeOK ==
    /\ actions \in Seq(RecommendedActions)
    /\ next \in 1..(Len(actions) + 1)
    /\ maxLevel \in ActionRiskLevels
    /\ decision \in {"none", "denied", "auto_approved", "pending"}

\* The loop returns MaxRisk, the level of the first action with the highest score.
ScanFindsMaxRisk == next > 1 /\ next > Len(actions) => maxLevel = MaxRisk(actions)

\* The decision does not depend on the order of the actions: denied exactly when
\* there is none or one is critical, auto-approved exactly when none scores above
\* "low", and pending otherwise.  Decide of PolicyEngine.tla decides the same.
DecisionByWorstAction ==
    decision # "none" =>
        /\ decision = Decide(actions)
        /\ decision = "denied" <=>
             actions = <<>> \/ \E i \in DOMAIN actions : actions[i].risk = "critical"
        /\ decision = "auto_approved" <=>
             actions # <<>> /\ \A i \in DOMAIN actions : RiskScore(actions[i].risk) <= RiskScore("low")
=============================================================================
