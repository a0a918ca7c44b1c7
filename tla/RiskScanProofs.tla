----------------------------- MODULE RiskScanProofs -----------------------------
(***************************************************************************)
(* The loop of MaxRisk and the decision drawn from it, for action lists of *)
(* every length.                                                           *)
(***************************************************************************)
EXTENDS RiskScan, PolicyEngineProofs

(* The loop invariant: maxLevel is the level of the first of the actions seen  *)
(* that scores highest among them.                                             *)
FirstMaxSoFar(k) ==
    /\ k \in 1..(next - 1)
    /\ maxLevel = actions[k].risk
    /\ \A j \in 1..(next - 1) :
          /\ RiskScore(actions[j].risk) <= RiskScore(actions[k].risk)
          /\ j < k => RiskScore(actions[j].risk) < RiskScore(actions[k].risk)

LoopInv ==
    /\ TypeOK
    /\ next > 1 => actions # <<>> /\ \E k \in 1..(next - 1) : FirstMaxSoFar(k)
    /\ decision # "none" => decision = Decide(actions)

(* Two positions cannot both be the first maximum. *)
LEMMA FirstMaxUnique ==
    ASSUME NEW s \in Seq(RecommendedActions), NEW i \in DOMAIN s, NEW k \in DOMAIN s,
           IsFirstMax(s, i), IsFirstMax(s, k)
    PROVE  i = k
<1>1. i \in Nat /\ k \in Nat
  BY Positions
<1>2. RiskScore(s[i].risk) \in Int /\ RiskScore(s[k].risk) \in Int
  BY Positions, RiskScoreType
<1>3. ~(i < k) /\ ~(k < i)
  BY <1>1, <1>2 DEF IsFirstMax
<1>4. QED
  BY <1>1, <1>3

(* What the invariant says of the list and of the loop variable. *)
LEMMA ScanTypes ==
    ASSUME LoopInv
    PROVE  /\ actions \in Seq(RecommendedActions)
           /\ Len(actions) \in Nat
           /\ DOMAIN actions = 1..Len(actions)
           /\ next \in 1..(Len(actions) + 1)
           /\ \A j \in 1..Len(actions) : actions[j].risk \in ActionRiskLevels
           /\ \A j \in 1..Len(actions) : RiskScore(actions[j].risk) \in Int
<1>1. actions \in Seq(RecommendedActions) /\ next \in 1..(Len(actions) + 1)
  BY DEF LoopInv, TypeOK
<1>2. Len(actions) \in Nat /\ DOMAIN actions = 1..Len(actions)
  BY <1>1, LenProperties
<1>3. \A j \in 1..Len(actions) : actions[j].risk \in ActionRiskLevels
  BY <1>1, <1>2, Positions
<1>4. \A j \in 1..Len(actions) : RiskScore(actions[j].risk) \in Int
  BY <1>3, RiskScoreType
<1>5. QED
  BY <1>1, <1>2, <1>3, <1>4

(* Once every action was seen, the invariant names MaxRisk. *)
LEMMA ScanOver ==
    ASSUME LoopInv, next > 1, next > Len(actions)
    PROVE  maxLevel = MaxRisk(actions) /\ actions # <<>>
<1>1. actions # <<>> /\ \E k \in 1..(next - 1) : FirstMaxSoFar(k)
  BY DEF LoopInv
<1>2. 1..(next - 1) = DOMAIN actions
  BY ScanTypes
<1>3. PICK k \in DOMAIN actions : FirstMaxSoFar(k)
  BY <1>1, <1>2
<1>4. IsFirstMax(actions, k)
  BY <1>2, <1>3 DEF FirstMaxSoFar, IsFirstMax
<1> DEFINE i == CHOOSE i \in DOMAIN actions : IsFirstMax(actions, i)
<1>5. i \in DOMAIN actions /\ IsFirstMax(actions, i)
  BY <1>4
<1>6. i = k
  BY <1>4, <1>5, ScanTypes, FirstMaxUnique
<1>7. QED
  BY <1>1, <1>3, <1>6 DEF MaxRisk, FirstMaxSoFar

\* The loop invariant holds before Decide begins.
LEMMA LoopInvInit == Init => LoopInv
<1> SUFFICES ASSUME Init PROVE LoopInv
  OBVIOUS
<1>1. actions \in Seq(RecommendedActions)
  BY InputsAssumption DEF Init
<1>2. Len(actions) \in Nat
  BY <1>1, LenProperties
<1>3. TypeOK
  BY <1>1, <1>2 DEF Init, TypeOK, ActionRiskLevels
<1>4. QED
  BY <1>3 DEF Init, LoopInv

\* Every turn of the loop keeps it.
LEMMA LoopInvStep == LoopInv /\ [Next]_vars => LoopInv'
<1> SUFFICES ASSUME LoopInv, [Next]_vars PROVE LoopInv'
  OBVIOUS
<1> DEFINE score(j) == RiskScore(actions[j].risk)
<1>1. CASE DecideEmpty
  <2>1. next = 1 /\ next' = 1 /\ actions' = actions /\ maxLevel' = maxLevel /\ decision' = "denied"
    BY <1>1, ScanTypes DEF DecideEmpty, LoopInv
  <2>2. TypeOK'
    BY <2>1 DEF LoopInv, TypeOK
  <2>3. decision' = Decide(actions')
    BY <1>1, <2>1 DEF DecideEmpty, Decide
  <2>4. QED
    BY <2>1, <2>2, <2>3 DEF LoopInv
<1>2. CASE FirstAction
  <2>1. actions # <<>> /\ actions' = actions /\ next' = 2 /\ maxLevel' = actions[1].risk /\ decision' = "none"
    BY <1>2 DEF FirstAction, LoopStart
  <2>2. 1 \in 1..Len(actions)
    BY <2>1, ScanTypes, Positions
  <2>3. maxLevel' \in ActionRiskLevels
    BY <2>1, <2>2, ScanTypes
  <2>4. TypeOK'
    BY <2>1, <2>2, <2>3, ScanTypes DEF TypeOK
  <2>5. FirstMaxSoFar(1)'
    BY <2>1, <2>2, ScanTypes DEF FirstMaxSoFar
  <2>6. QED
    BY <2>1, <2>4, <2>5 DEF LoopInv
<1>3. CASE NextAction
  <2>1. /\ next \in 2..Len(actions) /\ next' = next + 1
        /\ actions' = actions
        /\ decision = "none" /\ decision' = "none"
    BY <1>3 DEF NextAction, LoopStart
  <2>2. maxLevel' = IF score(next) > RiskScore(maxLevel) THEN actions[next].risk ELSE maxLevel
    BY <1>3 DEF NextAction, Exceeds
  <2>3. maxLevel' \in ActionRiskLevels
    BY <2>1, <2>2, ScanTypes DEF LoopInv, TypeOK
  <2>4. TypeOK'
    BY <2>1, <2>3, ScanTypes DEF TypeOK
  <2>5. PICK k \in 1..(next - 1) : FirstMaxSoFar(k)
    BY <2>1 DEF LoopInv
  <2>6. /\ maxLevel = actions[k].risk
        /\ \A j \in 1..(next - 1) : score(j) <= score(k) /\ (j < k => score(j) < score(k))
    BY <2>5 DEF FirstMaxSoFar
  <2>7. 1..(next' - 1) = 1..(next - 1) \cup {next}
    BY <2>1, ScanTypes
  <2>8. \A j \in 1..(next' - 1) : score(j) \in Int
    BY <2>1, ScanTypes
  <2>9. \E m \in 1..(next' - 1) : FirstMaxSoFar(m)'
    <3> HIDE DEF score
    <3>1. CASE score(next) > score(k)
      <4>1. maxLevel' = actions[next].risk
        BY <2>2, <2>6, <3>1 DEF score
      <4>2. \A j \in 1..(next' - 1) : score(j) <= score(next) /\ (j < next => score(j) < score(next))
        BY <2>1, <2>6, <2>7, <2>8, <3>1
      <4>3. PICK n \in 1..(next' - 1) : n = next
        BY <2>7
      <4>4. FirstMaxSoFar(n)'
        BY <2>1, <4>1, <4>2, <4>3 DEF FirstMaxSoFar, score
      <4>5. QED
        BY <4>4
    <3>2. CASE ~(score(next) > score(k))
      <4>1. maxLevel' = actions[k].risk
        BY <2>2, <2>6, <3>2 DEF score
      <4>2. \A j \in 1..(next' - 1) : score(j) <= score(k) /\ (j < k => score(j) < score(k))
        BY <2>1, <2>6, <2>7, <2>8, <3>2
      <4>3. FirstMaxSoFar(k)'
        BY <2>1, <2>7, <4>1, <4>2 DEF FirstMaxSoFar, score
      <4>4. QED
        BY <2>7, <4>3
    <3>3. QED
      BY <3>1, <3>2
  <2>10. QED
    BY <2>1, <2>4, <2>9 DEF LoopInv
<1>4. CASE ApplyThresholds
  <2>1. actions' = actions /\ next' = next /\ maxLevel' = maxLevel
    BY <1>4 DEF ApplyThresholds
  <2>2. maxLevel = MaxRisk(actions) /\ actions # <<>>
    BY <1>4, ScanOver DEF ApplyThresholds
  <2>3. decision' = Decide(actions')
    BY <1>4, <2>1, <2>2 DEF ApplyThresholds, Decide
  <2>4. decision' \in {"denied", "auto_approved", "pending"}
    BY <2>1, <2>3, ScanTypes, DecideByWorstAction
  <2>5. TypeOK'
    BY <2>1, <2>4 DEF LoopInv, TypeOK
  <2>6. next > 1 => actions # <<>> /\ \E k \in 1..(next - 1) : FirstMaxSoFar(k)
    BY DEF LoopInv
  <2>7. \A k : FirstMaxSoFar(k)' <=> FirstMaxSoFar(k)
    BY <2>1 DEF FirstMaxSoFar
  <2>8. QED
    BY <2>1, <2>3, <2>5, <2>6, <2>7 DEF LoopInv
<1>5. CASE UNCHANGED vars
  BY <1>5 DEF vars, LoopInv, TypeOK, FirstMaxSoFar
<1>6. QED
  BY <1>1, <1>2, <1>3, <1>4, <1>5 DEF Next

(* The loop never looks past the end of the list: its index stays within one of the *)
(* length, and what it keeps is a level some action can have (engine.go:38-48).     *)
THEOREM ScanTypeCorrect == Spec => []TypeOK
<1>1. LoopInv => TypeOK
  BY DEF LoopInv
<1>2. QED
  BY <1>1, LoopInvInit, LoopInvStep, PTL DEF Spec

(* The loop of MaxRisk ends with the level of the first action of the highest  *)
(* score, for every list of actions.                                           *)
THEOREM ScanCorrect == Spec => []ScanFindsMaxRisk
<1>1. LoopInv => ScanFindsMaxRisk
  BY ScanOver DEF ScanFindsMaxRisk
<1>2. QED
  BY <1>1, LoopInvInit, LoopInvStep, PTL DEF Spec

(* What the loop decides depends only on the worst action of the list. *)
THEOREM ScanDecides == Spec => []DecisionByWorstAction
<1>1. LoopInv => DecisionByWorstAction
  BY DecideByWorstAction DEF LoopInv, TypeOK, DecisionByWorstAction
<1>2. QED
  BY <1>1, LoopInvInit, LoopInvStep, PTL DEF Spec
=============================================================================
