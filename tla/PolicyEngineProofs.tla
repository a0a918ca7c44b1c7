--------------------------- MODULE PolicyEngineProofs ---------------------------
(***************************************************************************)
(* What Decide promises for every action list, whatever its length.        *)
(***************************************************************************)
EXTENDS PolicyEngine, SequenceTheorems, WellFoundedInduction, TLAPS

(* A score is one of six numbers, and only "critical" scores 50. *)
LEMMA RiskScoreType ==
    \A level \in ActionRiskLevels :
        /\ RiskScore(level) \in {0, 10, 20, 30, 40, 50}
        /\ RiskScore(level) >= 50 <=> level = "critical"
  BY DEF ActionRiskLevels, KnownRisks, UnknownRisk, RiskScore

(* A non-empty set of natural numbers has a least element. *)
LEMMA LeastNatural ==
    ASSUME NEW S \in SUBSET Nat, S # {}
    PROVE  \E n \in S : \A m \in S : n <= m
<1>1. IsWellFoundedOn(OpToRel(<, Nat), Nat)
  BY NatLessThanWellFounded
<1>2. PICK n \in S : \A m \in S : <<m, n>> \notin OpToRel(<, Nat)
  BY <1>1, WFMin
<1>3. \A m \in S : ~(m < n)
  BY <1>2 DEF OpToRel
<1>4. QED
  BY <1>3

(* The positions of a list of actions, and what stands there. *)
LEMMA Positions ==
    ASSUME NEW s \in Seq(RecommendedActions)
    PROVE  /\ DOMAIN s \subseteq Nat
           /\ s # <<>> => 1 \in DOMAIN s
           /\ \A j \in DOMAIN s : s[j] \in RecommendedActions /\ s[j].risk \in ActionRiskLevels
<1>1. Len(s) \in Nat /\ DOMAIN s = 1..Len(s) /\ (s # <<>> => Len(s) # 0)
  BY LenProperties, EmptySeq
<1>2. \A j \in DOMAIN s : s[j] \in RecommendedActions
  BY <1>1, ElementOfSeq
<1>3. \A a \in RecommendedActions : a.risk \in ActionRiskLevels
  BY DEF RecommendedActions
<1>4. QED
  BY <1>1, <1>2, <1>3

(* The loop of MaxRisk has an answer: a non-empty list has a first action of   *)
(* the highest score, and only one.                                            *)
LEMMA FirstMaxExists ==
    ASSUME NEW s \in Seq(RecommendedActions), s # <<>>
    PROVE  \E i \in DOMAIN s : IsFirstMax(s, i)
<1> DEFINE score(j) == RiskScore(s[j].risk)
<1>1. \A j \in DOMAIN s : score(j) \in {0, 10, 20, 30, 40, 50}
  BY RiskScoreType, Positions
<1>2. 1 \in DOMAIN s /\ DOMAIN s \subseteq Nat
  BY Positions
<1>3. PICK k \in DOMAIN s : \A j \in DOMAIN s : score(j) <= score(k)
  <2> HIDE DEF score
  <2>1. CASE \E j \in DOMAIN s : score(j) = 50
    BY <1>1, <2>1
  <2>2. CASE ~(\E j \in DOMAIN s : score(j) = 50) /\ \E j \in DOMAIN s : score(j) = 40
    <3>1. PICK k \in DOMAIN s : score(k) = 40
      BY <2>2
    <3>2. \A j \in DOMAIN s : score(j) <= score(k)
      BY <1>1, <2>2, <3>1
    <3>3. QED
      BY <3>2
  <2>3. CASE ~(\E j \in DOMAIN s : score(j) \in {40, 50}) /\ \E j \in DOMAIN s : score(j) = 30
    BY <1>1, <2>3
  <2>4. CASE ~(\E j \in DOMAIN s : score(j) \in {30, 40, 50}) /\ \E j \in DOMAIN s : score(j) = 20
    BY <1>1, <2>4
  <2>5. CASE ~(\E j \in DOMAIN s : score(j) \in {20, 30, 40, 50}) /\ \E j \in DOMAIN s : score(j) = 10
    BY <1>1, <2>5
  <2>6. CASE ~(\E j \in DOMAIN s : score(j) \in {10, 20, 30, 40, 50})
    BY <1>1, <1>2, <2>6
  <2>7. QED
    BY <2>1, <2>2, <2>3, <2>4, <2>5, <2>6
<1> DEFINE Best == {j \in DOMAIN s : score(j) = score(k)}
<1>4. PICK i \in Best : \A m \in Best : i <= m
  BY <1>2, LeastNatural, k \in Best, Best \in SUBSET Nat
<1>5. \A j \in DOMAIN s : j < i => score(j) < score(i)
  BY <1>1, <1>2, <1>3, <1>4
<1>6. QED
  BY <1>3, <1>4, <1>5 DEF IsFirstMax

(* MaxRisk is the level of some action and no action scores higher. *)
LEMMA MaxRiskIsMax ==
    ASSUME NEW s \in Seq(RecommendedActions), s # <<>>
    PROVE  /\ \E i \in DOMAIN s : MaxRisk(s) = s[i].risk
           /\ \A j \in DOMAIN s : RiskScore(s[j].risk) <= RiskScore(MaxRisk(s))
<1> DEFINE i == CHOOSE i \in DOMAIN s : IsFirstMax(s, i)
<1>1. i \in DOMAIN s /\ IsFirstMax(s, i)
  BY FirstMaxExists
<1>2. MaxRisk(s) = s[i].risk
  BY DEF MaxRisk
<1>3. QED
  BY <1>1, <1>2 DEF IsFirstMax

(* Decide goes by the worst action and by nothing else: a list is denied        *)
(* exactly when it is empty or holds a critical action, and approved without a  *)
(* human exactly when it is not empty and no action scores more than "low".     *)
THEOREM DecideByWorstAction ==
    ASSUME NEW s \in Seq(RecommendedActions)
    PROVE  /\ Decide(s) \in {"denied", "auto_approved", "pending"}
           /\ Decide(s) = "denied" <=>
                s = <<>> \/ \E i \in DOMAIN s : s[i].risk = "critical"
           /\ Decide(s) = "auto_approved" <=>
                s # <<>> /\ \A i \in DOMAIN s : RiskScore(s[i].risk) <= RiskScore("low")
<1>1. CASE s = <<>>
  BY <1>1 DEF Decide
<1>2. CASE s # <<>>
  <2>1. PICK m \in DOMAIN s :
          /\ MaxRisk(s) = s[m].risk
          /\ \A j \in DOMAIN s : RiskScore(s[j].risk) <= RiskScore(s[m].risk)
    BY <1>2, MaxRiskIsMax
  <2>2. \A j \in DOMAIN s :
          /\ RiskScore(s[j].risk) \in {0, 10, 20, 30, 40, 50}
          /\ RiskScore(s[j].risk) >= 50 <=> s[j].risk = "critical"
    BY Positions, RiskScoreType
  <2>3. RiskScore("low") = 10 /\ RiskScore("critical") = 50
    BY DEF RiskScore
  <2>4. Decide(s) = IF RiskScore(s[m].risk) >= 50 THEN "denied"
                    ELSE IF RiskScore(s[m].risk) <= 10 THEN "auto_approved"
                    ELSE "pending"
    BY <1>2, <2>1, <2>3 DEF Decide, DenyMinRisk, AutoApproveMaxRisk
  <2>5. RiskScore(s[m].risk) >= 50 <=> \E i \in DOMAIN s : s[i].risk = "critical"
    BY <2>1, <2>2
  <2>6. RiskScore(s[m].risk) <= 10 <=> \A i \in DOMAIN s : RiskScore(s[i].risk) <= 10
    BY <2>1, <2>2
  <2>7. RiskScore(s[m].risk) \in Int
    BY <2>2
  <2>8. QED
    BY <1>2, <2>3, <2>4, <2>5, <2>6, <2>7
<1>3. QED
  BY <1>1, <1>2
=============================================================================
