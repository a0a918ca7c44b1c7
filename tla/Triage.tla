--------------------------------- MODULE Triage ---------------------------------
(***************************************************************************)
(* The classifier of a cost anomaly (internal/triage/primitives.go), one   *)
(* step per source it asks, with what the production connectors make of    *)
(* their answers (connectors/aws, connectors/awsdoctor).                   *)
(*                                                                         *)
(* Money is in cents and coverage in hundredths of a percentage point, so  *)
(* that every comparison of the code is one of integers.  A line item is   *)
(* reduced to what the classifier asks of it, an aws-doctor report to the  *)
(* resources it lists.  Both optional sources are there, as the worker     *)
(* wires them (cmd/worker-finops/main.go:83-91).                           *)
(***************************************************************************)
EXTENDS Integers, Sequences, FiniteSetsExt

CONSTANTS
    Coverages,      \* answers of Cost Explorer: the coverage of each day
    Bills,          \* the line items of a service, dearest first
    CURLimit,       \* how many of them a query returns
    Reports,        \* answers of aws-doctor: sets of listed resources
    Allocations,    \* answers of kubecost: sets of namespace deltas
    Deploys,        \* answers of CodeDeploy: how many deployments
    Usages          \* answers of CloudWatch: averages of last week and today

LineItems == [type : {"credit", "refund", "fee", "usage"}, marketplace : BOOLEAN,
              transfer : BOOLEAN, cost : Int]

ASSUME SourcesAssumption ==
    /\ Coverages \subseteq Seq(Nat)
    /\ Bills \subseteq Seq(LineItems)
    /\ \A bill \in Bills : \A i, j \in DOMAIN bill : i < j => bill[i].cost >= bill[j].cost
    /\ CURLimit \in Nat
    /\ \A deltas \in Allocations : IsFiniteSet(deltas) /\ deltas \subseteq Int
    /\ Deploys \subseteq Nat
    /\ Usages \subseteq [baseline : Nat, current : Nat]

VARIABLES
    stage,      \* the source being asked, "idle" before, "classified" or "failed" after
    seen,       \* what the sources answered so far
    category    \* TriageResult.Category, "none" until the triage returns

triageVars == <<stage, seen, category>>

NothingSeen == [ri |-> <<>>, sp |-> <<>>, bill |-> <<>>, waste |-> {}, namespaces |-> {},
                deploys |-> 0, usage |-> [baseline |-> 0, current |-> 0]]

-----------------------------------------------------------------------------
(* What the connectors make of an answer.                                    *)

\* transformRICoverage, transformSPCoverage: the last day against the first, in
\* percentage points; a day without a figure counts as 0.
CoverageDelta(days) == IF Len(days) < 2 THEN 0 ELSE days[Len(days)] - days[1]

\* ORDER BY cost DESC LIMIT: the cheapest items, which the credits are, go first.
QueryResult(bill) == SubSeq(bill, 1, Min({CURLimit, Len(bill)}))

\* The resource type of each list of a WasteReport.
ResourceType == [
    stopped_instances |-> "EC2", unused_ebs_volumes |-> "EBS", stopped_volumes |-> "EBS",
    orphaned_snapshots |-> "Snapshot", stale_snapshots |-> "Snapshot",
    unused_elastic_ips |-> "ElasticIP", unused_load_balancers |-> "LoadBalancer",
    unused_amis |-> "AMI", unused_key_pairs |-> "KeyPair"]

\* What a resource on this list saves a month; amount is GiB for a volume and what
\* aws-doctor estimated for a snapshot or an AMI.
MonthlySavings(list, amount) ==
    IF ResourceType[list] = "EBS" THEN 8 * amount
    ELSE IF ResourceType[list] \in {"Snapshot", "AMI"} THEN amount
    ELSE IF list = "unused_elastic_ips" THEN 360
    ELSE IF list = "unused_load_balancers" THEN 1620
    ELSE 0

\* One finding for each resource of each list, in no way merged.
MapWasteFindings(report) ==
    {[list |-> r.list, id |-> r.id, savings |-> MonthlySavings(r.list, r.amount)] : r \in report}

TotalSavings(findings) == MapThenSumSet(LAMBDA f : f.savings, findings)

-----------------------------------------------------------------------------
(* The classes and their signals.                                            *)

Priority == <<"commitment_coverage_drift", "credits_refunds_fees", "resource_waste",
              "marketplace", "data_transfer", "k8s_cost_shift", "deploy_related",
              "expected_growth", "unknown">>
Categories == {Priority[i] : i \in DOMAIN Priority}

\* Confidence in hundredths.
Confidence == [
    commitment_coverage_drift |-> 80, credits_refunds_fees |-> 75, resource_waste |-> 85,
    marketplace |-> 80, data_transfer |-> 85, k8s_cost_shift |-> 70, deploy_related |-> 70,
    expected_growth |-> 80, unknown |-> 40]

Magnitude(n) == IF n < 0 THEN -n ELSE n

\* At least a fifth of the anomaly's daily delta, which counts as a dollar at least.
Material(amount, anomaly) == 5 * amount >= Max({anomaly.delta, 100})

CostOf(items, Test(_)) ==
    MapThenSumSet(LAMBDA i : items[i].cost, {i \in DOMAIN items : Test(items[i])})

Credits(items) == CostOf(items, LAMBDA item : item.type = "credit")
Refunds(items) == CostOf(items, LAMBDA item : item.type = "refund")
MarketplaceCharges(items) == CostOf(items, LAMBDA item : item.marketplace)
DataTransfer(items) == CostOf(items, LAMBDA item : item.transfer)

\* |usagePct - costPct| <= 0.15, both sides multiplied by a hundred times the baseline.
GrowsWithUsage(usage, anomaly) ==
    LET growth == usage.current - usage.baseline
    IN  /\ usage.baseline > 0
        /\ growth > 0
        /\ Magnitude(100 * growth - anomaly.percent * usage.baseline) <= 15 * usage.baseline

\* The largest namespace delta, the one a Go map happens to yield last if it were
\* not compared.
ShiftOfLast(deltas) == CHOOSE delta \in deltas : TRUE
LargestShift(deltas) == Max(deltas \cup {0})

\* Whether these items and the other answers s hold the signal of each class.  Fees
\* are summed by the code and not looked at.
SignalsOf(anomaly, s, items) ==
    [commitment_coverage_drift |->
        Magnitude(CoverageDelta(s.ri)) >= 5 \/ Magnitude(CoverageDelta(s.sp)) >= 5,
     credits_refunds_fees |->
        \/ Material(Magnitude(Credits(items)), anomaly)
        \/ Material(Magnitude(Refunds(items)), anomaly),
     resource_waste |-> s.waste # {} /\ Material(TotalSavings(s.waste), anomaly),
     marketplace |-> Material(MarketplaceCharges(items), anomaly),
     data_transfer |-> Material(DataTransfer(items), anomaly),
     k8s_cost_shift |-> s.namespaces # {} /\ Material(LargestShift(s.namespaces), anomaly),
     deploy_related |-> s.deploys > 0,
     expected_growth |-> GrowsWithUsage(s.usage, anomaly),
     unknown |-> TRUE]

Signals(anomaly, s) == SignalsOf(anomaly, s, QueryResult(s.bill))


-----------------------------------------------------------------------------
(* The steps.                                                                *)

Sources == {"ri", "sp", "bill", "waste", "namespaces", "deploys", "usage"}

StartTriage == stage' = "ri" /\ seen' = NothingSeen /\ category' = "none"

\* The source answered: the classes of these positions are tried in turn, and the
\* next source is asked if none of them is it.
TryLast(anomaly, s, tried, next) ==
    LET found == {i \in tried : Signals(anomaly, s)[Priority[i]]}
    IN  /\ seen' = s
        /\ IF found # {} THEN category' = Priority[Max(found)] /\ stage' = "classified"
           ELSE stage' = next /\ UNCHANGED category
Try(anomaly, s, tried, next) ==
    LET found == {i \in tried : Signals(anomaly, s)[Priority[i]]}
    IN  /\ seen' = s
        /\ IF found # {} THEN category' = Priority[Min(found)] /\ stage' = "classified"
           ELSE stage' = next /\ UNCHANGED category

GetRICoverage(anomaly) ==
    /\ stage = "ri"
    /\ \E days \in Coverages : Try(anomaly, [seen EXCEPT !.ri = days], {}, "sp")

GetSPCoverage(anomaly) ==
    /\ stage = "sp"
    /\ \E days \in Coverages : Try(anomaly, [seen EXCEPT !.sp = days], {1}, "bill")

GetCURLineItems(anomaly) ==
    /\ stage = "bill"
    /\ \E bill \in Bills : Try(anomaly, [seen EXCEPT !.bill = bill], {2}, "waste")

Waste(anomaly) ==
    /\ stage = "waste"
    /\ \E report \in Reports :
          Try(anomaly, [seen EXCEPT !.waste = MapWasteFindings(report)], 3..5, "namespaces")

Allocation(anomaly, answers) ==
    /\ stage = "namespaces"
    /\ \E deltas \in answers : Try(anomaly, [seen EXCEPT !.namespaces = deltas], {6}, "deploys")

RecentDeploys(anomaly) ==
    /\ stage = "deploys"
    /\ \E n \in Deploys : Try(anomaly, [seen EXCEPT !.deploys = n], {7}, "usage")

CloudWatchMetrics(anomaly) ==
    /\ stage = "usage"
    /\ \E usage \in Usages : Try(anomaly, [seen EXCEPT !.usage = usage], {8, 9}, "classified")

\* A source that fails ends the triage with its error, whatever was seen before.
SourceFails ==
    /\ stage \in Sources
    /\ stage' = "failed"
    /\ UNCHANGED <<seen, category>>

TriageStep(anomaly, allocations) ==
    \/ GetRICoverage(anomaly) \/ GetSPCoverage(anomaly) \/ GetCURLineItems(anomaly)
    \/ Waste(anomaly) \/ Allocation(anomaly, allocations)
    \/ RecentDeploys(anomaly) \/ CloudWatchMetrics(anomaly)
    \/ SourceFails
=============================================================================
