------------------------------- MODULE WasteSweep -------------------------------
(***************************************************************************)
(* The two ways a case of the anomaly lifecycle starts in production:      *)
(* AWSDocSweepWorkflow (temporal/workflows/awsdoctor_sweep.go), which scans *)
(* account after account and waits for the case of each wasteful one, and  *)
(* `finops trigger` (cmd/cli/main.go), which starts one case with a window. *)
(* Each case is an AnomalyCase.                                            *)
(*                                                                         *)
(* Nothing in the repository starts the sweep yet; the worker registers it *)
(* (cmd/worker-finops/main.go:141) and it is started by hand.              *)
(***************************************************************************)
EXTENDS AnomalyCase

CONSTANTS
    Accounts,       \* the AWS accounts
    AccountLists,   \* the lists a sweep may be started with
    Deltas          \* the daily dollar deltas a case may be triggered with

\* CostAnomaly, as far as a case looks at it, and whether WorkflowInput names a window.
Anomalies == [account : Accounts, delta : Int, percent : Int, windowed : BOOLEAN]

ASSUME SweepAssumption ==
    /\ AccountLists \subseteq Seq(Accounts)
    /\ Deltas \subseteq Int \ {0}
    /\ NoAnomaly \notin Anomalies
    \* A resource is on two lists of a report at most, and estimates are not negative.
    /\ \A report \in Reports : IsFiniteSet(report) /\ \A r \in report :
          /\ r.list \in DOMAIN ResourceType
          /\ r.amount \in Nat
          /\ Cardinality({q.list : q \in {q \in report : q.id = r.id}}) <= 2
    \* An estimate of a resource is the same on both.
    /\ \A report \in Reports : \A q, r \in report : q.id = r.id => q.amount = r.amount

VARIABLES
    pc,         \* "start", "scan", "child", "triggered" or "done"
    accounts,   \* SweepInput.Accounts
    result,     \* SweepResult; accounts_scanned is also the loop's position
    report,     \* the report behind the account's scan
    endpoint    \* FINOPS_KUBECOST_ENDPOINT is set for the worker

sweepVars == <<pc, accounts, result, report, endpoint>>
vars == <<caseVars, sweepVars>>

WasteSavingsThreshold == 10000

\* Without an endpoint the worker asks the stub, which reads the golden fixture: a
\* namespace that went up by 20 dollars and one by 180.
FixtureDeltas == {2000, 18000}
AllocationAnswers == IF endpoint THEN Allocations ELSE {FixtureDeltas}

NoResult == [accounts_scanned |-> 0, waste_anomalies |-> 0, child_workflows_run |-> 0, scan_errors |-> 0]

Init ==
    /\ NoCase
    /\ pc = "start"
    /\ accounts = <<>>
    /\ result = NoResult
    /\ report = {}
    /\ endpoint \in BOOLEAN

StartSweep ==
    /\ pc = "start"
    /\ accounts' \in AccountLists
    /\ pc' = "scan"
    /\ UNCHANGED <<caseVars, result, report, endpoint>>

\* cmdTrigger: the window has a default, the delta is not 0 and may be negative, and
\* no percentage is given.
Trigger ==
    /\ pc = "start"
    /\ \E delta \in Deltas, account \in Accounts :
          StartCase([account |-> account, delta |-> delta, percent |-> 0, windowed |-> TRUE])
    /\ pc' = "triggered"
    /\ UNCHANGED <<accounts, result, report, endpoint>>

-----------------------------------------------------------------------------
(* The loop over the accounts.                                               *)

Scanned == result.accounts_scanned
LoopEndsOneEarly == Scanned >= Len(accounts) - 1
LoopEnds == Scanned = Len(accounts)

\* RunAWSDocWaste, whose savings include those of a resource on two lists twice.
ScanSavings(r) == TotalSavings(MapWasteFindings(r))
IsWasteHalf(savings) == 2 * savings >= WasteSavingsThreshold
IsWaste(savings) == savings >= WasteSavingsThreshold

WasteAnomaly(account, savings) ==
    [account |-> account, delta |-> savings, percent |-> 0, windowed |-> FALSE]

Scan ==
    /\ pc = "scan"
    /\ ~LoopEnds
    /\ \E r \in Reports :
          /\ report' = r
          /\ IF IsWaste(ScanSavings(r))
               THEN /\ result' = [result EXCEPT !.accounts_scanned = @ + 1, !.waste_anomalies = @ + 1]
                    /\ StartCase(WasteAnomaly(accounts[Scanned + 1], ScanSavings(r)))
                    /\ pc' = "child"
               ELSE /\ result' = [result EXCEPT !.accounts_scanned = @ + 1]
                    /\ UNCHANGED <<caseVars, pc>>
    /\ UNCHANGED <<accounts, endpoint>>

ScanFails ==
    /\ pc = "scan"
    /\ ~LoopEnds
    /\ result' = [result EXCEPT !.accounts_scanned = @ + 1, !.scan_errors = @ + 1]
    /\ report' = {}
    /\ UNCHANGED <<caseVars, pc, accounts, endpoint>>

\* The case runs while the sweep, or the one who triggered it, waits.
CaseRuns ==
    /\ pc \in {"child", "triggered"}
    /\ CaseStep(AllocationAnswers)
    /\ UNCHANGED sweepVars

ChildEndsCompleted ==
    /\ pc = "child"
    /\ reason = "completed"
    /\ result' = [result EXCEPT !.child_workflows_run = @ + 1]
    /\ pc' = "scan"
    /\ UNCHANGED <<caseVars, accounts, report, endpoint>>

\* Whatever the reason the child returned for, it was run.
ChildEnds ==
    /\ pc = "child"
    /\ shouldTerminate
    /\ result' = [result EXCEPT !.child_workflows_run = @ + 1]
    /\ pc' = "scan"
    /\ UNCHANGED <<caseVars, accounts, report, endpoint>>

\* The child was terminated, or could not be started.
ChildFails ==
    /\ pc = "child"
    /\ ~shouldTerminate
    /\ pc' = "scan"
    /\ UNCHANGED <<caseVars, accounts, result, report, endpoint>>

SweepReturns ==
    /\ pc = "scan"
    /\ LoopEnds
    /\ pc' = "done"
    /\ UNCHANGED <<caseVars, accounts, result, report, endpoint>>

Next ==
    \/ StartSweep \/ Trigger
    \/ Scan \/ ScanFails \/ CaseRuns \/ ChildEnds \/ ChildFails \/ SweepReturns

Spec == Init /\ [][Next]_vars

(* Fairness: activities and children of the sweep end, as each has a timeout *)
(* and a worker polls finops-anomaly; who triggers or starts owes nothing.   *)
FairSpec == Spec /\ WF_vars(Scan \/ ScanFails \/ CaseRuns \/ ChildEnds \/ SweepReturns)

-----------------------------------------------------------------------------

CaseReasons == {"none", "triage_error", "plan_error", "execution_error", "verify_error", "completed"}

\* Types, and that nobody is ever asked: whatever a source answers, a case in
\* production ends without the gate (planner.go:27-34 assigns low risk only).
TypeOK ==
    /\ anomaly \in Anomalies \cup {NoAnomaly}
    /\ stage \in Sources \cup {"idle", "classified", "failed"}
    /\ category \in Categories \cup {"none"}
    /\ currentPhase \in {"watcher", "triage", "analyst", "executor", "verifier", "completed"}
    /\ approval \in {"pending", "auto_approved"}
    /\ shouldTerminate \in BOOLEAN
    /\ reason \in CaseReasons
    /\ plan \in Seq(RecommendedActions)
    /\ executions \in Seq(Nat)
    /\ recommendation \in {"none", "close", "monitor"}
    /\ pc \in {"start", "scan", "child", "triggered", "done"}
    /\ accounts \in Seq(Accounts)
    /\ result \in [DOMAIN NoResult -> Nat]
    /\ endpoint \in BOOLEAN

\* The class is the first of the nine whose signal the answers hold.  Judged by the
\* whole bill, an earlier class can have been missed only when the bill is longer
\* than a query returns (primitives.go:93-345, query.go:34-42).
FirstClassWithSignal ==
    \A i \in DOMAIN Priority : category = Priority[i] =>
        /\ Signals(anomaly, seen)[Priority[i]]
        /\ \A j \in 1..(i - 1) :
              SignalsOf(anomaly, seen, seen.bill)[Priority[j]] => Len(seen.bill) > CURLimit

\* In a worker without a kubecost endpoint, an anomaly of at most 900 dollars is
\* never put down to deployments or growth, nor left unknown: the 180 dollars of
\* the fixture come first (main.go:83-87, primitives.go:252-283).
FixtureHidesLaterClasses ==
    ~endpoint /\ anomaly # NoAnomaly /\ anomaly.delta <= 5 * Max(FixtureDeltas) =>
        category \notin {"deploy_related", "expected_growth", "unknown"}

\* A reader of a classified case is shown a figure that explains the class by
\* itself, but for the two classes that get the evidence panel: of the waste that
\* decided resource_waste it shows nothing (components.go:40-59, 161-174).
ShownFigureExplains ==
    category \in Categories \ {"resource_waste", "unknown"} =>
        \E n \in ShownFigures(EvidenceComponent(category)) :
            \/ category = "commitment_coverage_drift" /\ n >= 5
            \/ category \in {"deploy_related", "expected_growth"} /\ n > 0
            \/ Material(n, anomaly)

\* A child of the sweep has no window and gets past its triage only to fail in the
\* planner: it never recommends, executes or verifies anything
\* (awsdoctor_sweep.go:94-97, query.go:21-26).
ChildrenStopAtPlan ==
    pc = "child" =>
        /\ reason \in {"none", "triage_error", "plan_error"}
        /\ Build \in {<<"anomaly_summary">>,
                      <<"anomaly_summary", "triage_card", EvidenceComponent(category)>>}

\* The sweep starts a case only for an account that wastes at least half the
\* threshold, a resource being counted once (runner.go:123-155, activities.go:175-178).
CaseForRealWaste ==
    pc = "child" =>
        LET resources == {[id |-> r.id, savings |-> MonthlySavings(r.list, r.amount)] : r \in report}
        IN  2 * TotalSavings(resources) >= WasteSavingsThreshold

\* The result tells what became of the accounts: each is scanned once, and a
\* wasteful one has its case, which was run, is being run or was lost
\* (awsdoctor_sweep.go:53-107).
ResultTellsSweep ==
    /\ result.accounts_scanned <= Len(accounts)
    /\ result.waste_anomalies + result.scan_errors <= result.accounts_scanned
    /\ result.child_workflows_run + (IF pc = "child" THEN 1 ELSE 0) <= result.waste_anomalies
    /\ pc = "done" => result.accounts_scanned = Len(accounts)

View == INSTANCE LifecycleView WITH planned <- plan # <<>>

\* Each case goes through the phases as LifecycleView has them, until the next
\* one begins.
CasesAreLifecycles == [][View!Next \/ currentPhase' = "watcher"]_stateVars

\* A sweep that was started comes to its end, however its scans and its children
\* end, since no child waits for a person (awsdoctor_sweep.go:101).
SweepFinishes == pc = "scan" ~> pc = "done"
=============================================================================
