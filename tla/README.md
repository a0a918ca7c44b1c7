# Verification of the FinOps anomaly lifecycle

TLA+ models, TLC configurations and TLAPS proofs for `finops-go`: a Temporal
workflow that takes a cloud cost anomaly, classifies it, plans actions, asks a
policy and if need be a human, carries the actions out and verifies the effect;
the sweep that starts it for wasteful accounts; the worker process that runs its
activities; and the command line, tools, API server and web page through which
people watch it and answer.
Paths below are relative to `src/finops-go/` unless they begin with `src/`.

1. [The system](#1-the-system)
2. [The modules and the code](#2-the-modules-and-the-code)
3. [The runs](#3-the-runs)
4. [Fairness](#4-fairness)
5. [What is proved](#5-what-is-proved)
6. [Disagreements between the code and its words](#6-disagreements-between-the-code-and-its-words)
7. [What is not modelled](#7-what-is-not-modelled)
8. [Plan](#8-plan)

To check: `tlc -workers 2 -config X.cfg M`, with `X` and `M` from the table of
section 3, and `tlapm M.tla` for `FoldTheorems` and the seven modules whose names end in `Proofs`.

## 1. The system

| Component | Code | State it keeps | Operations | Interacts with |
|---|---|---|---|---|
| Anomaly lifecycle | `internal/temporal/workflows/anomaly_lifecycle.go` | `FinOpsState` (phase, approval, analysis, executions, shouldTerminate), `responded`/`result`/timer of the gate | the workflow function, the `state` Query, the `approval` Update | awaits four activities; Updates and Queries come in |
| Policy engine | `internal/policy/engine.go`, `internal/domain/enums.go` | none | `MaxRisk`, `Decide`, `EnforceExecutorSafety` | called by the workflow and by the executor |
| Activities | `internal/temporal/activities/activities.go` | clients, an optional budget | `TriageAnomaly`, `PlanActions`, `ExecuteActions`, `VerifyOutcome`, `RunAWSDocWaste` | Temporal dispatches them; they call AWS |
| Executor | `internal/executor/executor.go` | none | `ExecuteActions`, `Snapshot` | called by the activity; reads tags |
| Triage | `internal/triage/primitives.go` | the evidence of one call | `Triage`, nine classes over seven sources | called by the activity; asks the connectors |
| Planner, verifier | `internal/analysis/planner.go`, `internal/verifier/health.go` | none | `AnalyzeAndRecommend`, `Verify` | called by activities |
| Connectors | `internal/connectors/...` | none (Athena: a running query) | reads of AWS, kubecost, aws-doctor, and what becomes of the answers | AWS and others |
| Waste sweep | `internal/temporal/workflows/awsdoctor_sweep.go` | `SweepResult` | the loop over accounts | starts lifecycles as children |
| Activity budget | `internal/ratelimit/budget.go` | a counter and window per tenant and activity | `Check`, `Record` | every activity, concurrently |
| Tenant sessions | `internal/connectors/aws/tenant_auth.go` | a cache of configs with expiry | `ForTenant` | every activity, concurrently |
| Task queues, worker | `internal/temporal/queues`, `cmd/worker-finops`, `internal/config` | the workers of the process | `LoadFromEnv`, `ParseQueues`, start, end | Temporal, the operating system |
| Approval surfaces | `cmd/cli`, `internal/mcpserver`, `internal/api/handlers.go` | none | trigger, approve, deny | send Updates through the querier |
| Querier | `internal/temporal/querier/querier.go` | none | `GetWorkflowState`, `SubmitApproval`, lists | the surfaces on one side, Temporal on the other |
| State stream | `internal/agui/stream.go`, `internal/api/middleware.go`, `server.go` | `lastPhase` of each connection | one response of server-sent events | polls the querier, feeds the page |
| UI schema | `internal/uischema` | none | `Build` | stream and `GET .../ui` |
| Web page | `web/src/hooks`, `web/src/lib/api.ts`, `web/src/app/workflows/[id]/page.tsx` | loaded result and schema, `StreamState`, the EventSource | load, handle an event, approve, deny, reload | API |

What is hard about it:

* **The gate.** Several people answer by different surfaces, before, during and
  after the 24-hour wait; the validator, the handler, the timer's callback and the
  loop run as coroutines of one workflow task in an order the SDK decides.
* **The executor outlives its caller.** `ExecuteActions` never looks at its
  context. Two minutes after it started the workflow has returned
  `execution_error` and says so, while the run may still carry actions out; a
  crash leaves a prefix carried out that nobody reports.
* **Tags are read at one time and used at another**, up to 24 hours after the plan.
* **The rollout of `exec-queue-routing`** meets workflows in every phase.
* **Reading is not atomic.** `GetWorkflowState` is two calls, the stream polls, the
  response may end at any point, the browser reconnects by itself.
* **Tables with a default.** A risk level the table lacks scores 0.
* **An order of tests.** The class of an anomaly is the first of nine that shows a
  signal, over answers that are cut, summed and compared on the way.
* **Activities share memory.** Up to ten of them run in one process. They check and count
  against one budget in two separate critical sections, and refresh one cache of
  configs outside its lock; windows, sessions and polls end meanwhile, and so may the process.
* **Asking is not answering.** An approval that was sent may arrive after its sender
  gave up, or its answer be lost; people ask again, and from pages loaded long before,
  whose state, schema and stream were each read at a time of its own.

What makes each correct: nothing is carried out without consent, nor on a
resource that stayed protected; nothing twice, nor out of order; one answer
counts and is kept to; the result tells what was done; every anomaly is brought
to an end; a reader sees the phases in order and learns of the end; a person who
answers is told the truth about it; a class is the one the evidence supports first;
a sweep gets through its accounts and counts right; a budget is overrun by no more
than the calls under way, and nobody is handed another's credentials from the cache. Section 3
names the property of each. `PROJECT.json` lists every hazard at its line.

## 2. The modules and the code

```
PolicyEngine  <--EXTENDS--  RiskScan  <--  MCRiskScan
     ^                         ^------------ RiskScanProofs
     |                                          |
     +--EXTENDS-- PolicyEngineProofs <----------+
     |
     +--EXTENDS-- AnomalyLifecycle  <--  MCAnomalyLifecycle
                     |      ^------------ AnomalyLifecycleProofs
                     |      ^
                     |      +--EXTENDS-- ApprovalSurfaces  <--  MCApprovalSurfaces
                     |                        ^------------ ApprovalSurfacesProofs
                     |                                  (and AnomalyLifecycleProofs)
                     +--INSTANCE--> GatedExecution   (what it promises)
                     +--INSTANCE--> LifecycleView    (what it shows)
                                       ^      ^
                 StateStream --INSTANCE       INSTANCE-- WasteSweep

Triage, PolicyEngine  <--EXTENDS--  AnomalyCase  <--  WasteSweep  <--  MCWasteSweep
                                                          ^------------ WasteSweepProofs
ActivityCalls  <--EXTENDS--  WorkerProcess  <--  MCWorkerProcess
                                  ^------------ WorkerProcessProofs
StateStream  <--EXTENDS--  StateStreamProofs

FoldTheorems  <--EXTENDS--  WorkerProcessProofs, WasteSweepProofs
```

**PolicyEngine** gives the policy as functions: the risk table (`RiskScore`, with
the 0 of a missing key), `MaxRisk` (the first action of the highest score),
`Decide` and `EnforceExecutorSafety`. An action is its risk level and its target;
the wording of `Details` and which of its errors the gate returns are left out.

**RiskScan** is the loop of `MaxRisk` under `Decide`, one step per turn, on any list
of `Inputs`. The functions above say what is returned, this module how.

**AnomalyLifecycle** is the workflow with everything it runs against. One step is
one *workflow task*: the event that caused it (an activity that came back, an
Update, a timer) and all the workflow code does until it blocks again.

| Code | Action or variable |
|---|---|
| `state.*` of `FinOpsState`, `WorkflowResult.Reason` | `currentPhase`, `approval`, `analysis`, `executions`, `shouldTerminate`, `reason` |
| the check of the input and the call of triage (89-107) | `Watch` |
| an error of an awaited activity (108, 136, 213, 234) | `ActivityFails`, `RunFails`, `ExecuteTimesOut`, with `FailAttempt` for the retry policy |
| triage to planner, planner to policy to gate or executor | `TriageReturns`, `PlanReturns` |
| `waitForApproval`: validator, handler, selector, callback (250-310) | `HandlerRegistered`, `AcceptsUpdate`, `SubmitApproval`, `TimerFires`, `SelectReady`, `TimerCallback`, `LeaveGate` |
| `GetVersion` and the choice of the queue (199-206) | `ExecQueue`, with `deployed` and `Deploy` for the rollout |
| `Activities.ExecuteActions` and `Executor.ExecuteActions` | a *run* in `runs[attempt]`: `ResolveInfra`, `FetchTags`, `TagsFetched`, `PassGate`, `PerformAction`, `RunFails`, `RunReturns`, `WorkerCrash` |
| Temporal server | `task`, `PollTask`, `FailAttempt`, `TimerFires`, `ExecuteTimesOut` |
| the people, the owners of resources | `reply` and `SubmitApproval`, `tags` and `Retag` |

`ExecuteActions` is taken apart because its steps interleave with everything else;
the other three activities change nothing outside themselves and are their
outcomes here; what they compute is in `AnomalyCase`, how they share a process in
`ActivityCalls`. `performed` lists what was really carried out and belongs to no
program variable. The code before `exec-queue-routing` is not in the repository;
it is modelled by the `DefaultVersion` branch of the code that is. `exposed` (in
`runs`) is a history variable: the resources seen unprotected at some moment since
the run began.

A restart of the *workflow* worker is a replay and changes nothing the model
keeps. (It does change `WorkflowID` and `StartedAt` of `FinOpsState`, which
`NewFinOpsState` draws from a UUID and the clock inside workflow code; listed as a
hazard.) A crash of an *activity* worker is modelled.

**GatedExecution** is the abstract promise to the account's owner: one decision,
never taken back; actions only after it fell in favour, each once and in order; a
case closed without consent stays closed. There are no phases, queues or timers in
it. `AnomalyLifecycle!ImplementsGatedExecution` maps `approval` to the decision and
the executor's input to the plan. Note that `Perform` is allowed after `closed`:
that is what the code does (see section 1), and a promise without it would be false.

**LifecycleView** is the lifecycle as a reader of its state sees it: five fields, nine
actions. `AnomalyLifecycle!ShowsLifecycle` says that the lifecycle implements it, and
`StateStream` runs against it instead of the full workflow: the usual composition
through an abstract specification, without which the product would be out of reach.

**StateStream** composes the view with the querier, the stream handler, the network
and the page. `pc`, `described` and `lastPhase` are the handler's; `sent` is the
response as the list of its events and `delivered` how far the page has read it;
`es` is the EventSource and `stream` the `StreamState` of `useAGUIStream`; `load` and
`result` belong to `useWorkflowState`. `Describe` and `Fetch` are the two calls of
`GetWorkflowState`, so that the workflow can return between them. `Fetch` is a whole
turn of the poll loop after the answer: the events of the phase, RUN_FINISHED, and
the new `lastPhase`. `RefuseStream` is what happens behind the logging middleware,
whose wrapper hides the Flusher; `flushable`
says which of the two wirings the server has.

**Triage** is `Triage()` with one step per source it asks. Money is in cents and
coverage in hundredths of a percentage point, which makes every comparison of the
code one of integers. What the connectors do to an answer before the classifier sees
it is part of it: coverage as last day less first (`CoverageDelta`), the bill cut to
its dearest items (`QueryResult`), a waste report as findings with their savings
(`MapWasteFindings`). `Signals` states each class by its condition; `Try` asks the
classes a source decides, in their order.

**AnomalyCase** is one lifecycle on this data: triage, the planner's only plan, the
policy, the verifier's comparison, and the UI schema of the case (`Build`,
`EvidenceComponent`, `ShownFigures`). Each activity of the workflow after triage is one
step that succeeds or fails. The gate has nobody at it because no plan in production
needs one: `TypeOK` says so.

**WasteSweep** starts cases the two ways the program has: `AWSDocSweepWorkflow`, whose
loop it models with its counters, and `finops trigger`. `result.accounts_scanned` is the
loop's position as well, as in the code. It refines `LifecycleView` for each case
(`CasesAreLifecycles`).

**ActivityCalls** is what the activities of one process do before they have their
answer, one step per lock, call or wait: `Check`, `Record` (budget), `ResolveOwn`,
`ResolveCached`, `ResolveAnew`, `StoreConfig` (tenant client), `StartQuery`, `QueryEnds`,
`PollTimesOut` (Athena). `slot[s]` is the call a slot is busy with, `counts` and `cache` are
the maps of the two Go types. A config is a tenant, a role and a region; the cache holds
whole configs under `Key`, and `ResolveCached` hands out whatever is there. Deadlines are kept as the time left, in whole units;
`Tick` takes one off each, so there is no clock to bound. `recent` is a history
variable: the calls recorded in the last window's length.

**WorkerProcess** puts these calls into `main` of the worker: the environment it
refuses, `ParseQueues`, one worker per queue, signals, workers that fail, the exit
status, a crash, and another start with nothing in memory.

**ApprovalSurfaces** extends the lifecycle by the people in front of it. `call[c]` is one
request with what its sender had before it and was told after it; `page[c]` is what a
page was sent: the state, the schema and the last streamed schema, each of its own time. `Command`, `Tool` and `HandleApprovalAction` check their forms and send;
`OpenPage` sends the two requests of the web page, `GetWorkflow` and `GetWorkflowUI` answer
them in either order, `StreamSnapshot` is the stream's beginning, and `Click` one of the buttons; `Deliver` is the Update's arrival at the
workflow (`SubmitApproval` of the lifecycle), `Answer` the way back, and `CutOff` a caller that
hears neither. Someone who asks again is another caller, which is all the workflow
can know.

The definitions whose names say that they do something slightly wrong
(`DispatchFromZero`, `ReturnUnmarked`, `RememberPhaseOnce`, ...) are changed forms
of the definition after them. They belong to no specification: each property of a passing
run is broken by putting one of them in place (`PROJECT.json`, "mutants").

## 3. The runs

| Run | Module, configuration | Properties | Shows |
|---|---|---|---|
| lifecycle | `MCAnomalyLifecycle`, `AnomalyLifecycle.cfg` | `TypeOK`, `ConsentBeforeExecution`, `ProtectionHonoured`, `OnceInOrder`, `AnswerHonoured`, `ResultTellsEffects`, `ImplementsGatedExecution`, `ShowsLifecycle` | the safety of the lifecycle (63,401 states) |
| live | `MCApprovalSurfaces`, `SurfacesLive.cfg` | `EventuallyReturns`, `EveryCallAnswered` | every anomaly is brought to an end and every call comes back (87,000 states) |
| risk_scan | `MCRiskScan`, `RiskScan.cfg` | `TypeOK`, `ScanFindsMaxRisk`, `DecisionByWorstAction` | the loop returns what the function says and the decision does not depend on order |
| state_stream | `StateStream`, `StateStream.cfg` | `TypeOK`, `WellFormedResponse`, `PhaseNeverBack`, `LearnsOfReturn` | the stream and the page (424,951 states) |
| late_gate, inflight_queue, tag_race | `MCAnomalyLifecycle` | one each | section 6 |
| waste_sweep | `MCWasteSweep`, `WasteSweep.cfg` | `TypeOK`, `FirstClassWithSignal`, `FixtureHidesLaterClasses`, `ShownFigureExplains`, `ChildrenStopAtPlan`, `CaseForRealWaste`, `ResultTellsSweep`, `CasesAreLifecycles`, `SweepFinishes` | what becomes of an anomaly on real answers, and of a sweep (271,030 states) |
| worker | `MCWorkerProcess`, `WorkerProcess.cfg` | `TypeOK`, `OneWorkerPerQueue`, `StatusTellsWorkers`, `BudgetOverrun`, `TwoWindowsAtMost`, `ConfigOfCaller`, `GivesUpUnheard`, `SlotsComeFree` | what concurrent activities share, over starts and ends of the process (194,303 states) |
| surfaces | `MCApprovalSurfaces`, `ApprovalSurfaces.cfg` | `SurfacesTypeOK`, `ToldIsTrue`, `ConsentTraced`, `PageDecidesPlanOfItsTime`, `LateAskNeverCounts` | people and the gate, over a network (438,894 states) |
| stream_refused, stale_schema | `StateStream` | one each | section 6 |

The properties in words:

* `ConsentBeforeExecution`: if anything was carried out, the plan holds no critical
  action, and every action is low-risk or a caller was told "approved", and no
  caller was told "denied".
* `ProtectionHonoured`: a resource that carried a protective tag when a worker took
  the execution up and kept one is left alone. (A stronger reading is false:
  `NeverOnProtected`.)
* `OnceInOrder`: what was carried out is a prefix of the plan, whatever timed out.
* `AnswerHonoured`: at most one caller is told its answer counts; once the gate is
  left the workflow has gone by it. Neither the timer nor a second answer undoes it.
* `ResultTellsEffects`: every result but `execution_error` lists exactly what was done.
* `WellFormedResponse`: the grammar of a response, with each left phase the one told
  last and each entered one later and reached; RUN_FINISHED only for a workflow
  that returned and with its reason or, after a race with `Describe`, none.
* `PhaseNeverBack`: over any number of responses the page never shows an earlier phase.
* `LearnsOfReturn`: a page that stays open, and was not refused the stream, learns of the return.
* `FirstClassWithSignal`: the class has its signal, and no class before it has one, but
  for signals that were in the part of the bill the query cut off.
* `FixtureHidesLaterClasses`: in a worker without a kubecost endpoint the 180 dollars of the
  test fixture come before deployments, growth and unknown.
* `ShownFigureExplains`: the component a class is shown with holds a figure that
  decides for the class by itself.
* `ChildrenStopAtPlan`: a child of the sweep never gets past the planner.
* `CaseForRealWaste`: counting each resource once, the account wastes at least half the threshold.
* `ResultTellsSweep`: the four counters agree with each other and with where the loop is.
* `CasesAreLifecycles`, `SweepFinishes`: each case implements `LifecycleView`; a started sweep ends.
* `OneWorkerPerQueue`, `StatusTellsWorkers`: `ParseQueues` names each queue once and none is
  lost; the exit status is "ok" only if every worker was told to stop and did.
* `BudgetOverrun`: a window never holds more than the budget and one call of every *other*
  slot. `TwoWindowsAtMost`: no period as long as a window holds more than twice that.
* `ConfigOfCaller`: what was stored under a key and is handed out is of the caller's tenant
  and role, changed to the region it names; a call that names none works in the base region or
  in one that a call of its own tenant and role named. A key that forgets the role breaks it.
* `GivesUpUnheard`: a poll that times out does so when the workflow no longer
  waits. `SlotsComeFree`: even if Athena never answers, the slot comes free.
* `ToldIsTrue`: a verdict someone is told is the one asked for and gone by; an error
  means "did not count", unless the caller was cut off.
* `ConsentTraced`: a carried-out plan of more than low risk goes back to exactly one
  call, whose caller asked to approve and was told so, is about to be, or was cut off.
* `PageDecidesPlanOfItsTime`: an answer from a page that counts was asked for when the plan it
  decides was there; if the page showed a plan, it was this one. That the page showed one is
  *not* so: see "Buttons without a plan" in section 6.
* `LateAskNeverCounts`: who asks after the workflow returned is told no verdict.
* `EveryCallAnswered`: nobody waits for ever for the outcome of a request.

Bounds, and why they are enough:

* *Plans*: six lists for the lifecycle, one for every way through the policy and the
  executor: empty; low risk twice on one resource; medium risk over two resources;
  no target; critical hidden behind low; unvalidated level. Two actions are the fewest that
  tell a prefix from the whole and the first from the last.
* *Resources*: two, so that one can be protected and the other not; *tags*: three
  sets, so that both protective tags occur and a change can keep protection.
* *Approvers*: three callers (two where the property needs no third) with every
  combination of answer and empty name: one accepted, one in conflict, one late.
  They are interchangeable and a symmetry set in the safety run.
* *Attempts* follow from the retry policy of the code, 1.
* *RiskScan*: all 259 lists of at most three actions over six levels: the highest can
  be first, in the middle, last, or there twice.
* *StateStream*: two faults among failed reads, broken connections and reloads (one
  after the other); reconnection by itself and the cut at `MaxDuration` are not counted and
  happen any number of times.
* *WasteSweep*: two accounts, so that one can be skipped and the other not; each list of
  answers holds a value on each side of the comparison it is for, and one at it (a
  drift of 0.04 and 0.05 points, savings of 99.98, 99.92 and 100 dollars, growth of 15 and 16 per
  cent); `CURLimit` is 2 and one bill has three items, the cut one its credit; a
  volume and two snapshots are on two lists or one.
* *Worker*: two slots, the fewest that can overtake each other between `Check` and
  `Record` or on two refreshes; one tenant, which asks without a role, with one role in two regions and none named, and with
  another role, so that the cache has two entries that differ in one part of their key and one of them is
  stored and read for different regions (that keys of two *tenants* differ too is `KeysApart`,
  which `ConfigTheorem` rests on); a list of two queues that serves none of these calls and one of
  blanks that does; a budget of one call and windows, sessions and polls of one or two
  units, so that each ends while others go on. Poll and activity timeout are equal, as
  in the code (both are 2 minutes).
* *Surfaces*: two callers, for a conflict, a repeated request or a late one; a plan
  nobody is asked about, one somebody is, and none. Each page may be opened, read and streamed to
  any number of times. The callers are interchangeable and a symmetry set in the safety run; the
  live run, without symmetry, has one, and the resources, tags and plans for every way to the end.

Deadlock is checked but for the runs of `RiskScan`, `StateStream`, `WasteSweep`, `WorkerProcess` and
`ApprovalSurfaces`, which really stop: the loop when it is done, the page when its EventSource is
closed, the sweep and the triggered case at their end, the process when nobody starts
it again, the surfaces when everyone has asked and the workflow has returned. (In
`AnomalyLifecycle` the workflow ends too, but tags may change for ever.)

## 4. Fairness

`AnomalyLifecycle!Fairness` is weak fairness of workflow tasks (`Watch`, `LeaveGate`),
of timers, of `PollTask` and of `ActivityEnds`: the Temporal server delivers tasks and
fires timers, some worker polls every queue of `PolledQueues`, and an attempt that
neither reports nor fails is ended by `StartToCloseTimeout`. No
ScheduleToStart timeout is set in the code, so nothing helps a task on a queue
nobody polls; the live run gives both queues a worker, which the default
`FINOPS_WORKER_QUEUES` does *not* do (hazard at `registry.go:54`, which `EventuallyReturns` therefore
does not cover: with one queue polled, nothing in the code bounds the wait, and
`docs/deployment.md:101` asks the operator to start workers for all). Nothing is assumed of
people, of a run that could report in time, of tags or of the rollout.

`StateStream!Fairness` is weak fairness of the handler (a goroutine that can go on)
and of the browser, which opens, reads and reopens connections. Whether a tick
comes before the deadline is not assumed. The load of the page, the workflow,
the operator and the faults owe nothing. Of the actions each of the two stands for only one is enabled at
a time, except that a read may also fail, which faults bound.

`WasteSweep!FairSpec`: a scan, an activity and a child come to an end, one way or the
other, because each activity has a timeout and one attempt, and a worker polls
`finops-anomaly`, where all of them run. Nobody need start anything. The sources may fail
or answer as they like. That a child ends needs that nobody is waited for at its
gate, which `TypeOK` and `ChildrenStopAtPlan` establish.

`WorkerProcess!FairSpec`: time passes, and the goroutine of a call gets its turn while
the process runs. Athena owes no answer: that the slot comes free is due to the poll's own
deadline. Nobody need start, stop or spare the process.

`ApprovalSurfaces!FairSurfacesSpec` adds to `AnomalyLifecycle!Fairness` that a request that was sent reaches the
workflow, and its outcome the caller, if the caller is not cut off, which is then what it is told.
An Update is handled or rejected in any phase.

## 5. What is proved

Every invariant and every action property of section 3, for every value of the
constants (any resources, plans, tags, callers, queues, slots, budgets, bills, reports, accounts):

| Module | Theorem | Says |
|---|---|---|
| `PolicyEngineProofs` | `MaxRiskIsMax`, `DecideByWorstAction` | what `MaxRisk` and `Decide` return, for lists of every length |
| `RiskScanProofs` | `ScanTypeCorrect`, `ScanCorrect`, `ScanDecides` | `[]TypeOK`; the loop returns `MaxRisk`: `[]ScanFindsMaxRisk`; `[]DecisionByWorstAction` |
| `AnomalyLifecycleProofs` | `TypeCorrect` | `[]TypeOK` |
| | `Invariance` | `[]IInv`, the inductive invariant |
| | `ConsentTheorem`, `ProtectionTheorem`, `OnceInOrderTheorem`, `AnswerTheorem`, `ResultTheorem` | the five safety properties of the lifecycle |
| | `Refinement`, `ViewRefinement` | `Spec => ImplementsGatedExecution`, `Spec => ShowsLifecycle` |
| `ApprovalSurfacesProofs` | `SurfacesTypeCorrect` | `[]SurfacesTypeOK` |
| | `SurfacesRunLifecycle` | `SurfacesSpec => Spec`, hence all of the above for it |
| | `ToldIsTrueTheorem`, `ConsentTracedTheorem`, `PageTheorem`, `LateAskTheorem` | `[]ToldIsTrue`, `[]ConsentTraced`, `[]PageDecidesPlanOfItsTime`, `[]LateAskNeverCounts` |
| `StateStreamProofs` | `TypeTheorem`, `ResponseTheorem` | `[]TypeOK`, `[]WellFormedResponse` |
| | `PhaseTheorem` | `PhaseNeverBack`, an action property |
| `WorkerProcessProofs` | `TypeTheorem` | `[]TypeOK` |
| | `BudgetTheorem`, `TwoWindowsTheorem` | `[]BudgetOverrun`, `[]TwoWindowsAtMost` |
| | `ConfigTheorem`, `UnheardTheorem` | `[]ConfigOfCaller`, `[]GivesUpUnheard` |
| | `WorkersTheorem`, `StatusTheorem` | `[]OneWorkerPerQueue`, `[]StatusTellsWorkers` |
| `WasteSweepProofs` | `TypeTheorem`, `ResultTheorem` | `[]TypeOK`, `[]ResultTellsSweep` |
| | `RealWasteTheorem`, `ChildrenTheorem` | `[]CaseForRealWaste`, `[]ChildrenStopAtPlan` |
| | `ClassTheorem`, `FixtureTheorem`, `FigureTheorem` | `[]FirstClassWithSignal`, `[]FixtureHidesLaterClasses`, `[]ShownFigureExplains` |
| | `LifecyclesTheorem` | `CasesAreLifecycles`, an action property |

Theorems that share a name are of different modules, about the specification of each.

Assumptions, all of which TLC evaluates in its runs:

* `NoTargetAssumption` (the empty target is no resource), `InputsAssumption` and
  `LifecycleAssumption` (plans are sequences of actions, tag sets are of protective
  tags, queues are the two the code names), `StreamAssumption`.
* `CallsAssumption`: finitely many slots; the lengths are whole numbers of at least one
  unit; a config is refreshed before its session ends; a poll gives up no earlier than
  the activity does, as the two constants of the code have it. A tenant's id is a sequence of
  the parts between its separators and a role's name is one part: `cacheKey` joins
  the two with `|`, so a key has the role last only if no role's name holds one. IAM allows
  no `|` in a name; the pattern of `ValidateRoleARN` would let it pass.
* `ProcessAssumption`: the queue list is a list of strings.
* `SourcesAssumption`, `SweepAssumption`: the types of the answers; reports and
  allocation answers are finite; each list of a report is one `MapWasteFindings` reads;
  a resource is on two of them at most with one estimate, none negative, which is what
  the orphaned and the stale snapshots, or the unused and the stopped volumes, can do.

### The lifecycle

None of the safety properties is inductive: whether an action may be
carried out depends on a decision taken many steps earlier, on tags read in
between and on where a run is that the workflow no longer listens to. `IInv` has a layer for each:

1. `TypeOK`.
2. `PhaseInv`: phase, awaited activity, approval and reason agree; what the executor
   was handed is the plan and the decision, and the decision is that of `Decide`.
3. `GateInv`: `responded` and `hilResult` hold the one verdict some caller was given, and the
   workflow still waits or went by it.
4. `RunInv` with `OnceInOrder`: where the run is determines what was carried out;
   nothing before the loop, and in the loop exactly the positions passed.
5. `TagInv`: in each stage of the run, a target it does not know to be protected was
   seen without protection. The layer grows along the tag reads and is handed to
   the loop by the gate.

Each layer is preserved given the earlier ones (`TypeStep`, `PhaseStep`, `GateStep`, `RunStep`,
`TagStep`, one case per action) and the theorems follow from their conjunction. Both refinements
take the non-temporal facts from `IInv`.

### The surfaces

Each step of `SurfacesSpec` is a step of the lifecycle or
leaves its variables alone, so `IInv` holds there too. `SurfacesIInv` adds:

1. `PlanKnown`: an analysis is a plan that was handed in.
2. `TruthInv`, on how far a call is: before it was handled the workflow has no reply for
   it; once it was, its reply is a rejection or the verdict that was asked for; and what the
   caller was told is what `Tell` makes of that reply. `GateInv` says what became of the verdict.
3. `AskInv`: a schema that a page has, loaded or streamed, has no plan or the one there is
   (`PlanOrNone`), and so has a call; a page that loaded a pending state is of a workflow with a
   plan or one that returned without (`Decidable`), and so is a call from it; one that was
   sent after the return finds the workflow returned for good. No two reads are related to each
   other: each is related to the workflow as it is now, to which neither a plan comes anew nor a
   return is undone (`ShownStays`). The last needs that a return is never undone, which is a step of the refinement
   of `LifecycleView` (`ReturnStays`): the abstract specification does part of the proof.

`ConsentTraced` follows from `ConsentTheorem`'s invariant (somebody was given "approved"),
`AnswerHonoured` (nobody else was given a verdict) and `TruthInv` (that somebody asked for it).

### The state stream

That the phase shown never goes back is not inductive, because the page
lags behind the response, and the response behind the workflow. `IInv` orders the four
ranks from left to right: shown, yet to be delivered (`PageBehind`), told (`PhasesInOrder`),
reached. `HandlerInv` ties `lastPhase` to the last event as long as the handler goes on,
which is what makes the next pair of step events fit the grammar. The workflow's side is
that of `LifecycleView`: its phases only go forward.

### The worker

`CallsInv` is an invariant of each slot by itself (`SlotInv`): what a call
holds where it is, whatever the others did to the cache; and one of the cache (`CacheInv`):
what is stored under the key of a request is of that tenant and role. A store keeps it for every
*other* request because keys of two tenants, or of two roles, are different (`KeysApart`), which is the fact about
`cacheKey` that `ConfigOfCaller` rests on. The budget is an
inductive invariant on its own (each call between `Check` and `Record` was let through
below the limit, and so was the last of them), but counting a window needs sums over sets of slots and of ages.
`WindowInv` says how the sum over the last window's length divides: all calls since the
window began are counted in it, and those before it are no more than one window holds;
`Tick` moves the border. `ParseQueues` is a fold over a list of any length: `WorkersTheorem`
rests on what holds of each prefix of it.

### The sweep and its cases

`TriageInv` says what has been tried when a source is asked: no class up to
`Tried[stage]` has a signal in the answers so far, and later answers do not change that
(`SameSignals`), because each signal depends on the answers of its own source alone. Hence
the class found is the first (`ClassIsFirst`), from which the three properties of a class follow:
`QueryResult` leaves a short bill as it is, the fixture has the signal of position 6 and so
nothing after it can be a class, and what a class was decided by is shown (`SignalAt`). For `ShownFigureExplains`
one more fact is needed, that the largest of no deltas, 0, is never a fifth of anything.

`ChildInv` has a child's window and its report. `CaseForRealWaste` follows from a fact
about reports alone: the map from findings to resources takes at most two findings to
one resource, so the total is at most twice the total over its image (`CountedTwiceAtMost`).
`SweepInv` is `ResultTellsSweep` and that nothing is counted before the start, without
which `StartSweep` would put an old result against a new list.

### Induction

`FoldTheorems` has what the last two need: sums over finite sets (`SumOver`)
and how they change with one member, and the largest and least of a set. The
induction theorems of the library take an operator as a parameter, which the
provers at hand cannot instantiate. `NumberInduction` and `PartInduction` state induction with the *set* `U`
of the numbers, or of the parts of a finite set, for which the claim holds;
`FoldExists` shows that a fold over a finite set has a value, `SumsAgree` that the value
does not depend on how the members are picked. So `MapThenSumSet` and `FoldLeft` of the
community modules, which the models use, can be reasoned about for inputs of every size.

### What is only model-checked

Liveness: `EventuallyReturns`, `LearnsOfReturn`, `SweepFinishes`, `SlotsComeFree` and
`EveryCallAnswered`. They rest on fairness, whose ENABLED the prover cannot reduce. And the
counterexamples of section 6, of course.

## 6. Disagreements between the code and its words

Five runs end in a violation that TLC finds in what the code does.

* **late_gate** (`WaitEndsOnResponse`). The loop at `anomaly_lifecycle.go:302` waits in
  `selector.Select`, whose only case is the 24-hour timer. An accepted answer wakes nothing: an
  approved plan is carried out when the timer fires. The comments say that the handler ends the wait.
  (What the answer says is still honoured: `AnswerHonoured` holds.)
* **inflight_queue** (`InFlightKeepsOldQueue`). `GetVersion` is first reached after the
  gate, so workflows in flight during the rollout take the new queue; the
  migration document says they keep the old one. This matters if no worker polls `finops-exec` yet.
* **tag_race** (`NeverOnProtected`). The gate looks once, before the loop, at tags
  read before that. The tags each snapshot reads just before its action are stored and not looked at.
* **stream_refused** (`StreamServed`). The wrapper of the logging middleware has no
  `Flush`, so the stream route answers 500 to everyone and the EventSource gives up.
* **stale_schema** (`SchemaFollowsPhase`). Where the handler has a Flusher (as in its tests, or
  once the wrapper has one) no STATE_DELTA is ever sent: `computePatches` returns nothing and `lastPhase` is
  compared after it was updated. The page names the new phase over the old schema, and prefers that schema to the one it loaded.

Further observations, which the modules state as what the code does:

* *Approve and deny outside the gate.* `builder.go:33` comments "At hil_gate with pending approval",
  but the test is that no approval was recorded yet and there is an analysis. A workflow
  that returned `no_actions` still offers both, as does a page reloaded after an accepted
  answer, until the timer fires. `LateAskNeverCounts` shows that such an answer is rejected.
* *Buttons without a plan.* The schema is said to drive what the page renders (`builder.go:8`), but its buttons
  go by the state, and state and schema are two requests. The one for the schema may be answered before there
  is a plan and the one for the state at the gate (in `ApprovalSurfaces`: `GetWorkflowUI`, then `PlanReturns`,
  then `GetWorkflow`, then `Click`); or a streamed schema of before the plan, which no delta
  updates, is preferred to the one that was loaded. Approve and Deny then stand under a page that shows no
  plan and no approval queue. What holds all the same is `PageDecidesPlanOfItsTime`: the plan
  was there when the answer was asked for. The other way round, a page whose state was read before the gate has no buttons until
  it is reloaded, whatever is streamed to it. The page asks for no
  confirmation of a high-risk plan, which the schema requires.
* *A child of the sweep gets nowhere.* Triage has a default window and the planner has
  none (`ChildrenStopAtPlan`): every child ends in `plan_error` or `triage_error`, and is
  counted in `child_workflows_run`.
* *A sure case of growth does not exist.* The workflow exits early on growth with a confidence
  of 0.85; triage gives 0.8. In production no start gives a percentage, so growth is
  usage that grew by at most 15 per cent, whatever the cost did.
* *Coverage is a percentage, its threshold a fraction*: 0.05 is a twentieth of a point, so
  almost any movement of coverage is commitment drift, the first class.
* *Credits are the first to be cut.* The bill is ordered by cost, dearest first, and limited.
* *The kubecost stub in production*: see `FixtureHidesLaterClasses`.
* *Waste is counted per list*: a snapshot that is orphaned and stale counts twice
  (`CaseForRealWaste`). The class `resource_waste` is shown with a panel that holds no waste.
* *The verifier looks at the window of the anomaly*, before the execution it verifies.
* *No tenant sessions and no budget in the worker.* `docs/deployment.md:146` says that the worker
  assumes the tenant's role for each activity; `main.go:115-121` passes neither `Tenants` nor
  `Budget`. `ActivityCalls` is the process of a worker that does.
* *A config without region.* A call that names no region is handed the region of
  whichever call refreshed the config last.
* *The poll outlasts its hearing.* The Athena poll gives up after as long as the activity
  may take altogether, and the query goes on after that.
* *A worker that fails* leaves the process up without its queue. `StatusTellsWorkers` is about
  what tells of it when the process is told to stop at last, not about the queue in between.
* *An unknown risk level* scores 0 and is approved by itself. `DecisionByWorstAction` takes the score as the
  code has it, so it would not tell of this; every planner in the repository names a known level.

## 7. What is not modelled

* *Temporal*: only what the workflow relies on. Cancellation and termination of a
  lifecycle (nothing in the code asks for them; `StateStream` has an operator do
  it), worker concurrency limits (they delay, and `PollTask` may be late anyway),
  the limits on Updates and history.
* *Replay of workflow code*: the SDK's. Two hazards concern it (`models.go:190`,
  `awsdoctor_sweep.go:89`: identifiers drawn inside workflow code) and stay without a property.
* *AnalyzeWaste, MapTrendMetrics, RunAWSDocTrend, the Slack and ticket stubs, the scheduled
  detection workflow*: nothing calls them or they do nothing.
* *Severity*, which nobody looks at, and the words of summaries.
* *Tenant sessions*: the SDK's own renewal of assumed-role credentials, and the pattern of an ARN.
* *Service limiter*: a wrapper of `golang.org/x/time/rate`; no command attaches one.
* *Transport and presentation*: HTTP authentication, metrics, requests to AWS and their
  paging, the layout of components, lists of workflows, `finops status`.
* *Shadow comparison and the Python predecessor* (`src/finops-deterministic`): a
  development tool and the program that was replaced; no concurrency of their own.

## 8. Plan

Everything that has state and control is modelled, and every safety property the runs
check is proved. What could still be added, in this order:

1. An abstract specification of the activity budget (a counter that nobody overruns by more than
   the calls under way) which `WorkerProcess` implements, with crashes as its resets.
2. The step of each liveness argument that is an invariant: that whoever the property waits for
   has a step to take (for example, that a returned workflow with an open stream leaves its handler at
   `describe`, `fetch` or `wait`), stated and proved without ENABLED.
3. What `FixtureHidesLaterClasses` becomes once the worker refuses to start without an
   endpoint; the theorem shows exactly which branch hides the classes.
