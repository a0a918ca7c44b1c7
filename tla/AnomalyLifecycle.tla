---------------------------- MODULE AnomalyLifecycle ----------------------------
(***************************************************************************)
(* AnomalyLifecycleWorkflow (temporal/workflows/anomaly_lifecycle.go) with *)
(* what it runs against: the four activities it awaits, the ExecuteActions *)
(* activity in full (temporal/activities/activities.go, executor.go), the  *)
(* people who answer its "approval" Update, the tags on the cloud          *)
(* resources, and the rollout of the version that routes execution to its  *)
(* own task queue.                                                         *)
(*                                                                         *)
(* One step is one workflow task: the event that caused it and all that    *)
(* the workflow code then does until it blocks again.  The Temporal server *)
(* keeps the workflow's history, so a crash of the workflow worker between *)
(* two tasks changes nothing here; activities are not replayed, and theirs *)
(* are the crashes modelled.                                               *)
(***************************************************************************)
EXTENDS PolicyEngine

CONSTANTS
    Plans,          \* the action lists PlanActions may return
    TagSets,        \* the protective tags a resource may carry together
    Approvers,      \* the calls of the "approval" Update, at most one each
    PolledQueues    \* the task queues some worker polls (FINOPS_WORKER_QUEUES)

QueueAnomaly == "finops-anomaly"
QueueExec == "finops-exec"

ASSUME LifecycleAssumption ==
    /\ Plans \subseteq Seq(RecommendedActions)
    /\ TagSets \subseteq SUBSET ProtectiveTags
    /\ PolledQueues \subseteq {QueueAnomaly, QueueExec}

VARIABLES
    currentPhase,     \* FinOpsState.CurrentPhase
    approval,         \* FinOpsState.Approval
    analysis,         \* FinOpsState.Analysis's actions; <<>> also before it is set
    executions,       \* FinOpsState.Executions, as positions in the plan
    shouldTerminate,  \* FinOpsState.ShouldTerminate, set exactly on return
    reason,           \* WorkflowResult.Reason, "none" while the workflow runs
    responded,        \* waitForApproval's `responded`
    hilResult,        \* waitForApproval's `result`
    timer,            \* the HILTimeout timer
    task,             \* the activity the workflow awaits, as the server sees it
    execInput,        \* ExecuteActionsInput of the ExecuteActions call
    runs,             \* attempts of ExecuteActions in worker processes
    performed,        \* positions of the actions carried out, in order
    tags,             \* the protective tags of each cloud resource
    reply,            \* what each caller of the Update was told
    startedOn,        \* the worker version this workflow was started on
    deployed          \* the worker version now running

stateVars == <<currentPhase, approval, analysis, executions, shouldTerminate, reason>>
gateVars == <<responded, hilResult, timer>>
execVars == <<execInput, runs, performed>>
versionVars == <<startedOn, deployed>>
vars == <<stateVars, gateVars, task, execVars, tags, reply, versionVars>>

\* RetryPolicy.MaximumAttempts of every activity.
MaximumAttemptsTwo == 2
MaximumAttempts == 1
Attempts == 1..MaximumAttempts

ActivityNames == {"TriageAnomaly", "PlanActions", "ExecuteActions", "VerifyOutcome"}
NoTask == [name |-> "none", queue |-> QueueAnomaly, status |-> "scheduled", attempt |-> 1]
NoTags == [r \in Resources |-> {}]
IdleRun == [pc |-> "idle", next |-> 1, tagsByARN |-> NoTags, results |-> <<>>, exposed |-> {}]
LivePCs == {"resolve", "tags", "gate", "loop"}

Init ==
    /\ currentPhase = "watcher"
    /\ approval = "pending"
    /\ analysis = <<>>
    /\ executions = <<>>
    /\ shouldTerminate = FALSE
    /\ reason = "none"
    /\ responded = FALSE
    /\ hilResult = "none"
    /\ timer = "unset"
    /\ task = NoTask
    /\ execInput = [approval |-> "pending", actions |-> <<>>]
    /\ runs = [a \in Attempts |-> IdleRun]
    /\ performed = <<>>
    /\ tags \in [Resources -> TagSets]
    /\ reply = [p \in Approvers |-> "none"]
    /\ startedOn \in {"v1", "v2"}
    /\ deployed = startedOn

-----------------------------------------------------------------------------
(* What the workflow does between two blocking calls.                        *)

\* workflow.ExecuteActivity: the server queues the first attempt.
DispatchFromZero(name, queue) ==
    task' = [name |-> name, queue |-> queue, status |-> "scheduled", attempt |-> 0]
Dispatch(name, queue) ==
    task' = [name |-> name, queue |-> queue, status |-> "scheduled", attempt |-> 1]

\* ShouldTerminate, and the return with this reason.
ReturnUnmarked(r) ==
    /\ UNCHANGED shouldTerminate
    /\ reason' = r
    /\ task' = NoTask
Return(r) ==
    /\ shouldTerminate' = TRUE
    /\ reason' = r
    /\ task' = NoTask

KeepRunning == UNCHANGED <<shouldTerminate, reason>>

\* GetVersion answers 1 to code that is not replaying and DefaultVersion to a
\* replay of a call the old code already made: the queue of a call is the one the
\* code deployed at that moment names, and it is never moved.
ExecQueue == IF deployed = "v2" THEN QueueExec ELSE QueueAnomaly

\* From the gate to the executor's blocking call.
StartExecutor(decision, actions) ==
    /\ currentPhase' = "executor"
    /\ approval' = decision
    /\ execInput' = [approval |-> decision, actions |-> actions]
    /\ Dispatch("ExecuteActions", ExecQueue)
    /\ KeepRunning

\* Watcher: without an anomaly the workflow ends, otherwise triage is called.
Watch ==
    /\ currentPhase = "watcher"
    /\ ~shouldTerminate
    /\ \/ Return("no_anomaly") /\ UNCHANGED currentPhase
       \/ /\ currentPhase' = "triage"
          /\ Dispatch("TriageAnomaly", QueueAnomaly)
          /\ KeepRunning
    /\ UNCHANGED <<approval, analysis, executions, gateVars, execVars, tags, reply, versionVars>>

-----------------------------------------------------------------------------
(* Activities other than ExecuteActions: their outcome is the worker's, or   *)
(* the server's when StartToCloseTimeout runs out.                           *)

Started(name) == task.name = name /\ task.status = "started"

\* A worker polls the queue the task is on.  ExecuteActions starts a run; the
\* resources unprotected now are the first the run can have seen unprotected.
PollTask ==
    /\ task.name # "none"
    /\ task.status = "scheduled"
    /\ task.queue \in PolledQueues
    /\ task' = [task EXCEPT !.status = "started"]
    /\ IF task.name = "ExecuteActions"
         THEN runs' = [runs EXCEPT ![task.attempt] =
                [IdleRun EXCEPT !.pc = "resolve",
                                !.exposed = {r \in Resources : ~IsProtected(tags[r])}]]
         ELSE UNCHANGED runs
    /\ UNCHANGED <<stateVars, gateVars, execInput, performed, tags, reply, versionVars>>

\* An error or a timeout: the server queues another attempt while the retry
\* policy allows one, otherwise the workflow records the error and returns.
FailAttempt(r) ==
    IF task.attempt < MaximumAttempts
      THEN /\ task' = [task EXCEPT !.status = "scheduled", !.attempt = @ + 1]
           /\ KeepRunning
      ELSE Return(r)

FailureReason == [TriageAnomaly  |-> "triage_error",
                  PlanActions    |-> "plan_error",
                  ExecuteActions |-> "execution_error",
                  VerifyOutcome  |-> "verify_error"]

ActivityFails ==
    /\ task.status = "started"
    /\ task.name \in ActivityNames \ {"ExecuteActions"}
    /\ FailAttempt(FailureReason[task.name])
    /\ UNCHANGED <<currentPhase, approval, analysis, executions,
                   gateVars, execVars, tags, reply, versionVars>>

\* earlyExit: category expected_growth with a confidence of 0.85 or more.
TriageReturns(earlyExit) ==
    /\ Started("TriageAnomaly")
    /\ IF earlyExit
         THEN Return("expected_growth_high_confidence") /\ UNCHANGED currentPhase
         ELSE /\ currentPhase' = "analyst"
              /\ Dispatch("PlanActions", QueueAnomaly)
              /\ KeepRunning
    /\ UNCHANGED <<approval, analysis, executions, gateVars, execVars, tags, reply, versionVars>>

\* The plan arrives and, unless it is empty, goes through the policy.  Pending
\* registers the Update handler and starts the timer.
PlanReturns(plan) ==
    /\ Started("PlanActions")
    /\ analysis' = plan
    /\ \/ /\ plan = <<>>
          /\ Return("no_actions")
          /\ UNCHANGED <<currentPhase, approval, timer, execInput>>
       \/ /\ plan # <<>> /\ Decide(plan) = "auto_approved"
          /\ StartExecutor("auto_approved", plan)
          /\ UNCHANGED timer
       \/ /\ plan # <<>> /\ Decide(plan) = "denied"
          /\ currentPhase' = "hil_gate"
          /\ approval' = "denied"
          /\ Return("policy_denied")
          /\ UNCHANGED <<timer, execInput>>
       \/ /\ plan # <<>> /\ Decide(plan) = "pending"
          /\ currentPhase' = "hil_gate"
          /\ approval' = "pending"
          /\ timer' = "running"
          /\ task' = NoTask
          /\ KeepRunning
          /\ UNCHANGED execInput
    /\ UNCHANGED <<executions, responded, hilResult, runs, performed, tags, reply, versionVars>>

VerifyReturns ==
    /\ Started("VerifyOutcome")
    /\ currentPhase' = "completed"
    /\ Return("completed")
    /\ UNCHANGED <<approval, analysis, executions, gateVars, execVars, tags, reply, versionVars>>

-----------------------------------------------------------------------------
(* The human-in-the-loop gate (waitForApproval).                             *)

\* The Update handler exists from the wait until the workflow returns.
HandlerRegisteredForEver == timer # "unset"
HandlerRegistered == timer # "unset" /\ ~shouldTerminate

\* The validator, whose second test the handler repeats.
AcceptsUpdateAgain(by) == by
AcceptsUpdate(by) == by /\ ~responded

\* The Update of one caller: `approved` is its answer, `by` says that it names
\* who answers.  The caller is told the verdict or gets an error.
SubmitApproval(p, approved, by) ==
    /\ reply[p] = "none"
    /\ IF HandlerRegistered /\ AcceptsUpdate(by)
         THEN /\ responded' = TRUE
              /\ hilResult' = IF approved THEN "approved" ELSE "denied"
              /\ reply' = [reply EXCEPT ![p] = hilResult']
         ELSE /\ reply' = [reply EXCEPT ![p] = "rejected"]
              /\ UNCHANGED <<responded, hilResult>>
    /\ UNCHANGED <<stateVars, timer, task, execVars, tags, versionVars>>

TimerFires ==
    /\ timer = "running"
    /\ ~shouldTerminate
    /\ timer' = "fired"
    /\ UNCHANGED <<stateVars, responded, hilResult, task, execVars, tags, reply, versionVars>>

\* The timer is the only case of the selector, so only it can end Select.
SelectReadyOnAnswer == responded
SelectReady == timer = "fired"

\* The timer's callback: it keeps a response that was recorded before it ran.
TimerCallbackOverwrites == "timed_out"
TimerCallback == IF responded THEN hilResult ELSE "timed_out"

LeaveGateWithoutReturn ==
    /\ currentPhase = "hil_gate"
    /\ ~shouldTerminate
    /\ SelectReady
    /\ hilResult' = TimerCallback
    /\ StartExecutor(TimerCallback, analysis)
    /\ UNCHANGED <<analysis, executions, responded, timer, runs, performed, tags, reply, versionVars>>

\* Select returns, the callback runs, the loop ends and the workflow acts on the
\* result.  An answer can still arrive between the timer and this step: its
\* handler runs first when both are in one workflow task.
LeaveGate ==
    /\ currentPhase = "hil_gate"
    /\ ~shouldTerminate
    /\ SelectReady
    /\ hilResult' = TimerCallback
    /\ \/ TimerCallback = "approved" /\ StartExecutor("approved", analysis)
       \/ /\ TimerCallback \in {"denied", "timed_out"}
          /\ approval' = TimerCallback
          /\ Return(IF TimerCallback = "denied" THEN "human_denied" ELSE "approval_timed_out")
          /\ UNCHANGED <<currentPhase, execInput>>
    /\ UNCHANGED <<analysis, executions, responded, timer, runs, performed, tags, reply, versionVars>>

-----------------------------------------------------------------------------
(* ExecuteActions in a worker.  A run does not watch its context: after a    *)
(* timeout it goes on, and its result is discarded.                          *)

Actions == execInput.actions
Target(a) == Actions[runs[a].next].target
Current(a) == Started("ExecuteActions") /\ task.attempt = a

\* The tag client is resolved and the tags of every target are read in turn.
ResolveInfra(a) ==
    /\ runs[a].pc = "resolve"
    /\ runs' = [runs EXCEPT ![a].pc = "tags"]
    /\ UNCHANGED <<stateVars, gateVars, task, execInput, performed, tags, reply, versionVars>>

ForgetTags(a) == runs[a].tagsByARN
RememberTags(a) == [runs[a].tagsByARN EXCEPT ![Target(a)] = tags[Target(a)]]

FetchTags(a) ==
    /\ runs[a].pc = "tags"
    /\ runs[a].next <= Len(Actions)
    /\ runs' = [runs EXCEPT ![a].next = @ + 1,
                            ![a].tagsByARN = IF Target(a) = NoTarget THEN @ ELSE RememberTags(a)]
    /\ UNCHANGED <<stateVars, gateVars, task, execInput, performed, tags, reply, versionVars>>

TagsFetched(a) ==
    /\ runs[a].pc = "tags"
    /\ runs[a].next > Len(Actions)
    /\ runs' = [runs EXCEPT ![a].pc = "gate", ![a].next = 1]
    /\ UNCHANGED <<stateVars, gateVars, task, execInput, performed, tags, reply, versionVars>>

GatePasses(a) == EnforceExecutorSafety(execInput.approval, Actions, runs[a].tagsByARN)

PassGate(a) ==
    /\ runs[a].pc = "gate"
    /\ GatePasses(a)
    /\ runs' = [runs EXCEPT ![a].pc = "loop"]
    /\ UNCHANGED <<stateVars, gateVars, task, execInput, performed, tags, reply, versionVars>>

LoopOverOneEarly(a) == runs[a].next >= Len(Actions)
LoopOver(a) == runs[a].next > Len(Actions)

\* One turn of the loop: the snapshot succeeds and the action is carried out.
PerformAction(a) ==
    /\ runs[a].pc = "loop"
    /\ ~LoopOver(a)
    /\ performed' = Append(performed, runs[a].next)
    /\ runs' = [runs EXCEPT ![a].next = @ + 1, ![a].results = Append(@, runs[a].next)]
    /\ UNCHANGED <<stateVars, gateVars, task, execInput, tags, reply, versionVars>>

\* An error ends the run with no results: the budget or the tag client, a tag
\* read, the gate, or the snapshot before an action.
RunErrors(a) ==
    \/ runs[a].pc = "resolve"
    \/ runs[a].pc = "gate" /\ ~GatePasses(a)
    \/ /\ runs[a].pc \in {"tags", "loop"}
       /\ runs[a].next <= Len(Actions)
       /\ Target(a) # NoTarget

RunFails(a) ==
    /\ RunErrors(a)
    /\ runs' = [runs EXCEPT ![a].pc = "over"]
    /\ IF Current(a) THEN FailAttempt("execution_error") ELSE UNCHANGED <<task, shouldTerminate, reason>>
    /\ UNCHANGED <<currentPhase, approval, analysis, executions,
                   gateVars, execInput, performed, tags, reply, versionVars>>

\* The loop is over and the results go back, if the server still waits for them.
RunReturns(a) ==
    /\ runs[a].pc = "loop"
    /\ LoopOver(a)
    /\ runs' = [runs EXCEPT ![a].pc = "over"]
    /\ IF Current(a)
         THEN /\ executions' = runs[a].results
              /\ currentPhase' = "verifier"
              /\ Dispatch("VerifyOutcome", QueueAnomaly)
         ELSE UNCHANGED <<executions, currentPhase, task>>
    /\ UNCHANGED <<approval, analysis, shouldTerminate, reason,
                   gateVars, execInput, performed, tags, reply, versionVars>>

\* The worker process dies in the middle of a run; nobody tells the server.
WorkerCrash(a) ==
    /\ runs[a].pc \in LivePCs
    /\ runs' = [runs EXCEPT ![a].pc = "over"]
    /\ UNCHANGED <<stateVars, gateVars, task, execInput, performed, tags, reply, versionVars>>

\* StartToCloseTimeout runs out; a run that is still going is not stopped.
ExecuteTimesOut ==
    /\ Started("ExecuteActions")
    /\ FailAttempt("execution_error")
    /\ UNCHANGED <<currentPhase, approval, analysis, executions,
                   gateVars, execVars, tags, reply, versionVars>>

-----------------------------------------------------------------------------
(* The surroundings.                                                         *)

\* Someone changes the tags of a resource.
Retag(r, tagSet) ==
    /\ tags[r] # tagSet
    /\ tags' = [tags EXCEPT ![r] = tagSet]
    /\ runs' = [a \in Attempts |->
                  IF runs[a].pc \in LivePCs /\ ~IsProtected(tagSet)
                    THEN [runs[a] EXCEPT !.exposed = @ \cup {r}]
                    ELSE runs[a]]
    /\ UNCHANGED <<stateVars, gateVars, task, execInput, performed, reply, versionVars>>

\* The workers are replaced by the version with exec-queue-routing.
Deploy ==
    /\ deployed = "v1"
    /\ deployed' = "v2"
    /\ UNCHANGED <<stateVars, gateVars, task, execVars, tags, reply, startedOn>>

ExecutorNext(a) ==
    \/ ResolveInfra(a) \/ FetchTags(a) \/ TagsFetched(a) \/ PassGate(a)
    \/ PerformAction(a) \/ RunFails(a) \/ RunReturns(a) \/ WorkerCrash(a)

Next ==
    \/ Watch
    \/ PollTask
    \/ ActivityFails
    \/ \E earlyExit \in BOOLEAN : TriageReturns(earlyExit)
    \/ \E plan \in Plans : PlanReturns(plan)
    \/ VerifyReturns
    \/ \E p \in Approvers, approved, by \in BOOLEAN : SubmitApproval(p, approved, by)
    \/ TimerFires
    \/ LeaveGate
    \/ \E a \in Attempts : ExecutorNext(a)
    \/ ExecuteTimesOut
    \/ \E r \in Resources, tagSet \in TagSets : Retag(r, tagSet)
    \/ Deploy

Spec == Init /\ [][Next]_vars

(* Fairness: the server delivers workflow tasks and fires timers, some worker  *)
(* polls every queue of PolledQueues, and an attempt that neither reports nor *)
(* fails is timed out.  People, tags and rollouts owe nothing.               *)
ActivityEnds ==
    \/ ActivityFails
    \/ \E earlyExit \in BOOLEAN : TriageReturns(earlyExit)
    \/ \E plan \in Plans : PlanReturns(plan)
    \/ VerifyReturns
    \/ ExecuteTimesOut
    \/ \E a \in Attempts : RunFails(a) \/ RunReturns(a)

Fairness ==
    /\ WF_vars(Watch)
    /\ WF_vars(PollTask)
    /\ WF_vars(ActivityEnds)
    /\ WF_vars(TimerFires)
    /\ WF_vars(LeaveGate)

-----------------------------------------------------------------------------
(* Types.                                                                    *)

Phases == {"watcher", "triage", "analyst", "hil_gate", "executor", "verifier", "completed"}
Reasons == {"none", "completed", "no_anomaly", "expected_growth_high_confidence", "no_actions",
            "policy_denied", "human_denied", "approval_timed_out",
            "triage_error", "plan_error", "execution_error", "verify_error"}
ApprovalStatuses == {"pending", "approved", "denied", "auto_approved", "timed_out"}
Tasks == [name : ActivityNames \cup {"none"}, queue : {QueueAnomaly, QueueExec},
          status : {"scheduled", "started"}, attempt : Attempts]
Runs == [pc : LivePCs \cup {"idle", "over"}, next : Nat \ {0},
         tagsByARN : [Resources -> SUBSET ProtectiveTags],
         results : Seq(Nat \ {0}), exposed : SUBSET Resources]

\* The state keeps its types; in particular no attempt beyond MaximumAttempts is
\* ever dispatched and no run looks at a position below the first.
TypeOK ==
    /\ currentPhase \in Phases
    /\ approval \in ApprovalStatuses
    /\ analysis \in Seq(RecommendedActions)
    /\ executions \in Seq(Nat \ {0})
    /\ shouldTerminate \in BOOLEAN
    /\ reason \in Reasons
    /\ responded \in BOOLEAN
    /\ hilResult \in {"none", "approved", "denied", "timed_out"}
    /\ timer \in {"unset", "running", "fired"}
    /\ task \in Tasks
    /\ execInput \in [approval : ApprovalStatuses, actions : Seq(RecommendedActions)]
    /\ runs \in [Attempts -> Runs]
    /\ performed \in Seq(Nat \ {0})
    /\ tags \in [Resources -> SUBSET ProtectiveTags]
    /\ reply \in [Approvers -> {"none", "approved", "denied", "rejected"}]
    /\ startedOn \in {"v1", "v2"}
    /\ deployed \in {"v1", "v2"}

-----------------------------------------------------------------------------
(* Safety.                                                                   *)

\* Nothing is carried out without consent: no critical action is in a plan of
\* which anything is carried out, either every action is low-risk or a caller was
\* told "approved", and no caller was told "denied" (Decide, waitForApproval and
\* EnforceExecutorSafety together).
ConsentBeforeExecution ==
    performed # <<>> =>
        /\ \A i \in DOMAIN analysis : analysis[i].risk # "critical"
        /\ \/ \A i \in DOMAIN analysis : RiskScore(analysis[i].risk) <= RiskScore("low")
           \/ \E p \in Approvers : reply[p] = "approved"
        /\ \A p \in Approvers : reply[p] # "denied"

\* A resource that carried a protective tag when a worker took ExecuteActions up,
\* and kept one, is left alone, whenever before that it was tagged: the 24 hours
\* of the gate and the wait for an exec worker included (the tag reads of
\* ExecuteActions and the gate).
ProtectionHonoured ==
    \A a \in Attempts : \A k \in DOMAIN runs[a].results :
        LET target == Actions[runs[a].results[k]].target
        IN  target # NoTarget => target \in runs[a].exposed

\* Whatever times out, crashes or comes late, the actions carried out are the
\* first so many of the plan, each once (MaximumAttempts, the executor's loop).
OnceInOrder ==
    /\ Len(performed) <= Len(analysis)
    /\ \A k \in DOMAIN performed : performed[k] = k

WaitingAtGate == currentPhase = "hil_gate" /\ ~shouldTerminate

\* At most one caller is told that its answer counts, and once the gate is left
\* the workflow goes by that answer: neither a second answer nor the timer undoes
\* what a caller was told (validator, handler and timer callback).
AnswerHonoured ==
    /\ \A p, q \in Approvers :
          reply[p] \in {"approved", "denied"} /\ reply[q] \in {"approved", "denied"} => p = q
    /\ \A p \in Approvers :
          /\ reply[p] = "approved" => WaitingAtGate \/ approval = "approved"
          /\ reply[p] = "denied" => WaitingAtGate \/ reason = "human_denied"

\* The result tells what was done.  Unless it is execution_error, the executions
\* reported are exactly the actions carried out, the whole plan or nothing.
ResultTellsEffects ==
    reason \notin {"none", "execution_error"} =>
        /\ executions = performed
        /\ performed = <<>> \/ Len(performed) = Len(analysis)

\* Disputed: the loop of waitForApproval "exits when either the handler fires or
\* the timer expires", so a workflow that has an answer is not waiting for the timer.
WaitEndsOnResponse == WaitingAtGate /\ timer = "running" => ~responded

\* Disputed: execution moves to the exec queue "only for new workflow executions",
\* and one that was in flight when the version was deployed keeps the old queue.
InFlightKeepsOldQueue ==
    startedOn = "v1" /\ task.name = "ExecuteActions" => task.queue = QueueAnomaly

\* Disputed: the gate "prevents execution of ... actions targeting protected
\* resources", so no action is carried out on a resource that is protected then.
NeverOnProtected ==
    [][\A k \in DOMAIN performed' \ DOMAIN performed :
          LET target == Actions[performed'[k]].target
          IN  target # NoTarget => ~IsProtected(tags[target])]_vars

-----------------------------------------------------------------------------
(* Refinement and liveness.                                                  *)

Decision ==
    IF approval \in {"approved", "auto_approved"} THEN "granted"
    ELSE IF shouldTerminate THEN "refused"
    ELSE "open"

Gate == INSTANCE GatedExecution WITH
            decision <- Decision,
            plan <- Len(execInput.actions),
            closed <- shouldTerminate

\* The lifecycle keeps the promise of GatedExecution.
ImplementsGatedExecution == Gate!Spec

View == INSTANCE LifecycleView WITH planned <- analysis # <<>> \/ reason = "no_actions"

\* What the "state" Query and the result show goes through the phases in order,
\* with the approval and the reason that belong to each: no phase is skipped or
\* entered twice, and nothing is shown any more after the return.
ShowsLifecycle == View!Spec

\* Every anomaly is brought to an end, whoever answers and whatever crashes, as
\* long as some worker polls each queue in use (the return on every path).
EventuallyReturns == <>shouldTerminate
=============================================================================
