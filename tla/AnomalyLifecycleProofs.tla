------------------------- MODULE AnomalyLifecycleProofs -------------------------
(***************************************************************************)
(* The lifecycle's safety for every set of resources, plans, tag sets and  *)
(* callers.  The inductive invariant comes in four layers, each proved     *)
(* from the ones before it: the types; what each phase of the workflow     *)
(* awaits and has decided; what the gate told its callers; what the run of *)
(* ExecuteActions has seen and done.                                       *)
(***************************************************************************)
EXTENDS AnomalyLifecycle, PolicyEngineProofs

-----------------------------------------------------------------------------
(* Layer 1: types.                                                           *)

\* 1 is a position: executors and the tag reads start at it.
LEMMA FirstPosition == 1 \in Nat \ {0}
  OBVIOUS

\* The first state has the types.
LEMMA InitType == Init => TypeOK
<1> SUFFICES ASSUME Init PROVE TypeOK
  OBVIOUS
<1>1. tags \in [Resources -> SUBSET ProtectiveTags]
  BY LifecycleAssumption DEF Init
<1>2. <<>> \in Seq(RecommendedActions) /\ <<>> \in Seq(Nat \ {0})
  BY EmptySeq
<1>3. IdleRun \in Runs
  BY <1>2 DEF IdleRun, Runs, NoTags, LivePCs
<1>4. task \in Tasks
  BY DEF Init, NoTask, Tasks, Attempts, MaximumAttempts
<1>5. QED
  BY <1>1, <1>2, <1>3, <1>4
  DEF Init, TypeOK, Phases, ApprovalStatuses, Reasons

(* A dispatch and a return leave a well-formed task and reason. *)
LEMMA DispatchType ==
    ASSUME NEW name \in ActivityNames, NEW queue \in {QueueAnomaly, QueueExec}, Dispatch(name, queue)
    PROVE  task' \in Tasks
  BY DEF Dispatch, Tasks, Attempts, MaximumAttempts

\* A return keeps the types of what it sets.
LEMMA ReturnType ==
    ASSUME NEW r \in Reasons, Return(r)
    PROVE  task' \in Tasks /\ shouldTerminate' \in BOOLEAN /\ reason' \in Reasons
  BY DEF Return, NoTask, Tasks, Attempts, MaximumAttempts

\* So does a failed attempt, whether it is repeated or ends the workflow.
LEMMA FailAttemptType ==
    ASSUME TypeOK, NEW r \in Reasons, FailAttempt(r)
    PROVE  task' \in Tasks /\ shouldTerminate' \in BOOLEAN /\ reason' \in Reasons
<1>1. CASE task.attempt < MaximumAttempts
  BY <1>1 DEF FailAttempt, KeepRunning, TypeOK, Tasks, Attempts, MaximumAttempts
<1>2. CASE ~(task.attempt < MaximumAttempts)
  BY <1>2, ReturnType DEF FailAttempt
<1>3. QED
  BY <1>1, <1>2

\* So does the step from the gate to the executor.
LEMMA StartExecutorType ==
    ASSUME TypeOK, NEW decision \in ApprovalStatuses, NEW actions \in Seq(RecommendedActions),
           StartExecutor(decision, actions)
    PROVE  /\ currentPhase' \in Phases
           /\ approval' \in ApprovalStatuses
           /\ execInput' \in [approval : ApprovalStatuses, actions : Seq(RecommendedActions)]
           /\ task' \in Tasks
           /\ shouldTerminate' \in BOOLEAN /\ reason' \in Reasons
<1>1. ExecQueue \in {QueueAnomaly, QueueExec}
  BY DEF ExecQueue
<1>2. task' \in Tasks
  BY <1>1, DispatchType DEF StartExecutor, ActivityNames
<1>3. QED
  BY <1>2 DEF StartExecutor, KeepRunning, TypeOK, Phases

\* A run that only moves on in its program text is still a run.
LEMMA RunPcType ==
    ASSUME TypeOK, NEW a \in Attempts, NEW pc \in LivePCs \cup {"idle", "over"},
           runs' = [runs EXCEPT ![a].pc = pc]
    PROVE  runs' \in [Attempts -> Runs]
<1>1. \A run \in Runs : [run EXCEPT !.pc = pc] \in Runs
  BY DEF Runs
<1>2. runs[a] \in Runs /\ runs \in [Attempts -> Runs]
  BY DEF TypeOK
<1>3. runs' = [runs EXCEPT ![a] = [runs[a] EXCEPT !.pc = pc]]
  BY <1>2
<1>4. [runs[a] EXCEPT !.pc = pc] \in Runs
  BY <1>1, <1>2
<1>5. QED
  BY <1>2, <1>3, <1>4

\* Every step keeps the types.
LEMMA TypeStep == TypeOK /\ [Next]_vars => TypeOK'
<1> SUFFICES ASSUME TypeOK, [Next]_vars PROVE TypeOK'
  OBVIOUS
<1> USE DEF stateVars, gateVars, execVars, versionVars
<1>1. CASE Watch
  <2>1. task' \in Tasks /\ shouldTerminate' \in BOOLEAN /\ reason' \in Reasons /\ currentPhase' \in Phases
    BY <1>1, DispatchType, ReturnType DEF Watch, KeepRunning, TypeOK, ActivityNames, Reasons, Phases
  <2>2. QED
    BY <1>1, <2>1 DEF Watch, TypeOK
<1>2. CASE PollTask
  <2>1. task' \in Tasks
    BY <1>2 DEF PollTask, TypeOK, Tasks
  <2>2. [IdleRun EXCEPT !.pc = "resolve",
                        !.exposed = {r \in Resources : ~IsProtected(tags[r])}] \in Runs
    <3> DEFINE open == {r \in Resources : ~IsProtected(tags[r])}
    <3>1. open \in SUBSET Resources
      OBVIOUS
    <3>2. <<>> \in Seq(Nat \ {0})
      BY EmptySeq
    <3>3. IdleRun \in Runs
      BY <3>2 DEF IdleRun, Runs, NoTags, LivePCs
    <3>4. \A run \in Runs, e \in SUBSET Resources : [run EXCEPT !.pc = "resolve", !.exposed = e] \in Runs
      BY DEF Runs, LivePCs
    <3>5. QED
      BY <3>1, <3>3, <3>4
  <2>3. runs' \in [Attempts -> Runs]
    BY <1>2, <2>2 DEF PollTask, TypeOK
  <2>4. QED
    BY <1>2, <2>1, <2>3 DEF PollTask, TypeOK
<1>3. CASE ActivityFails
  <2>1. FailureReason[task.name] \in Reasons
    BY <1>3 DEF ActivityFails, FailureReason, ActivityNames, Reasons
  <2>2. QED
    BY <1>3, <2>1, FailAttemptType DEF ActivityFails, TypeOK
<1>4. ASSUME NEW earlyExit \in BOOLEAN, TriageReturns(earlyExit) PROVE TypeOK'
  <2>1. task' \in Tasks /\ shouldTerminate' \in BOOLEAN /\ reason' \in Reasons /\ currentPhase' \in Phases
    BY <1>4, DispatchType, ReturnType DEF TriageReturns, KeepRunning, TypeOK, ActivityNames, Reasons, Phases
  <2>2. QED
    BY <1>4, <2>1 DEF TriageReturns, TypeOK
<1>5. ASSUME NEW plan \in Plans, PlanReturns(plan) PROVE TypeOK'
  <2>1. plan \in Seq(RecommendedActions) /\ analysis' = plan
    BY <1>5, LifecycleAssumption DEF PlanReturns
  <2>2. /\ task' \in Tasks /\ shouldTerminate' \in BOOLEAN /\ reason' \in Reasons
        /\ currentPhase' \in Phases /\ approval' \in ApprovalStatuses
        /\ timer' \in {"unset", "running", "fired"}
        /\ execInput' \in [approval : ApprovalStatuses, actions : Seq(RecommendedActions)]
    <3>1. CASE plan = <<>>
      BY <1>5, <2>1, <3>1, ReturnType DEF PlanReturns, TypeOK, Reasons
    <3>2. CASE plan # <<>> /\ Decide(plan) = "auto_approved"
      BY <1>5, <2>1, <3>2, StartExecutorType DEF PlanReturns, TypeOK, ApprovalStatuses
    <3>3. CASE plan # <<>> /\ Decide(plan) = "denied"
      BY <1>5, <2>1, <3>3, ReturnType DEF PlanReturns, TypeOK, Reasons, Phases, ApprovalStatuses
    <3>4. CASE plan # <<>> /\ Decide(plan) = "pending"
      BY <1>5, <2>1, <3>4 DEF PlanReturns, KeepRunning, TypeOK, Phases, ApprovalStatuses,
         NoTask, Tasks, Attempts, MaximumAttempts
    <3>5. QED
      BY <1>5, <3>1, <3>2, <3>3, <3>4 DEF PlanReturns
  <2>3. QED
    BY <1>5, <2>1, <2>2 DEF PlanReturns, TypeOK
<1>6. CASE VerifyReturns
  BY <1>6, ReturnType DEF VerifyReturns, TypeOK, Reasons, Phases
<1>7. ASSUME NEW p \in Approvers, NEW approved \in BOOLEAN, NEW by \in BOOLEAN,
             SubmitApproval(p, approved, by)
      PROVE  TypeOK'
  BY <1>7 DEF SubmitApproval, TypeOK
<1>8. CASE TimerFires
  BY <1>8 DEF TimerFires, TypeOK
<1>9. CASE LeaveGate
  <2>1. TimerCallback \in {"none", "approved", "denied", "timed_out"}
    BY DEF TimerCallback, TypeOK
  <2>2. /\ task' \in Tasks /\ shouldTerminate' \in BOOLEAN /\ reason' \in Reasons
        /\ currentPhase' \in Phases /\ approval' \in ApprovalStatuses
        /\ execInput' \in [approval : ApprovalStatuses, actions : Seq(RecommendedActions)]
    <3>1. CASE TimerCallback = "approved"
      BY <1>9, <3>1, StartExecutorType DEF LeaveGate, TypeOK, ApprovalStatuses
    <3>2. CASE TimerCallback = "denied"
      BY <1>9, <3>2, ReturnType DEF LeaveGate, TypeOK, Reasons, ApprovalStatuses
    <3>3. CASE TimerCallback = "timed_out"
      BY <1>9, <3>3, ReturnType DEF LeaveGate, TypeOK, Reasons, ApprovalStatuses
    <3>4. QED
      BY <1>9, <3>1, <3>2, <3>3 DEF LeaveGate
  <2>3. QED
    BY <1>9, <2>1, <2>2 DEF LeaveGate, TypeOK
<1>10. ASSUME NEW a \in Attempts, ExecutorNext(a) PROVE TypeOK'
  <2> USE DEF Runs, LivePCs
  <2>1. CASE ResolveInfra(a)
    <3>1. runs' \in [Attempts -> Runs]
      BY <2>1, RunPcType DEF ResolveInfra
    <3> HIDE DEF Runs
    <3>2. QED
      BY <2>1, <3>1 DEF ResolveInfra, TypeOK
  <2>2. CASE FetchTags(a)
    <3>1. runs[a].next + 1 \in Nat \ {0}
      BY DEF TypeOK
    <3>2. runs[a].tagsByARN \in [Resources -> SUBSET ProtectiveTags]
      BY DEF TypeOK
    <3>3. Target(a) \in Resources => tags[Target(a)] \in SUBSET ProtectiveTags
      BY DEF TypeOK
    <3> DEFINE read == IF Target(a) = NoTarget THEN runs[a].tagsByARN ELSE RememberTags(a)
    <3>4. read \in [Resources -> SUBSET ProtectiveTags]
      BY <3>2, <3>3 DEF RememberTags
    <3>5. runs' = [runs EXCEPT ![a] = [runs[a] EXCEPT !.next = runs[a].next + 1, !.tagsByARN = read]]
      BY <2>2 DEF FetchTags, TypeOK
    <3> HIDE DEF read
    <3>6. [runs[a] EXCEPT !.next = runs[a].next + 1, !.tagsByARN = read] \in Runs
      BY <3>1, <3>4 DEF TypeOK
    <3>7. runs' \in [Attempts -> Runs]
      BY <3>5, <3>6 DEF TypeOK
    <3>8. QED
      BY <2>2, <3>7 DEF FetchTags, TypeOK
  <2>3. CASE TagsFetched(a)
    <3>1. runs' = [runs EXCEPT ![a] = [runs[a] EXCEPT !.pc = "gate", !.next = 1]]
      BY <2>3 DEF TagsFetched, TypeOK
    <3>2. \A run \in Runs, n \in Nat \ {0} : [run EXCEPT !.pc = "gate", !.next = n] \in Runs
      OBVIOUS
    <3>3. runs[a] \in Runs
      BY DEF TypeOK
    <3> HIDE DEF Runs
    <3>4. [runs[a] EXCEPT !.pc = "gate", !.next = 1] \in Runs
      BY <3>2, <3>3, FirstPosition
    <3>5. runs' \in [Attempts -> Runs]
      BY <3>1, <3>4 DEF TypeOK
    <3>6. QED
      BY <2>3, <3>5 DEF TagsFetched, TypeOK
  <2>4. CASE PassGate(a)
    <3>1. runs' \in [Attempts -> Runs]
      BY <2>4, RunPcType DEF PassGate
    <3> HIDE DEF Runs
    <3>2. QED
      BY <2>4, <3>1 DEF PassGate, TypeOK
  <2>5. CASE PerformAction(a)
    <3>1. runs[a].next \in Nat \ {0} /\ runs[a].next + 1 \in Nat \ {0}
      BY DEF TypeOK
    <3>2. Append(performed, runs[a].next) \in Seq(Nat \ {0})
      BY <3>1, AppendProperties DEF TypeOK
    <3>3. Append(runs[a].results, runs[a].next) \in Seq(Nat \ {0})
      BY <3>1, AppendProperties DEF TypeOK
    <3> DEFINE turned == [runs[a] EXCEPT !.next = runs[a].next + 1,
                                         !.results = Append(runs[a].results, runs[a].next)]
    <3>4. runs' = [runs EXCEPT ![a] = turned]
      BY <2>5 DEF PerformAction, TypeOK
    <3>5. turned \in Runs
      BY <3>1, <3>3 DEF TypeOK
    <3> HIDE DEF turned
    <3>6. runs' \in [Attempts -> Runs]
      BY <3>4, <3>5 DEF TypeOK
    <3>7. QED
      BY <2>5, <3>2, <3>6 DEF PerformAction, TypeOK
  <2>6. CASE RunFails(a)
    <3>1. task' \in Tasks /\ shouldTerminate' \in BOOLEAN /\ reason' \in Reasons
      BY <2>6, FailAttemptType DEF RunFails, TypeOK, Reasons
    <3>2. runs' \in [Attempts -> Runs]
      BY <2>6, RunPcType DEF RunFails
    <3>3. UNCHANGED <<currentPhase, approval, analysis, executions, gateVars,
                      execInput, performed, tags, reply, versionVars>>
      BY <2>6 DEF RunFails
    <3>4. QED
      BY <3>1, <3>2, <3>3 DEF TypeOK
  <2>7. CASE RunReturns(a)
    <3>1. task' \in Tasks /\ currentPhase' \in Phases /\ executions' \in Seq(Nat \ {0})
      BY <2>7, DispatchType DEF RunReturns, TypeOK, ActivityNames, Phases
    <3>2. runs' \in [Attempts -> Runs]
      BY <2>7, RunPcType DEF RunReturns
    <3>3. UNCHANGED <<approval, analysis, shouldTerminate, reason, gateVars,
                      execInput, performed, tags, reply, versionVars>>
      BY <2>7 DEF RunReturns
    <3>4. QED
      BY <3>1, <3>2, <3>3 DEF TypeOK
  <2>8. CASE WorkerCrash(a)
    <3>1. runs' \in [Attempts -> Runs]
      BY <2>8, RunPcType DEF WorkerCrash
    <3> HIDE DEF Runs
    <3>2. QED
      BY <2>8, <3>1 DEF WorkerCrash, TypeOK
  <2>9. QED
    BY <1>10, <2>1, <2>2, <2>3, <2>4, <2>5, <2>6, <2>7, <2>8 DEF ExecutorNext
<1>11. CASE ExecuteTimesOut
  BY <1>11, FailAttemptType DEF ExecuteTimesOut, TypeOK, Reasons
<1>12. ASSUME NEW r \in Resources, NEW tagSet \in TagSets, Retag(r, tagSet) PROVE TypeOK'
  <2>1. tags' \in [Resources -> SUBSET ProtectiveTags]
    BY <1>12, LifecycleAssumption DEF Retag, TypeOK
  <2>2. runs' \in [Attempts -> Runs]
    <3>1. \A a \in Attempts : [runs[a] EXCEPT !.exposed = runs[a].exposed \cup {r}] \in Runs
      BY DEF TypeOK, Runs
    <3>2. QED
      BY <1>12, <3>1 DEF Retag, TypeOK
  <2>3. QED
    BY <1>12, <2>1, <2>2 DEF Retag, TypeOK
<1>13. CASE Deploy
  BY <1>13 DEF Deploy, TypeOK
<1>14. CASE UNCHANGED vars
  BY <1>14 DEF vars, TypeOK
<1>15. QED
  BY <1>1, <1>2, <1>3, <1>4, <1>5, <1>6, <1>7, <1>8, <1>9, <1>10, <1>11, <1>12, <1>13, <1>14 DEF Next

(* Every variable keeps its type, whatever the plans, tags and callers. *)
THEOREM TypeCorrect == Spec => []TypeOK
  BY InitType, TypeStep, PTL DEF Spec

-----------------------------------------------------------------------------
(* The other layers of the invariant.                                        *)

Granted == approval \in {"approved", "auto_approved"}

(* Layer 2: the phase tells which activity is awaited, what was decided and    *)
(* what was handed to the executor.                                            *)
PhaseInv ==
    /\ shouldTerminate <=> reason # "none"
    /\ shouldTerminate => task.name = "none"
    /\ ~shouldTerminate =>
         /\ currentPhase = "triage" <=> task.name = "TriageAnomaly"
         /\ currentPhase = "analyst" <=> task.name = "PlanActions"
         /\ currentPhase = "executor" <=> task.name = "ExecuteActions"
         /\ currentPhase = "verifier" <=> task.name = "VerifyOutcome"
         /\ currentPhase # "completed"
    /\ currentPhase \in {"watcher", "triage", "analyst"} =>
         analysis = <<>> /\ approval = "pending" /\ timer = "unset"
    /\ currentPhase = "hil_gate" /\ ~shouldTerminate =>
         approval = "pending" /\ Decide(analysis) = "pending"
    /\ currentPhase \in {"executor", "verifier", "completed"} <=> Granted
    /\ execInput = IF Granted THEN [approval |-> approval, actions |-> analysis]
                   ELSE [approval |-> "pending", actions |-> <<>>]
    /\ approval = "auto_approved" => Decide(analysis) = "auto_approved" /\ timer = "unset"
    /\ approval = "approved" => Decide(analysis) = "pending"
    /\ currentPhase = "executor" /\ shouldTerminate => reason = "execution_error"

(* Layer 3: one caller at most was given a verdict, `responded` and `hilResult` *)
(* hold that verdict, and the workflow still waits or went by it.               *)
GateInv ==
    /\ timer = "unset" => ~responded
    /\ \A p \in Approvers : reply[p] \in {"approved", "denied"} => responded /\ hilResult = reply[p]
    /\ \A p, q \in Approvers :
          reply[p] \in {"approved", "denied"} /\ reply[q] \in {"approved", "denied"} => p = q
    /\ responded => hilResult \in {"approved", "denied"} /\ \E p \in Approvers : reply[p] = hilResult
    /\ ~responded => hilResult \in {"none", "timed_out"}
    /\ responded => \/ WaitingAtGate
                    \/ hilResult = "approved" /\ approval = "approved"
                    \/ hilResult = "denied" /\ reason = "human_denied"
    /\ approval = "approved" => responded /\ hilResult = "approved"

(* Layer 4a: where the run of ExecuteActions is and what it has carried out.   *)
RunInv ==
    \A a \in Attempts :
        /\ runs[a].results = performed
        /\ ~Granted => runs[a].pc = "idle" /\ executions = <<>>
        /\ Started("ExecuteActions") \/ task.name # "ExecuteActions" \/ runs[a].pc = "idle"
        /\ runs[a].pc \notin {"loop", "over"} => performed = <<>>
        /\ runs[a].pc \in {"idle", "resolve", "gate"} => runs[a].next = 1
        /\ runs[a].pc = "loop" => /\ Len(performed) = runs[a].next - 1
                                  /\ runs[a].next <= Len(analysis) + 1
        /\ currentPhase \in {"verifier", "completed"} =>
             /\ runs[a].pc = "over"
             /\ executions = performed
             /\ Len(performed) = Len(analysis)

(* Layer 4b: a target the run does not know to be protected was seen without   *)
(* protection, from the read of its tags on.                                   *)
SeenOpen(a, j) == Actions[j].target # NoTarget => Actions[j].target \in runs[a].exposed

Settled(a, j) ==
    Actions[j].target # NoTarget /\ ~IsProtected(runs[a].tagsByARN[Actions[j].target])
        => Actions[j].target \in runs[a].exposed

TagInv ==
    \A a \in Attempts :
        /\ runs[a].pc \in LivePCs => \A r \in Resources : ~IsProtected(tags[r]) => r \in runs[a].exposed
        /\ runs[a].pc = "tags" => \A j \in DOMAIN Actions : j < runs[a].next => Settled(a, j)
        /\ runs[a].pc = "gate" => \A j \in DOMAIN Actions : Settled(a, j)
        /\ runs[a].pc = "loop" \/ performed # <<>> => \A j \in DOMAIN Actions : SeenOpen(a, j)

IInv == TypeOK /\ PhaseInv /\ GateInv /\ OnceInOrder /\ RunInv /\ TagInv

\* The first state agrees on phase, task and reason.
LEMMA PhaseInit == Init => PhaseInv
  BY DEF Init, PhaseInv, Granted, NoTask

(* The actions that touch nothing PhaseInv speaks of. *)
LEMMA PhaseKept ==
    ASSUME PhaseInv,
           UNCHANGED <<currentPhase, approval, analysis, shouldTerminate, reason, execInput>>,
           task'.name = task.name,
           timer' = timer \/ timer # "unset"
    PROVE  PhaseInv'
<1>1. \/ currentPhase \notin {"watcher", "triage", "analyst"} /\ approval # "auto_approved"
      \/ timer' = timer
  BY DEF PhaseInv
<1>2. Granted' <=> Granted
  BY DEF Granted
<1>3. QED
  BY <1>1, <1>2 DEF PhaseInv

(* An awaited activity that is given up. *)
LEMMA PhaseFails ==
    ASSUME TypeOK, PhaseInv, NEW r \in Reasons \ {"none"}, FailAttempt(r),
           UNCHANGED <<currentPhase, approval, analysis, execInput, timer>>,
           currentPhase = "executor" => r = "execution_error",
           ~shouldTerminate
    PROVE  PhaseInv'
<1>1. task.attempt = 1
  BY DEF TypeOK, Tasks, Attempts, MaximumAttempts
<1>2. Return(r)
  BY <1>1 DEF FailAttempt, MaximumAttempts
<1>3. Granted' <=> Granted
  BY DEF Granted
<1>4. QED
  BY <1>2, <1>3 DEF Return, NoTask, PhaseInv

\* Every step keeps phase, awaited activity and reason in agreement.
LEMMA PhaseStep == TypeOK /\ PhaseInv /\ [Next]_vars => PhaseInv'
<1> SUFFICES ASSUME TypeOK, PhaseInv, [Next]_vars PROVE PhaseInv'
  OBVIOUS
<1> USE DEF stateVars, gateVars, execVars, versionVars
<1>1. CASE Watch
  BY <1>1 DEF Watch, PhaseInv, Granted, Return, Dispatch, KeepRunning, NoTask
<1>2. CASE PollTask
  <2>1. task'.name = task.name
    BY <1>2 DEF PollTask, TypeOK, Tasks
  <2>2. QED
    BY <1>2, <2>1, PhaseKept DEF PollTask
<1>3. CASE ActivityFails
  <2>1. ~shouldTerminate /\ currentPhase # "executor"
    BY <1>3 DEF ActivityFails, ActivityNames, PhaseInv
  <2>2. FailureReason[task.name] \in Reasons \ {"none"}
    BY <1>3 DEF ActivityFails, FailureReason, ActivityNames, Reasons
  <2>3. QED
    BY <1>3, <2>1, <2>2, PhaseFails DEF ActivityFails
<1>4. ASSUME NEW earlyExit \in BOOLEAN, TriageReturns(earlyExit) PROVE PhaseInv'
  BY <1>4 DEF TriageReturns, Started, PhaseInv, Granted, Return, Dispatch, KeepRunning, NoTask
<1>5. ASSUME NEW plan \in Plans, PlanReturns(plan) PROVE PhaseInv'
  <2>1. currentPhase = "analyst" /\ ~shouldTerminate /\ reason = "none"
        /\ approval = "pending" /\ timer = "unset" /\ analysis' = plan
    BY <1>5 DEF PlanReturns, Started, PhaseInv
  <2>2. CASE plan = <<>>
    BY <1>5, <2>1, <2>2 DEF PlanReturns, PhaseInv, Granted, Return, NoTask
  <2>3. CASE plan # <<>> /\ Decide(plan) = "auto_approved"
    BY <1>5, <2>1, <2>3 DEF PlanReturns, StartExecutor, Dispatch, KeepRunning, PhaseInv, Granted
  <2>4. CASE plan # <<>> /\ Decide(plan) = "denied"
    BY <1>5, <2>1, <2>4 DEF PlanReturns, PhaseInv, Granted, Return, NoTask
  <2>5. CASE plan # <<>> /\ Decide(plan) = "pending"
    BY <1>5, <2>1, <2>5 DEF PlanReturns, KeepRunning, PhaseInv, Granted, NoTask
  <2>6. QED
    BY <1>5, <2>2, <2>3, <2>4, <2>5 DEF PlanReturns
<1>6. CASE VerifyReturns
  BY <1>6 DEF VerifyReturns, Started, PhaseInv, Granted, Return, NoTask
<1>7. ASSUME NEW p \in Approvers, NEW approved \in BOOLEAN, NEW by \in BOOLEAN,
             SubmitApproval(p, approved, by)
      PROVE  PhaseInv'
  BY <1>7, PhaseKept DEF SubmitApproval
<1>8. CASE TimerFires
  BY <1>8, PhaseKept DEF TimerFires
<1>9. CASE LeaveGate
  <2>1. currentPhase = "hil_gate" /\ ~shouldTerminate /\ reason = "none" /\ Decide(analysis) = "pending"
        /\ ~Granted /\ analysis' = analysis /\ timer' = timer
    BY <1>9 DEF LeaveGate, PhaseInv
  <2>2. CASE TimerCallback = "approved"
    BY <1>9, <2>1, <2>2 DEF LeaveGate, StartExecutor, Dispatch, KeepRunning, PhaseInv, Granted
  <2>3. CASE TimerCallback \in {"denied", "timed_out"}
    BY <1>9, <2>1, <2>3 DEF LeaveGate, PhaseInv, Granted, Return, NoTask
  <2>4. QED
    BY <1>9, <2>2, <2>3 DEF LeaveGate
<1>10. ASSUME NEW a \in Attempts, ExecutorNext(a) PROVE PhaseInv'
  <2>1. CASE ResolveInfra(a) \/ FetchTags(a) \/ TagsFetched(a) \/ PassGate(a) \/ PerformAction(a) \/ WorkerCrash(a)
    BY <2>1, PhaseKept
    DEF ResolveInfra, FetchTags, TagsFetched, PassGate, PerformAction, WorkerCrash
  <2>2. CASE RunFails(a) /\ Current(a)
    <3>1. ~shouldTerminate
      BY <2>2 DEF Current, Started, PhaseInv
    <3>2. QED
      BY <2>2, <3>1, PhaseFails DEF RunFails, Reasons
  <2>3. CASE RunFails(a) /\ ~Current(a)
    BY <2>3, PhaseKept DEF RunFails
  <2>4. CASE RunReturns(a) /\ Current(a)
    BY <2>4 DEF RunReturns, Current, Started, Dispatch, PhaseInv, Granted
  <2>5. CASE RunReturns(a) /\ ~Current(a)
    BY <2>5, PhaseKept DEF RunReturns
  <2>6. QED
    BY <1>10, <2>1, <2>2, <2>3, <2>4, <2>5 DEF ExecutorNext
<1>11. CASE ExecuteTimesOut
  <2>1. ~shouldTerminate
    BY <1>11 DEF ExecuteTimesOut, Started, PhaseInv
  <2>2. QED
    BY <1>11, <2>1, PhaseFails DEF ExecuteTimesOut, Reasons
<1>12. ASSUME NEW r \in Resources, NEW tagSet \in TagSets, Retag(r, tagSet) PROVE PhaseInv'
  BY <1>12, PhaseKept DEF Retag
<1>13. CASE Deploy
  BY <1>13, PhaseKept DEF Deploy
<1>14. CASE UNCHANGED vars
  BY <1>14, PhaseKept DEF vars
<1>15. QED
  BY <1>1, <1>2, <1>3, <1>4, <1>5, <1>6, <1>7, <1>8, <1>9, <1>10, <1>11, <1>12, <1>13, <1>14 DEF Next

-----------------------------------------------------------------------------

\* At the start nobody has answered.
LEMMA GateInit == Init => GateInv
  BY DEF Init, GateInv

(* The actions that leave the gate alone, and do not end a wait. *)
LEMMA GateKept ==
    ASSUME GateInv,
           UNCHANGED <<responded, hilResult, reply>>,
           timer' = "unset" => timer = "unset",
           responded /\ WaitingAtGate => WaitingAtGate',
           responded /\ reason = "human_denied" => reason' = "human_denied",
           responded /\ approval = "approved" => approval' = "approved",
           approval' = "approved" => approval = "approved"
    PROVE  GateInv'
  BY DEF GateInv

\* Every step keeps the answer, the timer and the replies in agreement.
LEMMA GateStep == TypeOK /\ PhaseInv /\ GateInv /\ [Next]_vars => GateInv'
<1> SUFFICES ASSUME TypeOK, PhaseInv, GateInv, [Next]_vars PROVE GateInv'
  OBVIOUS
<1> USE DEF stateVars, gateVars, execVars, versionVars
<1>0. /\ currentPhase \in {"watcher", "triage", "analyst"} => ~responded
      /\ currentPhase \in {"executor", "verifier", "completed"} /\ responded => approval = "approved"
  BY DEF PhaseInv, GateInv, Granted
<1>1. CASE Watch
  BY <1>0, <1>1, GateKept DEF WaitingAtGate, Watch
<1>2. CASE PollTask
  BY <1>2, GateKept DEF WaitingAtGate, PollTask
<1>3. CASE ActivityFails
  <2>1. currentPhase # "hil_gate" /\ currentPhase \in Phases /\ reason = "none"
    BY <1>3 DEF ActivityFails, ActivityNames, PhaseInv, TypeOK
  <2>2. QED
    BY <1>0, <1>3, <2>1, GateKept DEF WaitingAtGate, ActivityFails, Phases
<1>4. ASSUME NEW earlyExit \in BOOLEAN, TriageReturns(earlyExit) PROVE GateInv'
  <2>1. currentPhase = "triage"
    BY <1>4 DEF TriageReturns, Started, PhaseInv
  <2>2. QED
    BY <1>0, <1>4, <2>1, GateKept DEF WaitingAtGate, TriageReturns
<1>5. ASSUME NEW plan \in Plans, PlanReturns(plan) PROVE GateInv'
  <2>1. currentPhase = "analyst" /\ approval = "pending"
    BY <1>5 DEF PlanReturns, Started, PhaseInv
  <2>2. ~responded /\ timer = "unset"
    BY <1>0, <2>1 DEF PhaseInv
  <2>3. approval' # "approved" /\ UNCHANGED <<responded, hilResult, reply>>
    BY <1>5, <2>1 DEF PlanReturns, StartExecutor
  <2>4. QED
    BY <2>2, <2>3, GateKept
<1>6. CASE VerifyReturns
  <2>1. currentPhase = "verifier" /\ reason = "none"
    BY <1>6 DEF VerifyReturns, Started, PhaseInv
  <2>2. QED
    BY <1>0, <1>6, <2>1, GateKept DEF WaitingAtGate, VerifyReturns
<1>7. ASSUME NEW p \in Approvers, NEW approved \in BOOLEAN, NEW by \in BOOLEAN,
             SubmitApproval(p, approved, by)
      PROVE  GateInv'
  <2>1. CASE HandlerRegistered /\ AcceptsUpdate(by)
    <3>1. ~responded /\ timer # "unset" /\ ~shouldTerminate
      BY <2>1 DEF HandlerRegistered, AcceptsUpdate
    <3>2. WaitingAtGate /\ WaitingAtGate'
      BY <1>7, <3>1 DEF SubmitApproval, WaitingAtGate, PhaseInv, GateInv, Granted, TypeOK, Phases
    <3>3. hilResult' \in {"approved", "denied"} /\ responded' /\ reply' = [reply EXCEPT ![p] = hilResult']
      BY <1>7, <2>1 DEF SubmitApproval
    <3>4. \A q \in Approvers : reply[q] \notin {"approved", "denied"}
      BY <3>1 DEF GateInv
    <3>5. reply'[p] = hilResult' /\ \A q \in Approvers : q # p => reply'[q] \notin {"approved", "denied"}
      BY <3>3, <3>4 DEF TypeOK
    <3>6. approval' # "approved" /\ timer' # "unset"
      BY <1>7, <3>1, <3>2 DEF SubmitApproval, WaitingAtGate, PhaseInv
    <3>7. QED
      BY <3>2, <3>3, <3>5, <3>6 DEF GateInv
  <2>2. CASE ~(HandlerRegistered /\ AcceptsUpdate(by))
    <3>1. /\ reply[p] = "none"
          /\ reply' = [reply EXCEPT ![p] = "rejected"]
          /\ UNCHANGED <<responded, hilResult, timer, currentPhase, shouldTerminate, approval, reason>>
      BY <1>7, <2>2 DEF SubmitApproval
    <3>2. /\ \A q \in Approvers : reply'[q] \in {"approved", "denied"} <=> reply[q] \in {"approved", "denied"}
          /\ \A q \in Approvers : reply[q] \in {"approved", "denied"} => reply'[q] = reply[q]
      BY <3>1 DEF TypeOK
    <3>3. responded => \E q \in Approvers : reply'[q] = hilResult
      BY <3>2 DEF GateInv
    <3>4. QED
      BY <3>1, <3>2, <3>3 DEF GateInv, WaitingAtGate
  <2>3. QED
    BY <2>1, <2>2
<1>8. CASE TimerFires
  BY <1>8, GateKept DEF WaitingAtGate, TimerFires
<1>9. CASE LeaveGate
  <2>1. /\ currentPhase = "hil_gate" /\ ~shouldTerminate
        /\ timer = "fired" /\ timer' = timer
        /\ UNCHANGED <<responded, reply>>
        /\ hilResult' = TimerCallback
    BY <1>9 DEF LeaveGate, SelectReady
  <2>2. CASE responded
    <3>1. hilResult' = hilResult
      BY <2>1, <2>2 DEF TimerCallback
    <3>2. CASE hilResult = "approved"
      BY <1>9, <2>1, <2>2, <3>1, <3>2 DEF LeaveGate, TimerCallback, StartExecutor, GateInv
    <3>3. CASE hilResult = "denied"
      BY <1>9, <2>1, <2>2, <3>1, <3>3 DEF LeaveGate, TimerCallback, Return, GateInv
    <3>4. QED
      BY <2>2, <3>2, <3>3 DEF GateInv
  <2>3. CASE ~responded
    BY <1>9, <2>1, <2>3 DEF LeaveGate, TimerCallback, Return, GateInv
  <2>4. QED
    BY <2>2, <2>3
<1>10. ASSUME NEW a \in Attempts, ExecutorNext(a) PROVE GateInv'
  <2>1. CASE ResolveInfra(a) \/ FetchTags(a) \/ TagsFetched(a) \/ PassGate(a) \/ PerformAction(a) \/ WorkerCrash(a)
    BY <2>1, GateKept
    DEF WaitingAtGate, ResolveInfra, FetchTags, TagsFetched, PassGate, PerformAction, WorkerCrash
  <2>2. CASE RunFails(a) \/ RunReturns(a)
    <3>1. Current(a) => currentPhase = "executor" /\ reason = "none"
      BY DEF Current, Started, PhaseInv
    <3>2. QED
      BY <1>0, <2>2, <3>1, GateKept DEF WaitingAtGate, RunFails, RunReturns
  <2>3. QED
    BY <1>10, <2>1, <2>2 DEF ExecutorNext
<1>11. CASE ExecuteTimesOut
  <2>1. currentPhase = "executor" /\ reason = "none"
    BY <1>11 DEF ExecuteTimesOut, Started, PhaseInv
  <2>2. QED
    BY <1>0, <1>11, <2>1, GateKept DEF WaitingAtGate, ExecuteTimesOut
<1>12. ASSUME NEW r \in Resources, NEW tagSet \in TagSets, Retag(r, tagSet) PROVE GateInv'
  BY <1>12, GateKept DEF WaitingAtGate, Retag
<1>13. CASE Deploy
  BY <1>13, GateKept DEF WaitingAtGate, Deploy
<1>14. CASE UNCHANGED vars
  BY <1>14, GateKept DEF WaitingAtGate, vars
<1>15. QED
  BY <1>1, <1>2, <1>3, <1>4, <1>5, <1>6, <1>7, <1>8, <1>9, <1>10, <1>11, <1>12, <1>13, <1>14 DEF Next

-----------------------------------------------------------------------------

(* There is one attempt of each activity, so one run of ExecuteActions. *)
LEMMA OneAttempt == Attempts = {1}
  BY DEF Attempts, MaximumAttempts

\* At the start no run exists and nothing is carried out.
LEMMA RunInit == Init => RunInv /\ OnceInOrder
<1> SUFFICES ASSUME Init PROVE RunInv /\ OnceInOrder
  OBVIOUS
<1>1. performed = <<>> /\ executions = <<>> /\ analysis = <<>> /\ Len(<<>>) = 0
  BY EmptySeq DEF Init
<1>2. \A a \in Attempts : runs[a].pc = "idle" /\ runs[a].next = 1 /\ runs[a].results = <<>>
  BY DEF Init, IdleRun
<1>3. task.name = "none" /\ currentPhase = "watcher"
  BY DEF Init, NoTask
<1>4. RunInv
  BY <1>1, <1>2, <1>3 DEF RunInv
<1>5. OnceInOrder
  BY <1>1 DEF OnceInOrder
<1>6. QED
  BY <1>4, <1>5

(* The steps of the workflow, its surroundings and its callers.  Before consent *)
(* was given there is no run to disturb; after it the plan is fixed.            *)
LEMMA RunKept ==
    ASSUME TypeOK, TypeOK', PhaseInv, RunInv, OnceInOrder,
           UNCHANGED <<runs, performed, executions>>,
           Granted => Granted' /\ analysis' = analysis,
           Granted /\ task'.name = "ExecuteActions" => task' = task,
           currentPhase' \in {"verifier", "completed"} => currentPhase \in {"verifier", "completed"}
    PROVE  RunInv' /\ OnceInOrder'
<1>1. CASE Granted
  <2>1. RunInv'
    BY <1>1 DEF RunInv, Started
  <2>2. OnceInOrder'
    BY <1>1 DEF OnceInOrder
  <2>3. QED
    BY <2>1, <2>2
<1>2. CASE ~Granted
  <2>1. currentPhase' \notin {"verifier", "completed"}
    BY <1>2 DEF PhaseInv
  <2>2. \A a \in Attempts : runs[a].pc = "idle" /\ runs[a].results = performed /\ runs[a].next = 1
    BY <1>2 DEF RunInv
  <2>3. performed = <<>> /\ executions = <<>>
    BY <1>2, <2>2, OneAttempt DEF RunInv
  <2>4. RunInv'
    BY <2>1, <2>2, <2>3 DEF RunInv
  <2>5. Len(analysis') \in Nat /\ Len(performed') = 0 /\ DOMAIN performed' = {}
    BY <2>3, EmptySeq, LenProperties DEF TypeOK
  <2>6. OnceInOrder'
    BY <2>5 DEF OnceInOrder
  <2>7. QED
    BY <2>4, <2>6
<1>3. QED
  BY <1>1, <1>2

(* The steps of the run that carry nothing out. *)
LEMMA RunMoves ==
    ASSUME TypeOK, RunInv, OnceInOrder, Granted, Granted',
           UNCHANGED <<performed, executions, analysis, currentPhase>>,
           currentPhase \notin {"verifier", "completed"},
           NEW a \in Attempts,
           runs'[a].results = runs[a].results,
           runs[a].pc \in {"resolve", "tags", "gate", "loop"},
           \/ runs'[a].pc = "over"
           \/ runs'[a].pc = "tags" /\ runs[a].pc # "loop"
           \/ runs'[a].pc = "gate" /\ runs[a].pc # "loop" /\ runs'[a].next = 1
           \/ runs'[a].pc = "loop" /\ runs[a].pc = "gate" /\ runs[a].next = 1 /\ runs'[a].next = 1,
           task'.name # "ExecuteActions" \/ task' = task
    PROVE  RunInv' /\ OnceInOrder'
<1>1. Len(<<>>) = 0 /\ Len(analysis) \in Nat
  BY EmptySeq, LenProperties DEF TypeOK
<1>2. Started("ExecuteActions") \/ task.name # "ExecuteActions"
  BY DEF RunInv
<1>3. RunInv'
  BY <1>1, <1>2, OneAttempt DEF RunInv, Started
<1>4. OnceInOrder'
  BY DEF OnceInOrder
<1>5. QED
  BY <1>3, <1>4

\* Every step keeps what a run did in agreement with what was carried out.
LEMMA RunStep ==
    TypeOK /\ TypeOK' /\ PhaseInv /\ RunInv /\ OnceInOrder /\ [Next]_vars => RunInv' /\ OnceInOrder'
<1> SUFFICES ASSUME TypeOK, TypeOK', PhaseInv, RunInv, OnceInOrder, [Next]_vars
             PROVE  RunInv' /\ OnceInOrder'
  OBVIOUS
<1> USE DEF stateVars, gateVars, execVars, versionVars
<1>0. Granted <=> currentPhase \in {"executor", "verifier", "completed"}
  BY DEF PhaseInv
<1>1. CASE Watch
  BY <1>0, <1>1, RunKept DEF Watch, Granted
<1>2. CASE PollTask
  <2>1. CASE task.name = "ExecuteActions"
    <3>1. PICK a \in Attempts : a = task.attempt
      BY DEF TypeOK, Tasks
    <3>2. currentPhase = "executor" /\ Granted /\ Granted'
      BY <1>2, <2>1 DEF PollTask, PhaseInv, Granted
    <3>3. runs[a].pc = "idle" /\ performed = <<>>
      BY <1>2, <2>1 DEF PollTask, RunInv, Started
    <3>4. /\ runs'[a].pc = "resolve" /\ runs'[a].next = 1 /\ runs'[a].results = <<>>
          /\ task'.status = "started" /\ task'.name = task.name
      <4>1. task'.status = "started" /\ task'.name = task.name
        BY <1>2 DEF PollTask, TypeOK, Tasks
      <4> DEFINE open == {r \in Resources : ~IsProtected(tags[r])}
      <4>2. runs'[a] = [IdleRun EXCEPT !.pc = "resolve", !.exposed = open]
        BY <1>2, <2>1, <3>1 DEF PollTask, TypeOK
      <4> HIDE DEF open
      <4>3. runs'[a].pc = "resolve" /\ runs'[a].next = 1 /\ runs'[a].results = <<>>
        BY <4>2 DEF IdleRun
      <4>4. QED
        BY <4>1, <4>3
    <3>5. UNCHANGED <<performed, executions, analysis, currentPhase>>
      BY <1>2 DEF PollTask
    <3>6. RunInv'
      BY <3>2, <3>3, <3>4, <3>5, OneAttempt DEF RunInv, Started
    <3>7. QED
      BY <3>5, <3>6 DEF OnceInOrder
  <2>2. CASE task.name # "ExecuteActions"
    <3>1. task'.name = task.name
      BY <1>2 DEF PollTask, TypeOK, Tasks
    <3>2. QED
      BY <1>2, <2>2, <3>1, RunKept DEF PollTask, Granted
  <2>3. QED
    BY <2>1, <2>2
<1>3. CASE ActivityFails
  <2>1. task.attempt = 1
    BY DEF TypeOK, Tasks, Attempts, MaximumAttempts
  <2>2. task'.name = "none"
    BY <1>3, <2>1 DEF ActivityFails, FailAttempt, MaximumAttempts, Return, NoTask
  <2>3. QED
    BY <1>3, <2>2, RunKept DEF ActivityFails, Granted
<1>4. ASSUME NEW earlyExit \in BOOLEAN, TriageReturns(earlyExit) PROVE RunInv' /\ OnceInOrder'
  <2>1. currentPhase = "triage" /\ ~Granted
    BY <1>0, <1>4 DEF TriageReturns, Started, PhaseInv
  <2>2. QED
    BY <1>4, <2>1, RunKept DEF TriageReturns
<1>5. ASSUME NEW plan \in Plans, PlanReturns(plan) PROVE RunInv' /\ OnceInOrder'
  <2>1. currentPhase = "analyst" /\ ~Granted
    BY <1>0, <1>5 DEF PlanReturns, Started, PhaseInv
  <2>2. currentPhase' \notin {"verifier", "completed"}
    BY <1>5, <2>1 DEF PlanReturns, StartExecutor
  <2>3. UNCHANGED <<runs, performed, executions>>
    BY <1>5 DEF PlanReturns
  <2>4. QED
    BY <2>1, <2>2, <2>3, RunKept
<1>6. CASE VerifyReturns
  <2>1. currentPhase = "verifier" /\ task'.name = "none"
    BY <1>6 DEF VerifyReturns, Started, PhaseInv, Return, NoTask
  <2>2. QED
    BY <1>6, <2>1, RunKept DEF VerifyReturns, Granted
<1>7. ASSUME NEW p \in Approvers, NEW approved \in BOOLEAN, NEW by \in BOOLEAN,
             SubmitApproval(p, approved, by)
      PROVE  RunInv' /\ OnceInOrder'
  BY <1>7, RunKept DEF SubmitApproval, Granted
<1>8. CASE TimerFires
  BY <1>8, RunKept DEF TimerFires, Granted
<1>9. CASE LeaveGate
  <2>1. ~Granted /\ currentPhase = "hil_gate"
    BY <1>0, <1>9 DEF LeaveGate
  <2>2. currentPhase' \notin {"verifier", "completed"}
    BY <1>9, <2>1 DEF LeaveGate, StartExecutor
  <2>3. UNCHANGED <<runs, performed, executions>>
    BY <1>9 DEF LeaveGate
  <2>4. QED
    BY <2>1, <2>2, <2>3, RunKept
<1>10. ASSUME NEW a \in Attempts, ExecutorNext(a) PROVE RunInv' /\ OnceInOrder'
  <2>1. runs[a].pc \in LivePCs
    BY <1>10 DEF ExecutorNext, ResolveInfra, FetchTags, TagsFetched, PassGate, PerformAction,
                 RunFails, RunErrors, RunReturns, WorkerCrash, LivePCs
  <2>2. Granted /\ currentPhase \notin {"verifier", "completed"} /\ currentPhase = "executor"
    BY <1>0, <2>1 DEF RunInv, LivePCs
  <2>3. Actions = analysis /\ Len(analysis) \in Nat /\ Len(performed) \in Nat
    BY <2>2, LenProperties DEF Actions, PhaseInv, TypeOK
  <2>4. CASE ResolveInfra(a)
    <3>1. runs[a].pc = "resolve" /\ runs'[a].pc = "tags" /\ runs'[a].results = runs[a].results
      BY <2>4 DEF ResolveInfra, TypeOK, Runs
    <3>2. UNCHANGED <<performed, executions, analysis, currentPhase, approval, task>>
      BY <2>4 DEF ResolveInfra
    <3>3. QED
      BY <2>2, <3>1, <3>2, RunMoves DEF Granted
  <2>5. CASE FetchTags(a)
    <3>1. runs[a].pc = "tags" /\ runs'[a].pc = "tags" /\ runs'[a].results = runs[a].results
      BY <2>5 DEF FetchTags, TypeOK, Runs
    <3>2. UNCHANGED <<performed, executions, analysis, currentPhase, approval, task>>
      BY <2>5 DEF FetchTags
    <3>3. QED
      BY <2>2, <3>1, <3>2, RunMoves DEF Granted
  <2>6. CASE TagsFetched(a)
    <3>1. runs[a].pc = "tags" /\ runs'[a].pc = "gate" /\ runs'[a].next = 1 /\ runs'[a].results = runs[a].results
      BY <2>6 DEF TagsFetched, TypeOK, Runs
    <3>2. UNCHANGED <<performed, executions, analysis, currentPhase, approval, task>>
      BY <2>6 DEF TagsFetched
    <3>3. QED
      BY <2>1, <2>2, <3>1, <3>2, RunMoves DEF Granted, LivePCs
  <2>7. CASE PassGate(a)
    <3>1. runs[a].pc = "gate" /\ runs'[a].pc = "loop" /\ runs'[a].next = runs[a].next /\ runs'[a].results = runs[a].results
      BY <2>7 DEF PassGate, TypeOK, Runs
    <3>2. UNCHANGED <<performed, executions, analysis, currentPhase, approval, task>>
      BY <2>7 DEF PassGate
    <3>3. QED
      BY <2>1, <2>2, <3>1, <3>2, RunMoves DEF Granted, LivePCs, RunInv
  <2>8. CASE WorkerCrash(a)
    <3>1. runs'[a].pc = "over" /\ runs'[a].results = runs[a].results
      BY <2>8 DEF WorkerCrash, TypeOK, Runs
    <3>2. UNCHANGED <<performed, executions, analysis, currentPhase, approval, task>>
      BY <2>8 DEF WorkerCrash
    <3>3. QED
      BY <2>1, <2>2, <3>1, <3>2, RunMoves DEF Granted, LivePCs
  <2>9. CASE PerformAction(a)
    <3>1. /\ runs[a].pc = "loop"
          /\ Len(performed) = runs[a].next - 1
          /\ runs[a].next <= Len(analysis)
          /\ runs[a].next \in Nat \ {0}
      BY <2>3, <2>9 DEF PerformAction, LoopOver, RunInv, TypeOK, Runs
    <3>2. /\ performed' = Append(performed, runs[a].next)
          /\ runs'[a].pc = "loop" /\ runs'[a].next = runs[a].next + 1
          /\ runs'[a].results = Append(runs[a].results, runs[a].next)
          /\ UNCHANGED <<executions, analysis, approval, currentPhase, task>>
      BY <2>9 DEF PerformAction, TypeOK, Runs
    <3>3. /\ Len(performed') = Len(performed) + 1
          /\ DOMAIN performed = 1..Len(performed) /\ DOMAIN performed' = 1..Len(performed')
          /\ \A i \in 1..Len(performed) : performed'[i] = performed[i]
          /\ performed'[Len(performed) + 1] = runs[a].next
      BY <3>1, <3>2, AppendProperties, LenProperties DEF TypeOK
    <3>4. runs'[a].results = performed'
      BY <3>2 DEF RunInv
    <3>5. Started("ExecuteActions") \/ task.name # "ExecuteActions"
      BY <3>1 DEF RunInv
    <3>6. RunInv'
      BY <2>2, <2>3, <3>1, <3>2, <3>3, <3>4, <3>5, OneAttempt DEF RunInv, Started, Granted
    <3>7. OnceInOrder'
      BY <2>3, <3>1, <3>2, <3>3 DEF OnceInOrder
    <3>8. QED
      BY <3>6, <3>7
  <2>10. CASE RunFails(a)
    <3>1. Current(a) => task'.name = "none"
      <4>1. task.attempt = 1
        BY DEF TypeOK, Tasks, Attempts, MaximumAttempts
      <4>2. QED
        BY <2>10, <4>1 DEF RunFails, FailAttempt, MaximumAttempts, Return, NoTask
    <3>2. ~Current(a) => task' = task
      BY <2>10 DEF RunFails
    <3>3. runs'[a].pc = "over" /\ runs'[a].results = runs[a].results
      BY <2>10 DEF RunFails, TypeOK, Runs
    <3>4. UNCHANGED <<performed, executions, analysis, currentPhase, approval>>
      BY <2>10 DEF RunFails
    <3>5. QED
      BY <2>1, <2>2, <3>1, <3>2, <3>3, <3>4, RunMoves DEF Granted, LivePCs
  <2>11. CASE RunReturns(a) /\ ~Current(a)
    <3>1. runs'[a].pc = "over" /\ runs'[a].results = runs[a].results
      BY <2>11 DEF RunReturns, TypeOK, Runs
    <3>2. UNCHANGED <<performed, executions, analysis, currentPhase, approval, task>>
      BY <2>11 DEF RunReturns
    <3>3. QED
      BY <2>1, <2>2, <3>1, <3>2, RunMoves DEF Granted, LivePCs
  <2>12. CASE RunReturns(a) /\ Current(a)
    <3>1. runs'[a].pc = "over" /\ runs'[a].results = runs[a].results
      BY <2>12 DEF RunReturns, TypeOK, Runs
    <3>2. /\ UNCHANGED <<performed, analysis, approval>>
          /\ executions' = runs[a].results
          /\ task'.name = "VerifyOutcome"
      BY <2>12 DEF RunReturns, Dispatch
    <3>3. Len(performed) = Len(analysis)
      BY <2>3, <2>12 DEF RunReturns, LoopOver, RunInv, TypeOK, Runs
    <3>4. RunInv'
      BY <2>2, <3>1, <3>2, <3>3, OneAttempt DEF RunInv, Started, Granted
    <3>5. QED
      BY <3>2, <3>4 DEF OnceInOrder
  <2>13. QED
    BY <1>10, <2>4, <2>5, <2>6, <2>7, <2>8, <2>9, <2>10, <2>11, <2>12 DEF ExecutorNext
<1>11. CASE ExecuteTimesOut
  <2>1. task.attempt = 1
    BY DEF TypeOK, Tasks, Attempts, MaximumAttempts
  <2>2. task'.name = "none"
    BY <1>11, <2>1 DEF ExecuteTimesOut, FailAttempt, MaximumAttempts, Return, NoTask
  <2>3. QED
    BY <1>11, <2>2, RunKept DEF ExecuteTimesOut, Granted
<1>12. ASSUME NEW r \in Resources, NEW tagSet \in TagSets, Retag(r, tagSet) PROVE RunInv' /\ OnceInOrder'
  <2>1. \A a \in Attempts : /\ runs'[a].pc = runs[a].pc
                            /\ runs'[a].next = runs[a].next
                            /\ runs'[a].results = runs[a].results
    BY <1>12 DEF Retag, TypeOK, Runs
  <2>2. UNCHANGED <<performed, executions, analysis, approval, currentPhase, task>>
    BY <1>12 DEF Retag
  <2>3. RunInv'
    BY <2>1, <2>2 DEF RunInv, Started, Granted
  <2>4. QED
    BY <2>2, <2>3 DEF OnceInOrder
<1>13. CASE Deploy
  BY <1>13, RunKept DEF Deploy, Granted
<1>14. CASE UNCHANGED vars
  BY <1>14, RunKept DEF vars, Granted
<1>15. QED
  BY <1>1, <1>2, <1>3, <1>4, <1>5, <1>6, <1>7, <1>8, <1>9, <1>10, <1>11, <1>12, <1>13, <1>14 DEF Next

-----------------------------------------------------------------------------

\* A run that does not exist remembers no tags.
LEMMA TagInit == Init => TagInv
  BY DEF Init, TagInv, IdleRun, LivePCs

(* The steps that concern neither the run nor the tags. *)
LEMMA TagKept ==
    ASSUME PhaseInv, RunInv, TagInv,
           UNCHANGED <<runs, performed, tags>>,
           Granted => execInput' = execInput
    PROVE  TagInv'
<1>1. CASE Granted
  BY <1>1 DEF TagInv, Settled, SeenOpen, Actions
<1>2. CASE ~Granted
  BY <1>2 DEF RunInv, TagInv, LivePCs
<1>3. QED
  BY <1>1, <1>2

(* The steps that end the run. *)
LEMMA TagOver ==
    ASSUME TagInv, NEW a \in Attempts,
           UNCHANGED <<performed, tags, execInput>>,
           runs'[a].pc = "over", runs'[a].exposed = runs[a].exposed
    PROVE  TagInv'
<1>1. \A b \in Attempts : b = a
  BY OneAttempt
<1>2. performed # <<>> => \A j \in DOMAIN Actions : SeenOpen(a, j)
  BY DEF TagInv
<1>3. performed' # <<>> => \A j \in DOMAIN Actions' : SeenOpen(a, j)'
  BY <1>2 DEF SeenOpen, Actions
<1>4. QED
  BY <1>1, <1>3 DEF TagInv, LivePCs

\* Every step keeps what a run remembers of the tags in agreement with what
\* it may have seen.
LEMMA TagStep ==
    TypeOK /\ PhaseInv /\ RunInv /\ TagInv /\ [Next]_vars => TagInv'
<1> SUFFICES ASSUME TypeOK, PhaseInv, RunInv, TagInv, [Next]_vars PROVE TagInv'
  OBVIOUS
<1> USE DEF stateVars, gateVars, execVars, versionVars
<1>0. Granted <=> currentPhase \in {"executor", "verifier", "completed"}
  BY DEF PhaseInv
<1>1. CASE Watch
  BY <1>1, TagKept DEF Watch
<1>2. CASE PollTask
  <2>1. CASE task.name = "ExecuteActions"
    <3>1. PICK a \in Attempts : a = task.attempt
      BY DEF TypeOK, Tasks
    <3>2. performed = <<>> /\ UNCHANGED <<performed, tags>>
      BY <1>2, <2>1 DEF PollTask, RunInv, Started
    <3> DEFINE open == {r \in Resources : ~IsProtected(tags[r])}
    <3>3. runs'[a] = [IdleRun EXCEPT !.pc = "resolve", !.exposed = open]
      BY <1>2, <2>1, <3>1 DEF PollTask, TypeOK
    <3>4. runs'[a].pc = "resolve" /\ runs'[a].exposed = open
      BY <3>3 DEF IdleRun
    <3>5. QED
      BY <3>2, <3>4, OneAttempt DEF TagInv
  <2>2. CASE task.name # "ExecuteActions"
    BY <1>2, <2>2, TagKept DEF PollTask
  <2>3. QED
    BY <2>1, <2>2
<1>3. CASE ActivityFails
  BY <1>3, TagKept DEF ActivityFails
<1>4. ASSUME NEW earlyExit \in BOOLEAN, TriageReturns(earlyExit) PROVE TagInv'
  BY <1>4, TagKept DEF TriageReturns
<1>5. ASSUME NEW plan \in Plans, PlanReturns(plan) PROVE TagInv'
  <2>1. ~Granted
    BY <1>0, <1>5 DEF PlanReturns, Started, PhaseInv
  <2>2. UNCHANGED <<runs, performed, tags>>
    BY <1>5 DEF PlanReturns
  <2>3. QED
    BY <2>1, <2>2, TagKept
<1>6. CASE VerifyReturns
  BY <1>6, TagKept DEF VerifyReturns
<1>7. ASSUME NEW p \in Approvers, NEW approved \in BOOLEAN, NEW by \in BOOLEAN,
             SubmitApproval(p, approved, by)
      PROVE  TagInv'
  BY <1>7, TagKept DEF SubmitApproval
<1>8. CASE TimerFires
  BY <1>8, TagKept DEF TimerFires
<1>9. CASE LeaveGate
  <2>1. ~Granted
    BY <1>0, <1>9 DEF LeaveGate
  <2>2. UNCHANGED <<runs, performed, tags>>
    BY <1>9 DEF LeaveGate
  <2>3. QED
    BY <2>1, <2>2, TagKept
<1>10. ASSUME NEW a \in Attempts, ExecutorNext(a) PROVE TagInv'
  <2> USE OneAttempt
  <2>0. /\ execInput' = execInput /\ tags' = tags
        /\ Actions' = Actions
        /\ Actions \in Seq(RecommendedActions)
        /\ Len(Actions) \in Nat /\ DOMAIN Actions = 1..Len(Actions)
    <3>1. execInput' = execInput /\ tags' = tags
      BY <1>10 DEF ExecutorNext, ResolveInfra, FetchTags, TagsFetched, PassGate, PerformAction,
                   RunFails, RunReturns, WorkerCrash
    <3>2. Actions \in Seq(RecommendedActions)
      BY DEF TypeOK, Actions
    <3>3. QED
      BY <3>1, <3>2, LenProperties DEF Actions
  <2>1. CASE ResolveInfra(a)
    <3>1. /\ runs[a].pc = "resolve" /\ runs[a].next = 1 /\ performed = <<>> /\ performed' = performed
          /\ runs'[a].pc = "tags" /\ runs'[a].next = runs[a].next /\ runs'[a].exposed = runs[a].exposed
      BY <2>1 DEF ResolveInfra, RunInv, TypeOK, Runs
    <3>2. \A j \in DOMAIN Actions : ~(j < runs'[a].next)
      BY <2>0, <3>1
    <3>3. QED
      BY <2>0, <3>1, <3>2 DEF TagInv, LivePCs
  <2>2. CASE FetchTags(a)
    <3>1. /\ runs[a].pc = "tags" /\ runs[a].next \in DOMAIN Actions /\ performed' = performed
          /\ runs'[a].pc = "tags" /\ runs'[a].next = runs[a].next + 1
          /\ runs'[a].exposed = runs[a].exposed
          /\ runs'[a].tagsByARN = IF Target(a) = NoTarget THEN runs[a].tagsByARN
                                  ELSE [runs[a].tagsByARN EXCEPT ![Target(a)] = tags[Target(a)]]
      BY <2>0, <2>2 DEF FetchTags, RememberTags, TypeOK, Runs
    <3>2. performed = <<>>
      BY <3>1 DEF RunInv
    <3>3. \A r \in Resources : ~IsProtected(tags[r]) => r \in runs[a].exposed
      BY <3>1 DEF TagInv, LivePCs
    <3>4. ASSUME NEW j \in DOMAIN Actions, j < runs'[a].next
          PROVE  Settled(a, j)'
      <4> DEFINE target == Actions[j].target
      <4>1. CASE target = NoTarget
        BY <2>0, <4>1 DEF Settled
      <4>2. CASE target # NoTarget /\ target = Target(a)
        <5>1. target \in Resources
          BY <2>0, <4>2, Positions DEF RecommendedActions
        <5>2. runs'[a].tagsByARN[target] = tags[target]
          BY <3>1, <4>2, <5>1 DEF TypeOK, Runs
        <5>3. QED
          BY <2>0, <3>1, <3>3, <5>1, <5>2 DEF Settled
      <4>3. CASE target # NoTarget /\ target # Target(a)
        <5>1. runs[a].next \in Nat /\ j \in Nat /\ j # runs[a].next
          BY <2>0, <3>1, <4>3 DEF Target
        <5>2. Settled(a, j)
          BY <3>1, <3>4, <5>1 DEF TagInv
        <5>3. target \in Resources
          BY <2>0, <4>3, Positions DEF RecommendedActions
        <5>4. runs'[a].tagsByARN[target] = runs[a].tagsByARN[target]
          BY <3>1, <4>3, <5>3 DEF TypeOK, Runs
        <5>5. QED
          BY <2>0, <3>1, <5>2, <5>4 DEF Settled
      <4>4. QED
        BY <4>1, <4>2, <4>3
    <3>5. QED
      BY <2>0, <3>1, <3>2, <3>3, <3>4 DEF TagInv
  <2>3. CASE TagsFetched(a)
    <3>1. /\ runs[a].pc = "tags" /\ runs[a].next > Len(Actions) /\ performed' = performed
          /\ runs'[a].pc = "gate" /\ runs'[a].exposed = runs[a].exposed
          /\ runs'[a].tagsByARN = runs[a].tagsByARN
      BY <2>3 DEF TagsFetched, TypeOK, Runs
    <3>2. runs[a].next \in Nat
      BY DEF TypeOK, Runs
    <3>3. \A j \in DOMAIN Actions : Settled(a, j)
      BY <2>0, <3>1, <3>2 DEF TagInv
    <3>4. \A j \in DOMAIN Actions' : Settled(a, j)'
      BY <2>0, <3>1, <3>3 DEF Settled
    <3>5. performed = <<>>
      BY <3>1 DEF RunInv
    <3>6. QED
      BY <2>0, <3>1, <3>4, <3>5 DEF TagInv, LivePCs
  <2>4. CASE PassGate(a)
    <3>1. /\ runs[a].pc = "gate" /\ performed' = performed
          /\ runs'[a].pc = "loop" /\ runs'[a].exposed = runs[a].exposed
      BY <2>4 DEF PassGate, TypeOK, Runs
    <3>2. \A j \in DOMAIN Actions : Settled(a, j)
      BY <3>1 DEF TagInv
    <3>3. \A j \in DOMAIN Actions :
            Actions[j].target # NoTarget => ~IsProtected(runs[a].tagsByARN[Actions[j].target])
      BY <2>4 DEF PassGate, GatePasses, EnforceExecutorSafety
    <3>4. \A j \in DOMAIN Actions' : SeenOpen(a, j)'
      BY <2>0, <3>1, <3>2, <3>3 DEF Settled, SeenOpen
    <3>5. QED
      BY <2>0, <3>1, <3>4 DEF TagInv, LivePCs
  <2>5. CASE PerformAction(a)
    <3>1. /\ runs[a].pc = "loop" /\ runs'[a].pc = "loop"
          /\ runs'[a].exposed = runs[a].exposed
      BY <2>5 DEF PerformAction, TypeOK, Runs
    <3>2. \A j \in DOMAIN Actions' : SeenOpen(a, j)'
      BY <2>0, <3>1 DEF TagInv, SeenOpen
    <3>3. QED
      BY <2>0, <3>1, <3>2 DEF TagInv, LivePCs
  <2>6. CASE RunFails(a)
    BY <2>0, <2>6, TagOver DEF RunFails, TypeOK, Runs
  <2>7. CASE RunReturns(a)
    BY <2>0, <2>7, TagOver DEF RunReturns, TypeOK, Runs
  <2>8. CASE WorkerCrash(a)
    BY <2>0, <2>8, TagOver DEF WorkerCrash, TypeOK, Runs
  <2>9. QED
    BY <1>10, <2>1, <2>2, <2>3, <2>4, <2>5, <2>6, <2>7, <2>8 DEF ExecutorNext
<1>11. CASE ExecuteTimesOut
  BY <1>11, TagKept DEF ExecuteTimesOut
<1>12. ASSUME NEW r \in Resources, NEW tagSet \in TagSets, Retag(r, tagSet) PROVE TagInv'
  <2>1. /\ performed' = performed /\ execInput' = execInput /\ Actions' = Actions
        /\ tags' = [tags EXCEPT ![r] = tagSet]
    BY <1>12 DEF Retag, Actions
  <2>2. ASSUME NEW a \in Attempts
        PROVE  /\ runs'[a].pc = runs[a].pc /\ runs'[a].next = runs[a].next
               /\ runs'[a].tagsByARN = runs[a].tagsByARN
               /\ runs[a].exposed \subseteq runs'[a].exposed
               /\ runs[a].pc \in LivePCs /\ ~IsProtected(tagSet) => r \in runs'[a].exposed
    BY <1>12, <2>2 DEF Retag, TypeOK, Runs
  <2>3. ASSUME NEW a \in Attempts, NEW q \in Resources, runs'[a].pc \in LivePCs, ~IsProtected(tags'[q])
        PROVE  q \in runs'[a].exposed
    <3>1. CASE q = r
      BY <2>1, <2>2, <2>3, <3>1 DEF TypeOK
    <3>2. CASE q # r
      <4>1. tags'[q] = tags[q]
        BY <2>1, <3>2 DEF TypeOK
      <4>2. QED
        BY <2>2, <2>3, <4>1 DEF TagInv
    <3>3. QED
      BY <3>1, <3>2
  <2>4. \A a \in Attempts, j \in DOMAIN Actions :
          /\ Settled(a, j) => Settled(a, j)'
          /\ SeenOpen(a, j) => SeenOpen(a, j)'
    BY <2>1, <2>2 DEF Settled, SeenOpen
  <2>5. ASSUME NEW a \in Attempts
        PROVE  /\ runs'[a].pc = "tags" => \A j \in DOMAIN Actions : j < runs'[a].next => Settled(a, j)'
               /\ runs'[a].pc = "gate" => \A j \in DOMAIN Actions : Settled(a, j)'
               /\ runs'[a].pc = "loop" \/ performed' # <<>> => \A j \in DOMAIN Actions : SeenOpen(a, j)'
    <3>1. /\ runs[a].pc = "tags" => \A j \in DOMAIN Actions : j < runs[a].next => Settled(a, j)
          /\ runs[a].pc = "gate" => \A j \in DOMAIN Actions : Settled(a, j)
          /\ runs[a].pc = "loop" \/ performed # <<>> => \A j \in DOMAIN Actions : SeenOpen(a, j)
      BY DEF TagInv
    <3>2. /\ runs'[a].pc = runs[a].pc /\ runs'[a].next = runs[a].next /\ performed' = performed
          /\ \A j \in DOMAIN Actions : Settled(a, j) => Settled(a, j)'
          /\ \A j \in DOMAIN Actions : SeenOpen(a, j) => SeenOpen(a, j)'
      BY <2>1, <2>2, <2>4
    <3>3. QED
      BY <3>1, <3>2
  <2>6. QED
    BY <2>1, <2>3, <2>5 DEF TagInv
<1>13. CASE Deploy
  BY <1>13, TagKept DEF Deploy
<1>14. CASE UNCHANGED vars
  BY <1>14, TagKept DEF vars
<1>15. QED
  BY <1>1, <1>2, <1>3, <1>4, <1>5, <1>6, <1>7, <1>8, <1>9, <1>10, <1>11, <1>12, <1>13, <1>14 DEF Next

-----------------------------------------------------------------------------
(* The theorems.                                                             *)

\* The inductive invariant holds at the start.
LEMMA InductiveInit == Init => IInv
  BY InitType, PhaseInit, GateInit, RunInit, TagInit DEF IInv

\* Every step keeps it.
LEMMA InductiveStep == IInv /\ [Next]_vars => IInv'
  BY TypeStep, PhaseStep, GateStep, RunStep, TagStep DEF IInv

\* The five layers together hold in every reachable state: phase, gate, runs and
\* tags of the lifecycle never disagree.
THEOREM Invariance == Spec => []IInv
  BY InductiveInit, InductiveStep, PTL DEF Spec

\* Something was carried out only if the decision was in favour.
LEMMA PerformedOnlyGranted ==
    ASSUME IInv, performed # <<>>
    PROVE  Granted /\ Actions = analysis
<1>1. Granted
  BY OneAttempt DEF IInv, RunInv
<1>2. QED
  BY <1>1 DEF IInv, PhaseInv, Actions

\* The invariant of the lifecycle implies that nothing is done without consent.
LEMMA ConsentOfInvariant == IInv => ConsentBeforeExecution
<1> SUFFICES ASSUME IInv, performed # <<>>
             PROVE  /\ \A i \in DOMAIN analysis : analysis[i].risk # "critical"
                    /\ \/ \A i \in DOMAIN analysis : RiskScore(analysis[i].risk) <= RiskScore("low")
                       \/ \E p \in Approvers : reply[p] = "approved"
                    /\ \A p \in Approvers : reply[p] # "denied"
  BY DEF ConsentBeforeExecution
<1>1. Granted /\ analysis \in Seq(RecommendedActions)
  BY PerformedOnlyGranted DEF IInv, TypeOK
<1>2. CASE approval = "auto_approved"
  <2>1. Decide(analysis) = "auto_approved" /\ ~responded
    BY <1>2 DEF IInv, PhaseInv, GateInv
  <2>2. /\ \A i \in DOMAIN analysis : analysis[i].risk # "critical"
        /\ \A i \in DOMAIN analysis : RiskScore(analysis[i].risk) <= RiskScore("low")
    BY <1>1, <2>1, DecideByWorstAction
  <2>3. \A p \in Approvers : reply[p] # "denied"
    BY <2>1 DEF IInv, GateInv
  <2>4. QED
    BY <2>2, <2>3
<1>3. CASE approval = "approved"
  <2>1. Decide(analysis) = "pending" /\ responded /\ hilResult = "approved"
    BY <1>3 DEF IInv, PhaseInv, GateInv
  <2>2. \A i \in DOMAIN analysis : analysis[i].risk # "critical"
    BY <1>1, <2>1, DecideByWorstAction
  <2>3. \E p \in Approvers : reply[p] = "approved"
    BY <2>1 DEF IInv, GateInv
  <2>4. \A p \in Approvers : reply[p] # "denied"
    BY <2>1 DEF IInv, GateInv
  <2>5. QED
    BY <2>2, <2>3, <2>4
<1>4. QED
  BY <1>1, <1>2, <1>3 DEF Granted

(* Nothing is carried out of a plan with a critical action, nor without the     *)
(* policy's or a caller's consent, nor against a caller's refusal.              *)
THEOREM ConsentTheorem == Spec => []ConsentBeforeExecution
  BY ConsentOfInvariant, Invariance, PTL

(* No action is carried out on a resource that was protected when a worker took *)
(* ExecuteActions up and stayed so.                                             *)
THEOREM ProtectionTheorem == Spec => []ProtectionHonoured
<1>1. IInv => ProtectionHonoured
  <2> SUFFICES ASSUME IInv, NEW a \in Attempts, NEW k \in DOMAIN runs[a].results,
                      Actions[runs[a].results[k]].target # NoTarget
               PROVE  Actions[runs[a].results[k]].target \in runs[a].exposed
    BY DEF ProtectionHonoured
  <2>1. runs[a].results = performed
    BY DEF IInv, RunInv
  <2>2. performed \in Seq(Nat \ {0}) /\ analysis \in Seq(RecommendedActions)
    BY DEF IInv, TypeOK
  <2>3. performed[k] = k /\ Len(performed) <= Len(analysis)
    BY <2>1 DEF IInv, OnceInOrder
  <2>4. performed # <<>>
    BY <2>1, EmptySeq
  <2>5. k \in DOMAIN Actions
    BY <2>1, <2>2, <2>3, <2>4, PerformedOnlyGranted, LenProperties
  <2>6. SeenOpen(a, k)
    BY <2>4, <2>5 DEF IInv, TagInv
  <2>7. QED
    BY <2>1, <2>3, <2>6 DEF SeenOpen
<1>2. QED
  BY <1>1, Invariance, PTL

(* The actions carried out are the first so many of the plan, each once. *)
THEOREM OnceInOrderTheorem == Spec => []OnceInOrder
<1>1. IInv => OnceInOrder
  BY DEF IInv
<1>2. QED
  BY <1>1, Invariance, PTL

(* A verdict given to a caller is the only one, and the workflow goes by it. *)
THEOREM AnswerTheorem == Spec => []AnswerHonoured
<1>1. IInv => AnswerHonoured
  BY DEF IInv, GateInv, AnswerHonoured
<1>2. QED
  BY <1>1, Invariance, PTL

(* Unless it says execution_error, the result reports exactly what was done. *)
THEOREM ResultTheorem == Spec => []ResultTellsEffects
<1>1. IInv => ResultTellsEffects
  <2> SUFFICES ASSUME IInv, reason \notin {"none", "execution_error"}
               PROVE  executions = performed /\ (performed = <<>> \/ Len(performed) = Len(analysis))
    BY DEF ResultTellsEffects
  <2>1. CASE Granted
    <3>1. currentPhase \in {"verifier", "completed"}
      BY <2>1 DEF IInv, PhaseInv
    <3>2. QED
      BY <3>1, OneAttempt DEF IInv, RunInv
  <2>2. CASE ~Granted
    BY <2>2, OneAttempt DEF IInv, RunInv
  <2>3. QED
    BY <2>1, <2>2
<1>2. QED
  BY <1>1, Invariance, PTL

-----------------------------------------------------------------------------
(* The lifecycle implements GatedExecution.                                  *)

\* The first state is a first state of the promise.
LEMMA GatedInit == Init => Gate!Init
<1>1. Len(<<>>) = 0
  BY EmptySeq
<1>2. QED
  BY <1>1 DEF Init, Gate!Init, Decision

(* What the refinement mapping reads is left alone, or the workflow returns. *)
LEMMA GatedReturns ==
    ASSUME IInv,
           Granted' <=> Granted,
           UNCHANGED <<execInput, performed>>,
           \/ shouldTerminate' = shouldTerminate
           \/ ~shouldTerminate /\ shouldTerminate'
    PROVE  [Gate!Next]_Gate!gateVars
<1>1. CASE shouldTerminate' = shouldTerminate
  BY <1>1 DEF Gate!gateVars, Decision, Granted
<1>2. CASE ~shouldTerminate /\ shouldTerminate' /\ Granted
  <2>1. Gate!Close
    BY <1>2 DEF Gate!Close, Decision, Granted
  <2>2. QED
    BY <2>1 DEF Gate!Next
<1>3. CASE ~shouldTerminate /\ shouldTerminate' /\ ~Granted
  <2>1. Gate!Refuse
    BY <1>3 DEF Gate!Refuse, Decision, Granted
  <2>2. QED
    BY <2>1 DEF Gate!Next
<1>4. QED
  BY <1>1, <1>2, <1>3

(* Handing a plan to the executor is the decision in its favour. *)
LEMMA GatedGrant ==
    ASSUME IInv, ~Granted, ~shouldTerminate,
           NEW decision \in {"approved", "auto_approved"},
           NEW actions \in Seq(RecommendedActions), actions # <<>>,
           StartExecutor(decision, actions),
           performed' = performed
    PROVE  [Gate!Next]_Gate!gateVars
<1>1. Len(actions) \in Nat \ {0}
  BY LenProperties, EmptySeq
<1>2. execInput'.actions = actions /\ approval' = decision /\ shouldTerminate' = shouldTerminate
  BY DEF StartExecutor, KeepRunning
<1>3. Gate!Grant
  BY <1>1, <1>2 DEF Gate!Grant, Decision, Granted
<1>4. QED
  BY <1>3 DEF Gate!Next

\* Every step of the lifecycle is a step of the promise, or changes nothing in it.
LEMMA GatedStep == IInv /\ [Next]_vars => [Gate!Next]_Gate!gateVars
<1> SUFFICES ASSUME IInv, [Next]_vars PROVE [Gate!Next]_Gate!gateVars
  OBVIOUS
<1> USE DEF stateVars, gateVars, execVars, versionVars
<1>t. shouldTerminate \in BOOLEAN /\ TypeOK /\ PhaseInv
  BY DEF IInv, TypeOK
<1>1. CASE Watch
  BY <1>1, GatedReturns DEF Watch, Return, KeepRunning, Granted
<1>2. CASE PollTask
  BY <1>2, GatedReturns DEF PollTask, Granted
<1>3. ASSUME NEW r, FailAttempt(r), UNCHANGED <<approval, execInput, performed>>, task.name # "none"
      PROVE  [Gate!Next]_Gate!gateVars
  <2>1. ~shouldTerminate
    BY <1>t, <1>3 DEF PhaseInv
  <2>2. shouldTerminate' = shouldTerminate \/ shouldTerminate'
    BY <1>3 DEF FailAttempt, Return, KeepRunning
  <2>3. QED
    BY <1>3, <2>1, <2>2, GatedReturns DEF Granted
<1>4. CASE ActivityFails
  BY <1>3, <1>4 DEF ActivityFails, ActivityNames
<1>5. ASSUME NEW earlyExit \in BOOLEAN, TriageReturns(earlyExit) PROVE [Gate!Next]_Gate!gateVars
  <2>1. ~shouldTerminate
    BY <1>t, <1>5 DEF TriageReturns, Started, PhaseInv
  <2>2. QED
    BY <1>5, <2>1, GatedReturns DEF TriageReturns, Return, KeepRunning, Granted
<1>6. ASSUME NEW plan \in Plans, PlanReturns(plan) PROVE [Gate!Next]_Gate!gateVars
  <2>1. ~shouldTerminate /\ ~Granted /\ approval = "pending" /\ performed' = performed
    BY <1>t, <1>6 DEF PlanReturns, Started, PhaseInv, Granted
  <2>2. CASE Decide(plan) = "auto_approved" /\ plan # <<>>
    BY <1>6, <2>1, <2>2, GatedGrant, LifecycleAssumption DEF PlanReturns
  <2>3. CASE ~(Decide(plan) = "auto_approved" /\ plan # <<>>)
    BY <1>6, <2>1, <2>3, GatedReturns DEF PlanReturns, Return, KeepRunning, Granted
  <2>4. QED
    BY <2>2, <2>3
<1>7. CASE VerifyReturns
  <2>1. ~shouldTerminate
    BY <1>t, <1>7 DEF VerifyReturns, Started, PhaseInv
  <2>2. QED
    BY <1>7, <2>1, GatedReturns DEF VerifyReturns, Return, Granted
<1>8. ASSUME NEW p \in Approvers, NEW approved \in BOOLEAN, NEW by \in BOOLEAN,
             SubmitApproval(p, approved, by)
      PROVE  [Gate!Next]_Gate!gateVars
  BY <1>8, GatedReturns DEF SubmitApproval, Granted
<1>9. CASE TimerFires
  BY <1>9, GatedReturns DEF TimerFires, Granted
<1>10. CASE LeaveGate
  <2>1. ~shouldTerminate /\ ~Granted /\ approval = "pending" /\ performed' = performed
    BY <1>t, <1>10 DEF LeaveGate, PhaseInv, Granted
  <2>2. analysis \in Seq(RecommendedActions) /\ analysis # <<>>
    BY <1>t, <1>10 DEF LeaveGate, PhaseInv, TypeOK, Decide
  <2>3. CASE TimerCallback = "approved"
    BY <1>10, <2>1, <2>2, <2>3, GatedGrant DEF LeaveGate
  <2>4. CASE TimerCallback # "approved"
    BY <1>10, <2>1, <2>4, GatedReturns DEF LeaveGate, Return, Granted
  <2>5. QED
    BY <2>3, <2>4
<1>11. ASSUME NEW a \in Attempts, ExecutorNext(a) PROVE [Gate!Next]_Gate!gateVars
  <2>1. CASE ResolveInfra(a) \/ FetchTags(a) \/ TagsFetched(a) \/ PassGate(a) \/ WorkerCrash(a)
    BY <2>1, GatedReturns DEF ResolveInfra, FetchTags, TagsFetched, PassGate, WorkerCrash, Granted
  <2>2. CASE PerformAction(a)
    <3>1. Granted /\ Actions = analysis /\ Len(analysis) \in Nat /\ Len(performed) \in Nat
      BY <1>t, <2>2, LenProperties DEF PerformAction, IInv, RunInv, PhaseInv, Actions, TypeOK
    <3>2. Len(performed) = runs[a].next - 1 /\ runs[a].next \in Nat /\ runs[a].next <= Len(Actions)
      BY <1>t, <2>2, <3>1 DEF PerformAction, LoopOver, IInv, RunInv, TypeOK, Runs
    <3>3. performed' = Append(performed, runs[a].next) /\ UNCHANGED <<approval, execInput, shouldTerminate>>
      BY <2>2 DEF PerformAction
    <3>4. runs[a].next = Len(performed) + 1 /\ Len(performed) < Len(execInput.actions)
      BY <3>1, <3>2 DEF Actions
    <3>5. Gate!Perform
      BY <3>1, <3>3, <3>4 DEF Gate!Perform, Decision, Granted
    <3>6. QED
      BY <3>5 DEF Gate!Next
  <2>3. CASE RunFails(a)
    <3>1. CASE Current(a)
      BY <1>3, <2>3, <3>1 DEF RunFails, Current, Started
    <3>2. CASE ~Current(a)
      BY <2>3, <3>2, GatedReturns DEF RunFails, Granted
    <3>3. QED
      BY <3>1, <3>2
  <2>4. CASE RunReturns(a)
    BY <2>4, GatedReturns DEF RunReturns, Granted
  <2>5. QED
    BY <1>11, <2>1, <2>2, <2>3, <2>4 DEF ExecutorNext
<1>12. CASE ExecuteTimesOut
  BY <1>3, <1>12 DEF ExecuteTimesOut, Started
<1>13. ASSUME NEW r \in Resources, NEW tagSet \in TagSets, Retag(r, tagSet)
       PROVE  [Gate!Next]_Gate!gateVars
  BY <1>13, GatedReturns DEF Retag, Granted
<1>14. CASE Deploy
  BY <1>14, GatedReturns DEF Deploy, Granted
<1>15. CASE UNCHANGED vars
  BY <1>15, GatedReturns DEF vars, Granted
<1>16. QED
  BY <1>1, <1>2, <1>4, <1>5, <1>6, <1>7, <1>8, <1>9, <1>10, <1>11, <1>12, <1>13, <1>14, <1>15 DEF Next

(* The lifecycle keeps the promise of GatedExecution: one decision, never taken *)
(* back, actions only after it and in order, a refused case closed for good.    *)
THEOREM Refinement == Spec => ImplementsGatedExecution
<1>1. IInv /\ [Next]_vars => [Gate!Next]_Gate!gateVars
  BY GatedStep
<1>2. QED
  BY <1>1, GatedInit, Invariance, PTL DEF Spec, Gate!Spec, ImplementsGatedExecution

-----------------------------------------------------------------------------
(* The lifecycle implements what a reader of its state sees.                 *)

Shown == analysis # <<>> \/ reason = "no_actions"

\* The first state is a first state of the view.
LEMMA ViewInit == Init => View!Init
  BY DEF Init, View!Init

(* What the view shows is left alone. *)
LEMMA ViewKept ==
    ASSUME UNCHANGED <<currentPhase, approval, analysis, shouldTerminate, reason>>
    PROVE  [View!Next]_View!viewVars
  BY DEF View!viewVars

(* While the workflow runs, a plan is shown from the gate or the executor on. *)
LEMMA ShownLate ==
    ASSUME PhaseInv, ~shouldTerminate
    PROVE  /\ reason = "none"
           /\ currentPhase \in {"watcher", "triage", "analyst"} => ~Shown
  BY DEF PhaseInv, Shown

(* An awaited activity that is given up ends the workflow with its error. *)
LEMMA ViewFails ==
    ASSUME TypeOK, PhaseInv, NEW name \in ActivityNames, Started(name),
           FailAttempt(FailureReason[name]),
           UNCHANGED <<currentPhase, approval, analysis>>
    PROVE  [View!Next]_View!viewVars
<1>1. ~shouldTerminate /\ reason = "none"
  BY DEF PhaseInv, Started, ActivityNames
<1>2. task.attempt = 1
  BY DEF TypeOK, Tasks, Attempts, MaximumAttempts
<1>3. Return(FailureReason[name])
  BY <1>2 DEF FailAttempt, MaximumAttempts
<1>4. shouldTerminate' /\ reason' = FailureReason[name]
  BY <1>3 DEF Return
<1>5. \/ currentPhase = "triage" /\ reason' = "triage_error"
      \/ currentPhase = "analyst" /\ reason' = "plan_error"
      \/ currentPhase = "executor" /\ reason' = "execution_error"
      \/ currentPhase = "verifier" /\ reason' = "verify_error"
  <2>1. \/ name = "TriageAnomaly" /\ currentPhase = "triage" /\ FailureReason[name] = "triage_error"
        \/ name = "PlanActions" /\ currentPhase = "analyst" /\ FailureReason[name] = "plan_error"
        \/ name = "ExecuteActions" /\ currentPhase = "executor" /\ FailureReason[name] = "execution_error"
        \/ name = "VerifyOutcome" /\ currentPhase = "verifier" /\ FailureReason[name] = "verify_error"
    <3>1. /\ currentPhase = "triage" <=> name = "TriageAnomaly"
          /\ currentPhase = "analyst" <=> name = "PlanActions"
          /\ currentPhase = "executor" <=> name = "ExecuteActions"
          /\ currentPhase = "verifier" <=> name = "VerifyOutcome"
      BY <1>1 DEF PhaseInv, Started
    <3>2. QED
      BY <3>1 DEF ActivityNames, FailureReason
  <2>2. QED
    BY <1>4, <2>1
<1>6. UNCHANGED (analysis # <<>> \/ reason = "no_actions")
  BY <1>1, <1>5
<1>7. View!Stop
  BY <1>1, <1>4, <1>5, <1>6 DEF View!Stop, View!Return
<1>8. QED
  BY <1>7 DEF View!Next

\* Every step of the lifecycle is a step of the view, or changes nothing in it.
LEMMA ViewStep == IInv /\ [Next]_vars => [View!Next]_View!viewVars
<1> SUFFICES ASSUME IInv, [Next]_vars PROVE [View!Next]_View!viewVars
  OBVIOUS
<1> USE DEF stateVars, gateVars, execVars, versionVars
<1>t. TypeOK /\ PhaseInv /\ RunInv
  BY DEF IInv
<1>1. CASE Watch
  <2>1. reason = "none" /\ ~Shown /\ ~shouldTerminate
    BY <1>t, <1>1, ShownLate DEF Watch
  <2>2. CASE Return("no_anomaly") /\ UNCHANGED currentPhase
    <3>1. View!Stop
      BY <1>1, <2>1, <2>2 DEF Watch, Return, View!Stop, View!Return
    <3>2. QED
      BY <3>1 DEF View!Next
  <2>3. CASE currentPhase' = "triage" /\ KeepRunning
    <3>1. View!Triage
      BY <1>1, <2>1, <2>3 DEF Watch, KeepRunning, View!Triage, View!Advance
    <3>2. QED
      BY <3>1 DEF View!Next
  <2>4. QED
    BY <1>1, <2>2, <2>3 DEF Watch
<1>2. CASE PollTask
  BY <1>2, ViewKept DEF PollTask
<1>3. CASE ActivityFails
  BY <1>t, <1>3, ViewFails DEF ActivityFails, Started
<1>4. ASSUME NEW earlyExit \in BOOLEAN, TriageReturns(earlyExit) PROVE [View!Next]_View!viewVars
  <2>1. ~shouldTerminate /\ currentPhase = "triage"
    BY <1>t, <1>4 DEF TriageReturns, Started, PhaseInv
  <2>2. reason = "none" /\ ~Shown
    BY <1>t, <2>1, ShownLate
  <2>3. CASE earlyExit
    <3>1. View!Stop
      BY <1>4, <2>1, <2>2, <2>3 DEF TriageReturns, Return, View!Stop, View!Return
    <3>2. QED
      BY <3>1 DEF View!Next
  <2>4. CASE ~earlyExit
    <3>1. View!Analyse
      BY <1>4, <2>1, <2>2, <2>4 DEF TriageReturns, KeepRunning, View!Analyse, View!Advance
    <3>2. QED
      BY <3>1 DEF View!Next
  <2>5. QED
    BY <2>3, <2>4
<1>5. ASSUME NEW plan \in Plans, PlanReturns(plan) PROVE [View!Next]_View!viewVars
  <2>1. ~shouldTerminate /\ currentPhase = "analyst"
    BY <1>t, <1>5 DEF PlanReturns, Started, PhaseInv
  <2>2. reason = "none" /\ ~Shown /\ approval = "pending" /\ analysis' = plan
    BY <1>t, <1>5, <2>1, ShownLate DEF PhaseInv, PlanReturns
  <2>3. CASE plan = <<>> /\ Return("no_actions") /\ UNCHANGED <<currentPhase, approval>>
    <3>1. View!NothingToDo
      BY <2>1, <2>2, <2>3 DEF Return, View!NothingToDo, View!Return
    <3>2. QED
      BY <3>1 DEF View!Next
  <2>4. CASE plan # <<>> /\ StartExecutor("auto_approved", plan)
    <3>1. View!Plan
      BY <2>1, <2>2, <2>4 DEF StartExecutor, KeepRunning, View!Plan, View!Advance
    <3>2. QED
      BY <3>1 DEF View!Next
  <2>5. CASE plan # <<>> /\ currentPhase' = "hil_gate" /\ approval' = "denied" /\ Return("policy_denied")
    <3>1. View!Deny
      BY <2>1, <2>2, <2>5 DEF Return, View!Deny, View!Return
    <3>2. QED
      BY <3>1 DEF View!Next
  <2>6. CASE plan # <<>> /\ currentPhase' = "hil_gate" /\ approval' = "pending" /\ KeepRunning
    <3>1. View!Plan
      BY <2>1, <2>2, <2>6 DEF KeepRunning, View!Plan, View!Advance
    <3>2. QED
      BY <3>1 DEF View!Next
  <2>7. QED
    BY <1>5, <2>3, <2>4, <2>5, <2>6 DEF PlanReturns
<1>6. CASE VerifyReturns
  <2>1. ~shouldTerminate /\ currentPhase = "verifier" /\ reason = "none"
    BY <1>t, <1>6 DEF VerifyReturns, Started, PhaseInv
  <2>2. View!Complete
    BY <1>6, <2>1 DEF VerifyReturns, Return, View!Complete, View!Return
  <2>3. QED
    BY <2>2 DEF View!Next
<1>7. ASSUME NEW p \in Approvers, NEW approved \in BOOLEAN, NEW by \in BOOLEAN,
             SubmitApproval(p, approved, by)
      PROVE  [View!Next]_View!viewVars
  BY <1>7, ViewKept DEF SubmitApproval
<1>8. CASE TimerFires
  BY <1>8, ViewKept DEF TimerFires
<1>9. CASE LeaveGate
  <2>1. ~shouldTerminate /\ currentPhase = "hil_gate" /\ reason = "none" /\ analysis' = analysis
    BY <1>t, <1>9 DEF LeaveGate, PhaseInv
  <2>2. CASE TimerCallback = "approved"
    <3>1. View!Approve
      BY <1>9, <2>1, <2>2 DEF LeaveGate, StartExecutor, KeepRunning, View!Approve, View!Advance
    <3>2. QED
      BY <3>1 DEF View!Next
  <2>3. CASE TimerCallback \in {"denied", "timed_out"}
    <3>1. View!Deny
      BY <1>9, <2>1, <2>3 DEF LeaveGate, Return, View!Deny, View!Return
    <3>2. QED
      BY <3>1 DEF View!Next
  <2>4. QED
    BY <1>9, <2>2, <2>3 DEF LeaveGate
<1>10. ASSUME NEW a \in Attempts, ExecutorNext(a) PROVE [View!Next]_View!viewVars
  <2>1. CASE \/ ResolveInfra(a) \/ FetchTags(a) \/ TagsFetched(a) \/ PassGate(a)
             \/ PerformAction(a) \/ WorkerCrash(a)
    BY <2>1, ViewKept DEF ResolveInfra, FetchTags, TagsFetched, PassGate, PerformAction, WorkerCrash
  <2>2. CASE RunFails(a)
    <3>1. CASE Current(a)
      BY <1>t, <2>2, <3>1, ViewFails DEF RunFails, Current, FailureReason, ActivityNames
    <3>2. CASE ~Current(a)
      BY <2>2, <3>2, ViewKept DEF RunFails
    <3>3. QED
      BY <3>1, <3>2
  <2>3. CASE RunReturns(a)
    <3>1. CASE Current(a)
      <4>1. ~shouldTerminate /\ currentPhase = "executor" /\ reason = "none"
        BY <1>t, <3>1 DEF Current, Started, PhaseInv
      <4>2. View!Verify
        BY <2>3, <3>1, <4>1 DEF RunReturns, View!Verify, View!Advance
      <4>3. QED
        BY <4>2 DEF View!Next
    <3>2. CASE ~Current(a)
      BY <2>3, <3>2, ViewKept DEF RunReturns
    <3>3. QED
      BY <3>1, <3>2
  <2>4. QED
    BY <1>10, <2>1, <2>2, <2>3 DEF ExecutorNext
<1>11. CASE ExecuteTimesOut
  BY <1>t, <1>11, ViewFails DEF ExecuteTimesOut, FailureReason, ActivityNames
<1>12. ASSUME NEW r \in Resources, NEW tagSet \in TagSets, Retag(r, tagSet)
       PROVE  [View!Next]_View!viewVars
  BY <1>12, ViewKept DEF Retag
<1>13. CASE Deploy
  BY <1>13, ViewKept DEF Deploy
<1>14. CASE UNCHANGED vars
  BY <1>14, ViewKept DEF vars
<1>15. QED
  BY <1>1, <1>2, <1>3, <1>4, <1>5, <1>6, <1>7, <1>8, <1>9, <1>10, <1>11, <1>12, <1>13, <1>14 DEF Next

(* Whatever reads the state of a workflow sees it go through LifecycleView: the *)
(* state stream, which is modelled against that view, runs against the          *)
(* lifecycle.                                                                   *)
THEOREM ViewRefinement == Spec => ShowsLifecycle
<1>1. IInv /\ [Next]_vars => [View!Next]_View!viewVars
  BY ViewStep
<1>2. QED
  BY <1>1, ViewInit, Invariance, PTL DEF Spec, View!Spec, ShowsLifecycle
=============================================================================
