-------------------------- MODULE ApprovalSurfacesProofs --------------------------
(***************************************************************************)
(* Whatever the surfaces do, the lifecycle they talk to is the one of      *)
(* AnomalyLifecycle, so what is proved of that holds with them; and what   *)
(* they tell their callers is so.                                          *)
(***************************************************************************)
EXTENDS ApprovalSurfaces, AnomalyLifecycleProofs

-----------------------------------------------------------------------------
(* The lifecycle under the surfaces.                                         *)

\* A step of the surfaces is one of the lifecycle, an Update of it, or nothing to it.
LEMMA StepOfLifecycle ==
    ASSUME SurfacesTypeOK, [SurfacesNext]_allVars
    PROVE  [Next]_vars
<1>1. CASE LifecycleStep
  BY <1>1 DEF LifecycleStep, Next
<1>2. ASSUME NEW c \in Approvers, Ask(c)
      PROVE  UNCHANGED vars
  BY <1>2 DEF Ask, Command, Tool, HandleApprovalAction, Click, PageStep, OpenPage,
              GetWorkflow, GetWorkflowUI, StreamSnapshot, Send, Refuse
<1>3. ASSUME NEW c \in Approvers, Deliver(c)
      PROVE  Next
  <2>1. call[c].approved \in BOOLEAN
    BY DEF SurfacesTypeOK, Calls
  <2>2. QED
    BY <1>3, <2>1 DEF Deliver, Next
<1>4. ASSUME NEW c \in Approvers, Answer(c) \/ CutOff(c)
      PROVE  UNCHANGED vars
  BY <1>4 DEF Answer, CutOff
<1>5. CASE UNCHANGED allVars
  BY <1>5 DEF allVars
<1>6. QED
  BY <1>1, <1>2, <1>3, <1>4, <1>5 DEF SurfacesNext

\* The plan in the state is one that PlanActions returned.
PlanKnown == analysis \in Plans \cup {<<>>}

\* Only the return of PlanActions sets it.
LEMMA OnlyPlanner ==
    ASSUME [Next]_vars
    PROVE  \/ \E plan \in Plans : PlanReturns(plan)
           \/ UNCHANGED analysis
<1> USE DEF stateVars, gateVars
<1>1. ASSUME NEW a \in Attempts, ExecutorNext(a) PROVE UNCHANGED analysis
  BY <1>1 DEF ExecutorNext, ResolveInfra, FetchTags, TagsFetched, PassGate, PerformAction,
              RunFails, RunReturns, WorkerCrash
<1>2. CASE \/ Watch \/ PollTask \/ ActivityFails \/ VerifyReturns \/ LeaveGate
           \/ ExecuteTimesOut \/ Deploy \/ UNCHANGED vars
  BY <1>2 DEF Watch, PollTask, ActivityFails, VerifyReturns, LeaveGate, ExecuteTimesOut, Deploy, vars
<1>3. CASE TimerFires
  BY <1>3 DEF TimerFires
<1>4. ASSUME NEW earlyExit \in BOOLEAN, TriageReturns(earlyExit) PROVE UNCHANGED analysis
  BY <1>4 DEF TriageReturns
<1>5. ASSUME NEW p \in Approvers, NEW approved \in BOOLEAN, NEW by \in BOOLEAN,
             SubmitApproval(p, approved, by)
      PROVE  UNCHANGED analysis
  BY <1>5 DEF SubmitApproval
<1>6. ASSUME NEW r \in Resources, NEW tagSet \in TagSets, Retag(r, tagSet)
      PROVE  UNCHANGED analysis
  BY <1>6 DEF Retag
<1>7. QED
  BY <1>1, <1>2, <1>3, <1>4, <1>5, <1>6 DEF Next

\* So it stays a plan.
LEMMA PlanKnownStep == PlanKnown /\ [Next]_vars => PlanKnown'
  BY OnlyPlanner DEF PlanKnown, PlanReturns

-----------------------------------------------------------------------------
(* Types of the calls and the pages.                                         *)

\* What is known of the lifecycle and of the types of the surfaces.
SurfacesInv == IInv /\ PlanKnown /\ SurfacesTypeOK

\* It holds at the start.
LEMMA SurfacesInvInit == SurfacesInit => SurfacesInv
<1> SUFFICES ASSUME SurfacesInit PROVE SurfacesInv
  OBVIOUS
<1>1. IInv
  BY InductiveInit DEF SurfacesInit
<1>2. PlanKnown
  BY DEF SurfacesInit, Init, PlanKnown
<1>3. SurfacesTypeOK
  BY DEF SurfacesInit, SurfacesTypeOK, NotAsked, NoPage, NoSchema, Unread, Calls, Pages, Schemas, Verdicts
<1>4. QED
  BY <1>1, <1>2, <1>3 DEF SurfacesInv

\* A call that is sent off or refused is a call.
LEMMA SendType ==
    ASSUME SurfacesInv, NEW c \in Approvers, NEW approved \in BOOLEAN,
           Send(c, approved) \/ Refuse(c)
    PROVE  SurfacesTypeOK'
<1>1. shouldTerminate \in BOOLEAN
  BY DEF SurfacesInv, IInv, TypeOK
<1>2. page[c].open \in BOOLEAN /\ ShownSchema(c).plan \in Plans \cup {<<>>}
  BY DEF SurfacesInv, SurfacesTypeOK, Pages, Schemas, ShownSchema
<1> DEFINE sent == [NotAsked EXCEPT !.pc = "sent", !.approved = approved,
                                    !.at_page = page[c].open, !.plan = ShownSchema(c).plan,
                                    !.planned = (analysis # <<>>), !.late = shouldTerminate]
           refused == [NotAsked EXCEPT !.pc = "over", !.told = "refused"]
<1>3. sent \in Calls /\ refused \in Calls
  BY <1>1, <1>2 DEF NotAsked, Calls
<1>4. call' = [call EXCEPT ![c] = sent] \/ call' = [call EXCEPT ![c] = refused]
  BY DEF Send, Refuse
<1>5. call' \in [Approvers -> Calls]
  <2> HIDE DEF sent, refused
  <2> QED
    BY <1>3, <1>4 DEF SurfacesInv, SurfacesTypeOK
<1>6. QED
  BY <1>5 DEF SurfacesInv, SurfacesTypeOK, Send, Refuse

\* A call whose caller was told something is a call.
LEMMA TellType ==
    ASSUME NEW old \in Calls, NEW told \in Verdicts \cup {"none", "refused", "error"}
    PROVE  [old EXCEPT !.pc = "over", !.told = told] \in Calls
  BY DEF Calls

\* Every step of a call keeps the types.
LEMMA CallType ==
    ASSUME SurfacesInv, NEW c \in Approvers, Ask(c) \/ Deliver(c) \/ Answer(c) \/ CutOff(c)
    PROVE  SurfacesTypeOK'
<1>1. ASSUME NEW form \in Forms, NEW approved \in BOOLEAN,
             Command(c, form, approved) \/ Tool(c, form, approved) \/ HandleApprovalAction(c, form, approved)
      PROVE  SurfacesTypeOK'
  BY <1>1, SendType DEF Command, Tool, HandleApprovalAction
<1>2. ASSUME NEW approved \in BOOLEAN, Click(c, approved)
      PROVE  SurfacesTypeOK'
  BY <1>2, SendType DEF Click
<1>3. CASE PageStep(c)
  <2>1. page[c] \in Pages
    BY DEF SurfacesInv, SurfacesTypeOK
  <2>2. PICK p \in Pages : page' = [page EXCEPT ![c] = p]
    <3>1. CASE OpenPage(c)
      <4>1. [NoPage EXCEPT !.open = TRUE] \in Pages
        BY DEF NoPage, NoSchema, Unread, Pages, Schemas
      <4>2. QED
        BY <3>1, <4>1 DEF OpenPage
    <3>2. CASE GetWorkflow(c)
      <4> DEFINE result == [read |-> TRUE, pending |-> IsPending, ended |-> shouldTerminate]
      <4>1. result \in [read : BOOLEAN, pending : BOOLEAN, ended : BOOLEAN]
        BY DEF IsPending, SurfacesInv, IInv, TypeOK
      <4>2. page' = [page EXCEPT ![c] = [page[c] EXCEPT !.result = result]]
        BY <3>2 DEF GetWorkflow
      <4> HIDE DEF result
      <4>3. [page[c] EXCEPT !.result = result] \in Pages
        BY <2>1, <4>1 DEF Pages
      <4>4. QED
        BY <4>2, <4>3
    <3>3. Build \in Schemas
      BY DEF Build, IsPending, Schemas, SurfacesInv, PlanKnown
    <3>4. CASE GetWorkflowUI(c)
      <4>1. [page[c] EXCEPT !.schema = Build] \in Pages
        BY <2>1, <3>3 DEF Pages
      <4>2. QED
        BY <3>4, <4>1 DEF GetWorkflowUI
    <3>5. CASE StreamSnapshot(c)
      <4>1. [page[c] EXCEPT !.streamed = Build] \in Pages
        BY <2>1, <3>3 DEF Pages
      <4>2. QED
        BY <3>5, <4>1 DEF StreamSnapshot
    <3>6. QED
      BY <1>3, <3>1, <3>2, <3>4, <3>5 DEF PageStep
  <2>3. UNCHANGED call
    BY <1>3 DEF PageStep, OpenPage, GetWorkflow, GetWorkflowUI, StreamSnapshot
  <2>4. QED
    BY <2>2, <2>3 DEF SurfacesInv, SurfacesTypeOK
<1>4. CASE Deliver(c)
  <2>1. call[c] \in Calls
    BY DEF SurfacesInv, SurfacesTypeOK
  <2> DEFINE handled == [call[c] EXCEPT !.pc = IF call[c].told = "none" THEN "handled" ELSE "over"]
  <2>2. handled \in Calls
    BY <2>1 DEF Calls
  <2>3. call' = [call EXCEPT ![c] = handled]
    BY <1>4 DEF Deliver
  <2>4. call' \in [Approvers -> Calls]
    <3> HIDE DEF handled
    <3> QED
      BY <2>2, <2>3 DEF SurfacesInv, SurfacesTypeOK
  <2>5. UNCHANGED page
    BY <1>4 DEF Deliver
  <2>6. QED
    BY <2>4, <2>5 DEF SurfacesInv, SurfacesTypeOK
<1>5. CASE Answer(c)
  <2>1. reply[c] \in {"none", "approved", "denied", "rejected"}
    BY DEF SurfacesInv, IInv, TypeOK
  <2>2. reply[c] # "rejected" => Tell(c) \in Verdicts \cup {"none"}
    BY <2>1 DEF Tell, Verdicts
  <2>3. reply[c] = "rejected" => Tell(c) = "error"
    BY DEF Tell
  <2>4. Tell(c) \in Verdicts \cup {"none", "refused", "error"}
    BY <2>2, <2>3
  <2> DEFINE answered == [call[c] EXCEPT !.pc = "over", !.told = Tell(c)]
  <2>5. answered \in Calls
    BY <2>4, TellType DEF SurfacesInv, SurfacesTypeOK
  <2>6. call' = [call EXCEPT ![c] = answered]
    BY <1>5 DEF Answer
  <2>7. call' \in [Approvers -> Calls]
    <3> HIDE DEF answered
    <3> QED
      BY <2>5, <2>6 DEF SurfacesInv, SurfacesTypeOK
  <2>8. page' \in [Approvers -> Pages]
    BY <1>5 DEF Answer, SurfacesInv, SurfacesTypeOK, NoPage, NoSchema, Unread, Pages, Schemas
  <2>9. QED
    BY <2>7, <2>8 DEF SurfacesTypeOK
<1>6. CASE CutOff(c)
  <2>1. call[c] \in Calls
    BY DEF SurfacesInv, SurfacesTypeOK
  <2> DEFINE cut == [call[c] EXCEPT !.pc = IF call[c].pc = "handled" THEN "over" ELSE call[c].pc,
                                    !.told = "error", !.lost = TRUE]
  <2>2. cut \in Calls
    BY <2>1 DEF Calls
  <2>3. call' = [call EXCEPT ![c] = cut]
    BY <1>6 DEF CutOff
  <2>4. call' \in [Approvers -> Calls]
    <3> HIDE DEF cut
    <3> QED
      BY <2>2, <2>3 DEF SurfacesInv, SurfacesTypeOK
  <2>5. UNCHANGED page
    BY <1>6 DEF CutOff
  <2>6. QED
    BY <2>4, <2>5 DEF SurfacesInv, SurfacesTypeOK
<1>7. QED
  BY <1>1, <1>2, <1>3, <1>4, <1>5, <1>6 DEF Ask

\* So does every step.
LEMMA SurfacesInvStep == SurfacesInv /\ [SurfacesNext]_allVars => SurfacesInv'
<1> SUFFICES ASSUME SurfacesInv, [SurfacesNext]_allVars PROVE SurfacesInv'
  OBVIOUS
<1>1. [Next]_vars
  BY StepOfLifecycle DEF SurfacesInv
<1>2. IInv' /\ PlanKnown'
  BY <1>1, InductiveStep, PlanKnownStep DEF SurfacesInv
<1>3. CASE LifecycleStep \/ UNCHANGED allVars
  BY <1>2, <1>3 DEF LifecycleStep, surfaceVars, allVars, SurfacesInv, SurfacesTypeOK
<1>4. ASSUME NEW c \in Approvers, Ask(c) \/ Deliver(c) \/ Answer(c) \/ CutOff(c)
      PROVE  SurfacesInv'
  BY <1>2, <1>4, CallType DEF SurfacesInv
<1>5. QED
  BY <1>3, <1>4 DEF SurfacesNext

(* Nobody is told anything but a verdict, a refusal or an error, and nobody is  *)
(* shown a plan that is not one (handlers.go:73-104, page.tsx:17-30).           *)
THEOREM SurfacesTypeCorrect == SurfacesSpec => []SurfacesTypeOK
<1>1. SurfacesInv => SurfacesTypeOK
  BY DEF SurfacesInv
<1>2. QED
  BY <1>1, SurfacesInvInit, SurfacesInvStep, PTL DEF SurfacesSpec

(* The calls of the surfaces are Updates of the lifecycle and nothing else they *)
(* do touches it: every property of its Spec holds with them (main.go:159-177,  *)
(* querier.go:126-142).                                                         *)
THEOREM SurfacesRunLifecycle == SurfacesSpec => Spec
<1>1. SurfacesInit => Init
  BY DEF SurfacesInit
<1>2. SurfacesInv /\ [SurfacesNext]_allVars => [Next]_vars
  BY StepOfLifecycle DEF SurfacesInv
<1>3. QED
  BY <1>1, <1>2, SurfacesInvInit, SurfacesInvStep, PTL DEF SurfacesSpec, Spec

-----------------------------------------------------------------------------
(* What the callers are told.                                                *)

\* A verdict of the workflow is the answer of the call, and what a caller was told is
\* what the workflow made of its Update.
TruthOf(c) ==
    /\ call[c].pc = "idle" => reply[c] = "none" /\ call[c].told = "none"
    /\ call[c].pc = "handled" => reply[c] # "none"
    /\ Counts(c) => reply[c] = Verdict(call[c].approved)
    /\ call[c].told \in Verdicts => reply[c] = call[c].told
    /\ call[c].told = "error" /\ ~call[c].lost => reply[c] = "rejected"

TruthInv == \A c \in Approvers : TruthOf(c)

\* Nobody has asked at the start.
LEMMA TruthInit == SurfacesInit => TruthInv
  BY DEF SurfacesInit, Init, NotAsked, TruthInv, TruthOf, Counts, Verdicts

\* Only an Update answers a call.
LEMMA LifecycleKeepsReplies ==
    ASSUME LifecycleStep
    PROVE  UNCHANGED <<reply, call>>
<1>1. ASSUME NEW a \in Attempts, ExecutorNext(a) PROVE UNCHANGED reply
  BY <1>1 DEF ExecutorNext, ResolveInfra, FetchTags, TagsFetched, PassGate, PerformAction,
              RunFails, RunReturns, WorkerCrash
<1>2. CASE \/ Watch \/ PollTask \/ ActivityFails \/ VerifyReturns \/ TimerFires \/ LeaveGate
           \/ ExecuteTimesOut \/ Deploy
  BY <1>2 DEF Watch, PollTask, ActivityFails, VerifyReturns, TimerFires, LeaveGate,
              ExecuteTimesOut, Deploy, LifecycleStep, surfaceVars
<1>3. ASSUME NEW earlyExit \in BOOLEAN, TriageReturns(earlyExit) PROVE UNCHANGED reply
  BY <1>3 DEF TriageReturns
<1>4. ASSUME NEW plan \in Plans, PlanReturns(plan) PROVE UNCHANGED reply
  BY <1>4 DEF PlanReturns
<1>5. ASSUME NEW r \in Resources, NEW tagSet \in TagSets, Retag(r, tagSet) PROVE UNCHANGED reply
  BY <1>5 DEF Retag
<1>6. QED
  BY <1>1, <1>2, <1>3, <1>4, <1>5 DEF LifecycleStep, surfaceVars

\* The calls other than the one that moves stay as they are.
LEMMA TruthOfOthers ==
    ASSUME TruthInv, NEW c \in Approvers, NEW d \in Approvers,
           call'[d] = call[d], reply'[d] = reply[d]
    PROVE  TruthOf(d)'
  BY DEF TruthInv, TruthOf, Counts

\* Asking, handling, answering and being cut off each keep it.
LEMMA TruthStep == SurfacesInv /\ TruthInv /\ [SurfacesNext]_allVars => TruthInv'
<1> SUFFICES ASSUME SurfacesInv, TruthInv, [SurfacesNext]_allVars PROVE TruthInv'
  OBVIOUS
<1> USE DEF Counts
<1>1. CASE LifecycleStep \/ UNCHANGED allVars
  BY <1>1, LifecycleKeepsReplies DEF allVars, vars, surfaceVars, TruthInv, TruthOf
<1>2. ASSUME NEW c \in Approvers, NEW approved \in BOOLEAN, Send(c, approved) \/ Refuse(c), call[c].pc = "idle"
      PROVE  TruthInv'
  <2>1. UNCHANGED reply /\ reply[c] = "none"
    BY <1>2 DEF Send, Refuse, vars, TruthInv, TruthOf
  <2>2. /\ call'[c].pc \in {"sent", "over"} /\ call'[c].told \in {"none", "refused"}
        /\ \A d \in Approvers \ {c} : call'[d] = call[d]
    <3>1. call \in [Approvers -> Calls]
      BY DEF SurfacesInv, SurfacesTypeOK
    <3>2. CASE Refuse(c)
      BY <3>1, <3>2 DEF Refuse, NotAsked
    <3>3. CASE Send(c, approved)
      <4> DEFINE sent == [NotAsked EXCEPT !.pc = "sent", !.approved = approved,
                                          !.at_page = page[c].open, !.plan = ShownSchema(c).plan,
                                          !.planned = (analysis # <<>>), !.late = shouldTerminate]
      <4>1. sent.pc = "sent" /\ sent.told = "none"
        BY DEF NotAsked
      <4>2. call' = [call EXCEPT ![c] = sent]
        BY <3>3 DEF Send
      <4> HIDE DEF sent
      <4>3. QED
        BY <3>1, <4>1, <4>2
    <3>4. QED
      BY <1>2, <3>2, <3>3
  <2>3. TruthOf(c)'
    BY <2>1, <2>2 DEF TruthOf, Verdicts
  <2>4. QED
    BY <2>1, <2>2, <2>3, TruthOfOthers DEF TruthInv
<1>3. ASSUME NEW c \in Approvers, Ask(c)
      PROVE  TruthInv'
  <2>1. CASE PageStep(c)
    BY <2>1 DEF PageStep, OpenPage, GetWorkflow, GetWorkflowUI, StreamSnapshot, vars, TruthInv, TruthOf
  <2>2. QED
    BY <1>2, <1>3, <2>1 DEF Ask, Command, Tool, HandleApprovalAction, Click, AtNoPage, Idle
<1>4. ASSUME NEW c \in Approvers, Deliver(c)
      PROVE  TruthInv'
  <2>1. /\ call[c].pc = "sent" /\ reply[c] = "none" /\ call[c] \in Calls
        /\ call' = [call EXCEPT ![c].pc = IF call[c].told = "none" THEN "handled" ELSE "over"]
    BY <1>4 DEF Deliver, SubmitApproval, SurfacesInv, SurfacesTypeOK
  <2>2. /\ call'[c].pc \in {"handled", "over"}
        /\ call'[c].told = call[c].told /\ call'[c].lost = call[c].lost
        /\ call'[c].approved = call[c].approved
        /\ \A d \in Approvers \ {c} : call'[d] = call[d]
    BY <2>1 DEF SurfacesInv, SurfacesTypeOK, Calls
  <2>3. /\ reply'[c] \in {Verdict(call[c].approved), "rejected"}
        /\ \A d \in Approvers \ {c} : reply'[d] = reply[d]
    BY <1>4 DEF Deliver, SubmitApproval, Verdict, SurfacesInv, IInv, TypeOK
  <2>4. TruthOf(c)'
    BY <2>1, <2>2, <2>3 DEF TruthInv, TruthOf, Verdict, Verdicts
  <2>5. QED
    BY <2>2, <2>3, <2>4, TruthOfOthers DEF TruthInv
<1>5. ASSUME NEW c \in Approvers, Answer(c)
      PROVE  TruthInv'
  <2>1. UNCHANGED reply /\ reply[c] \in {"approved", "denied", "rejected"}
    BY <1>5 DEF Answer, vars, TruthInv, TruthOf, SurfacesInv, IInv, TypeOK
  <2>2. /\ call'[c].pc = "over" /\ call'[c].told = Tell(c)
        /\ call'[c].approved = call[c].approved
        /\ \A d \in Approvers \ {c} : call'[d] = call[d]
    BY <1>5 DEF Answer, SurfacesInv, SurfacesTypeOK, Calls
  <2>3. TruthOf(c)'
    BY <2>1, <2>2 DEF TruthInv, TruthOf, Tell, Verdicts
  <2>4. QED
    BY <2>1, <2>2, <2>3, TruthOfOthers DEF TruthInv
<1>6. ASSUME NEW c \in Approvers, CutOff(c)
      PROVE  TruthInv'
  <2>1. UNCHANGED reply
    BY <1>6 DEF CutOff, vars
  <2>2. /\ call'[c].pc = (IF call[c].pc = "handled" THEN "over" ELSE "sent")
        /\ call'[c].told = "error" /\ call'[c].lost = TRUE
        /\ call'[c].approved = call[c].approved
        /\ \A d \in Approvers \ {c} : call'[d] = call[d]
    BY <1>6 DEF CutOff, SurfacesInv, SurfacesTypeOK, Calls
  <2>3. TruthOf(c)'
    BY <2>1, <2>2 DEF TruthInv, TruthOf, Verdicts
  <2>4. QED
    BY <2>1, <2>2, <2>3, TruthOfOthers DEF TruthInv
<1>7. QED
  BY <1>1, <1>3, <1>4, <1>5, <1>6 DEF SurfacesNext

(* What a person is told is so: a verdict is their own answer and what the      *)
(* workflow goes by, and an error of a call that was not cut off means that it  *)
(* does not count (main.go:163-177, handlers.go:98-103).                        *)
THEOREM ToldIsTrueTheorem == SurfacesSpec => []ToldIsTrue
<1>1. SurfacesInv /\ TruthInv => ToldIsTrue
  BY DEF SurfacesInv, TruthInv, TruthOf, IInv, GateInv, ToldIsTrue, Counts, Verdicts
<1>2. QED
  BY <1>1, SurfacesInvInit, SurfacesInvStep, TruthInit, TruthStep, PTL DEF SurfacesSpec

-----------------------------------------------------------------------------
(* What the callers asked about, and when.                                   *)

\* What is shown of the plan, which is none or the one there is and will be.
PlanOrNone(plan) == plan \in {<<>>, analysis}

\* There is something to decide about, or the workflow has returned.
Decidable == analysis # <<>> \/ shouldTerminate

\* A page that may have buttons was loaded when there was a plan, and whatever it shows
\* of one is this plan; the same of a call made from it; a call made after the return
\* does not count; and a call is answered once its Update was handled.
AskOf(c) ==
    /\ page[c].result.pending => Decidable
    /\ PlanOrNone(page[c].schema.plan) /\ PlanOrNone(page[c].streamed.plan)
    /\ call[c].at_page => call[c].planned \/ call[c].late
    /\ PlanOrNone(call[c].plan)
    /\ call[c].late => shouldTerminate /\ ~Counts(c)
    /\ call[c].pc = "sent" => reply[c] = "none"
    /\ call[c].pc = "over" => call[c].told # "none"
    /\ call[c].told = "refused" => call[c].pc = "over" /\ reply[c] = "none"

AskInv == \A c \in Approvers : AskOf(c)

\* The strengthened invariant of the surfaces.
SurfacesIInv == SurfacesInv /\ TruthInv /\ AskInv

\* At the start there is no page and no call.
LEMMA AskInit == SurfacesInit => AskInv
  BY DEF SurfacesInit, Init, NotAsked, NoPage, NoSchema, Unread, AskInv, AskOf, PlanOrNone

\* A workflow that returned stays as it was shown.
LEMMA ReturnStays ==
    ASSUME IInv, [Next]_vars, shouldTerminate
    PROVE  shouldTerminate' /\ UNCHANGED reason
<1>1. [View!Next]_(View!viewVars)
  BY ViewStep
<1>2. View!Next => FALSE
  BY DEF View!Next, View!Triage, View!Analyse, View!Plan, View!Approve, View!Verify, View!Advance,
         View!Stop, View!NothingToDo, View!Deny, View!Complete, View!Return
<1>3. QED
  BY <1>1, <1>2 DEF View!viewVars

\* Once there is a plan, or the workflow returned without one, there is no other.
LEMMA PlanStays ==
    ASSUME IInv, [Next]_vars, analysis # <<>> \/ shouldTerminate
    PROVE  UNCHANGED analysis
<1>1. ASSUME NEW plan \in Plans, PlanReturns(plan) PROVE FALSE
  BY <1>1 DEF PlanReturns, Started, IInv, PhaseInv
<1>2. QED
  BY <1>1, OnlyPlanner

\* So what was shown of it stays so, and what could be decided still can.
LEMMA ShownStays ==
    ASSUME IInv, [Next]_vars
    PROVE  /\ \A plan : PlanOrNone(plan) => PlanOrNone(plan)'
           /\ Decidable => Decidable'
<1>1. CASE analysis = <<>>
  BY <1>1, ReturnStays DEF PlanOrNone, Decidable
<1>2. CASE analysis # <<>>
  BY <1>2, PlanStays DEF PlanOrNone, Decidable
<1>3. QED
  BY <1>1, <1>2

\* A workflow that returned has no handler for an Update any more.
LEMMA CountsOnlyWhileRunning ==
    ASSUME SurfacesInv, NEW c \in Approvers, Deliver(c), shouldTerminate
    PROVE  reply'[c] = "rejected"
  BY DEF Deliver, SubmitApproval, HandlerRegistered, SurfacesInv, IInv, TypeOK

\* What a call asked about, as long as neither it nor its answer changes.
LEMMA AskOfOthers ==
    ASSUME SurfacesInv, AskInv, [Next]_vars, NEW d \in Approvers,
           call'[d] = call[d], page'[d] = page[d], reply'[d] = reply[d]
    PROVE  AskOf(d)'
<1>1. AskOf(d)
  BY DEF AskInv
<1>2. /\ PlanOrNone(page[d].schema.plan)' /\ PlanOrNone(page[d].streamed.plan)'
      /\ PlanOrNone(call[d].plan)'
  BY <1>1, ShownStays DEF SurfacesInv, AskOf, PlanOrNone
<1>3. Decidable => Decidable'
  BY ShownStays DEF SurfacesInv
<1>4. shouldTerminate => shouldTerminate'
  BY ReturnStays DEF SurfacesInv
<1>5. Counts(d)' <=> Counts(d)
  BY DEF Counts
<1>6. QED
  BY <1>1, <1>2, <1>3, <1>4, <1>5 DEF AskOf

\* Asking, handling, answering and being cut off each keep it.
LEMMA AskStep ==
    SurfacesInv /\ TruthInv /\ AskInv /\ [SurfacesNext]_allVars => AskInv'
<1> SUFFICES ASSUME SurfacesInv, TruthInv, AskInv, [SurfacesNext]_allVars PROVE AskInv'
  OBVIOUS
<1>1. [Next]_vars
  BY StepOfLifecycle DEF SurfacesInv
<1>2. CASE LifecycleStep \/ UNCHANGED allVars
  BY <1>1, <1>2, LifecycleKeepsReplies, AskOfOthers
     DEF LifecycleStep, allVars, vars, surfaceVars, AskInv
<1>3. ASSUME NEW c \in Approvers, NEW approved \in BOOLEAN, Send(c, approved) \/ Refuse(c),
             call[c].pc = "idle", page[c].open => page[c].result.pending
      PROVE  AskInv'
  <2>1. UNCHANGED <<vars, page>> /\ reply[c] = "none"
    BY <1>3 DEF Send, Refuse, TruthInv, TruthOf
  <2>2. \A d \in Approvers \ {c} : call'[d] = call[d]
    BY <1>3 DEF Send, Refuse, SurfacesInv, SurfacesTypeOK
  <2>3. \/ /\ call'[c].pc = "sent" /\ call'[c].told = "none"
           /\ call'[c].at_page = page[c].open /\ call'[c].plan = ShownSchema(c).plan
           /\ call'[c].planned = (analysis # <<>>) /\ call'[c].late = shouldTerminate
        \/ /\ call'[c].pc = "over" /\ call'[c].told = "refused" /\ call'[c].plan = <<>>
           /\ call'[c].at_page = FALSE /\ call'[c].late = FALSE
    <3>1. CASE Send(c, approved)
      <4> DEFINE sent == [NotAsked EXCEPT !.pc = "sent", !.approved = approved,
                                          !.at_page = page[c].open, !.plan = ShownSchema(c).plan,
                                          !.planned = (analysis # <<>>), !.late = shouldTerminate]
      <4>1. /\ sent.pc = "sent" /\ sent.told = "none" /\ sent.plan = ShownSchema(c).plan
            /\ sent.at_page = page[c].open /\ sent.late = shouldTerminate
            /\ sent.planned = (analysis # <<>>)
        BY DEF NotAsked
      <4>2. call'[c] = sent
        BY <3>1 DEF Send, SurfacesInv, SurfacesTypeOK
      <4> HIDE DEF sent
      <4>3. QED
        BY <4>1, <4>2
    <3>2. CASE Refuse(c)
      BY <3>2 DEF Refuse, NotAsked, SurfacesInv, SurfacesTypeOK
    <3>3. QED
      BY <1>3, <3>1, <3>2
  <2>4. AskOf(c)
    BY DEF AskInv
  <2>5. AskOf(c)'
    <3>1. /\ UNCHANGED <<page, reply, analysis, shouldTerminate>>
          /\ reply'[c] = "none" /\ ~Counts(c)'
      BY <2>1 DEF vars, stateVars, Counts, Verdicts
    <3>2. /\ Decidable' <=> Decidable
          /\ \A plan : PlanOrNone(plan)' <=> PlanOrNone(plan)
      BY <3>1 DEF Decidable, PlanOrNone
    <3>3. /\ page'[c].result.pending => Decidable'
          /\ PlanOrNone(page[c].schema.plan)' /\ PlanOrNone(page[c].streamed.plan)'
      BY <2>4, <3>1, <3>2 DEF AskOf, PlanOrNone
    <3>4. PlanOrNone(call[c].plan)'
      BY <2>3, <2>4, <3>1 DEF AskOf, ShownSchema, PlanOrNone
    <3>5. call'[c].at_page => call'[c].planned \/ call'[c].late
      BY <1>3, <2>3, <2>4 DEF AskOf, Decidable
    <3>6. call'[c].late => shouldTerminate'
      BY <2>3, <3>1
    <3>7. QED
      BY <2>3, <3>1, <3>3, <3>4, <3>5, <3>6 DEF AskOf
  <2>6. QED
    BY <1>1, <2>1, <2>2, <2>5, AskOfOthers DEF AskInv, vars
<1>4. ASSUME NEW c \in Approvers, PageStep(c)
      PROVE  AskInv'
  <2>1. UNCHANGED <<vars, call>> /\ call[c].pc = "idle"
    BY <1>4 DEF PageStep, OpenPage, GetWorkflow, GetWorkflowUI, StreamSnapshot, Idle
  <2>2. \A d \in Approvers \ {c} : page'[d] = page[d]
    BY <1>4 DEF PageStep, OpenPage, GetWorkflow, GetWorkflowUI, StreamSnapshot, SurfacesInv, SurfacesTypeOK
  <2>3. IsPending => Decidable
    BY DEF IsPending, Decidable, SurfacesInv, IInv, PhaseInv
  <2>4. AskOf(c)
    BY DEF AskInv
  <2>5. /\ page'[c].result.pending => Decidable
        /\ PlanOrNone(page'[c].schema.plan) /\ PlanOrNone(page'[c].streamed.plan)
    <3>1. page \in [Approvers -> Pages]
      BY DEF SurfacesInv, SurfacesTypeOK
    <3>2. Build.plan = analysis
      BY DEF Build
    <3>3. CASE OpenPage(c)
      BY <3>1, <3>3 DEF OpenPage, NoPage, NoSchema, Unread, PlanOrNone
    <3>4. CASE GetWorkflow(c)
      <4>1. /\ page'[c].result.pending = IsPending
            /\ page'[c].schema = page[c].schema /\ page'[c].streamed = page[c].streamed
        BY <3>1, <3>4 DEF GetWorkflow, Pages
      <4>2. QED
        BY <2>3, <2>4, <4>1 DEF AskOf
    <3>5. CASE GetWorkflowUI(c)
      <4>1. /\ page'[c].result = page[c].result
            /\ page'[c].schema = Build /\ page'[c].streamed = page[c].streamed
        BY <3>1, <3>5 DEF GetWorkflowUI, Pages
      <4>2. QED
        BY <2>4, <3>2, <4>1 DEF AskOf, PlanOrNone
    <3>6. CASE StreamSnapshot(c)
      <4>1. /\ page'[c].result = page[c].result
            /\ page'[c].schema = page[c].schema /\ page'[c].streamed = Build
        BY <3>1, <3>6 DEF StreamSnapshot, Pages
      <4>2. QED
        BY <2>4, <3>2, <4>1 DEF AskOf, PlanOrNone
    <3>7. QED
      BY <1>4, <3>3, <3>4, <3>5, <3>6 DEF PageStep
  <2>6. AskOf(c)'
    BY <2>1, <2>4, <2>5 DEF AskOf, Counts, Decidable, PlanOrNone, vars, stateVars
  <2>7. QED
    BY <1>1, <2>1, <2>2, <2>6, AskOfOthers DEF AskInv, vars
<1>5. ASSUME NEW c \in Approvers, Ask(c)
      PROVE  AskInv'
  <2>1. ASSUME NEW form \in Forms, NEW approved \in BOOLEAN,
               Command(c, form, approved) \/ Tool(c, form, approved) \/ HandleApprovalAction(c, form, approved)
        PROVE  AskInv'
    BY <1>3, <2>1 DEF Command, Tool, HandleApprovalAction, AtNoPage, Idle
  <2>2. ASSUME NEW approved \in BOOLEAN, Click(c, approved)
        PROVE  AskInv'
    BY <1>3, <2>2 DEF Click, HasButtons, Idle
  <2>3. QED
    BY <1>4, <1>5, <2>1, <2>2 DEF Ask
<1>6. ASSUME NEW c \in Approvers, Deliver(c)
      PROVE  AskInv'
  <2>1. /\ UNCHANGED <<stateVars, page>>
        /\ call[c].pc = "sent" /\ reply[c] = "none"
        /\ \A d \in Approvers \ {c} : reply'[d] = reply[d] /\ call'[d] = call[d]
    BY <1>6 DEF Deliver, SubmitApproval, SurfacesInv, SurfacesTypeOK, IInv, TypeOK
  <2>2. /\ call'[c].pc = (IF call[c].told = "none" THEN "handled" ELSE "over")
        /\ call'[c].told = call[c].told /\ call'[c].at_page = call[c].at_page
        /\ call'[c].plan = call[c].plan /\ call'[c].planned = call[c].planned
        /\ call'[c].late = call[c].late
    BY <1>6 DEF Deliver, SurfacesInv, SurfacesTypeOK, Calls
  <2>3. call[c].late => reply'[c] = "rejected"
    BY <1>6, CountsOnlyWhileRunning DEF AskInv, AskOf
  <2>4. call[c].told # "refused"
    BY <2>1 DEF AskInv, AskOf
  <2>5. AskOf(c)'
    BY <2>1, <2>2, <2>3, <2>4 DEF AskInv, AskOf, Counts, Verdicts, Decidable, PlanOrNone, stateVars
  <2>6. QED
    BY <1>1, <2>1, <2>5, AskOfOthers DEF AskInv
<1>7. ASSUME NEW c \in Approvers, Answer(c)
      PROVE  AskInv'
  <2>1. /\ UNCHANGED vars
        /\ call[c].pc = "handled" /\ reply[c] \in {"approved", "denied", "rejected"}
        /\ \A d \in Approvers \ {c} : call'[d] = call[d] /\ page'[d] = page[d]
    BY <1>7 DEF Answer, TruthInv, TruthOf, SurfacesInv, SurfacesTypeOK, IInv, TypeOK
  <2>2. /\ call'[c].pc = "over" /\ call'[c].told = Tell(c)
        /\ call'[c].at_page = call[c].at_page
        /\ call'[c].plan = call[c].plan /\ call'[c].planned = call[c].planned
        /\ call'[c].late = call[c].late
        /\ page'[c] \in {page[c], NoPage}
    BY <1>7 DEF Answer, SurfacesInv, SurfacesTypeOK, Calls
  <2>3. Tell(c) \in {"approved", "denied", "error"}
    BY <2>1 DEF Tell
  <2>4. AskOf(c)'
    BY <2>1, <2>2, <2>3 DEF AskInv, AskOf, Counts, Decidable, PlanOrNone, NoPage, NoSchema, Unread, vars, stateVars
  <2>5. QED
    BY <1>1, <2>1, <2>4, AskOfOthers DEF AskInv, vars
<1>8. ASSUME NEW c \in Approvers, CutOff(c)
      PROVE  AskInv'
  <2>1. /\ UNCHANGED <<vars, page>>
        /\ call[c].pc \in {"sent", "handled"}
        /\ \A d \in Approvers \ {c} : call'[d] = call[d]
    BY <1>8 DEF CutOff, SurfacesInv, SurfacesTypeOK
  <2>2. /\ call'[c].pc = (IF call[c].pc = "handled" THEN "over" ELSE "sent")
        /\ call'[c].told = "error" /\ call'[c].at_page = call[c].at_page
        /\ call'[c].plan = call[c].plan /\ call'[c].planned = call[c].planned
        /\ call'[c].late = call[c].late
    BY <1>8, <2>1 DEF CutOff, SurfacesInv, SurfacesTypeOK, Calls
  <2>3. AskOf(c)'
    BY <2>1, <2>2 DEF AskInv, AskOf, Counts, Decidable, PlanOrNone, vars, stateVars
  <2>4. QED
    BY <1>1, <2>1, <2>3, AskOfOthers DEF AskInv, vars
<1>9. QED
  BY <1>2, <1>5, <1>6, <1>7, <1>8 DEF SurfacesNext

\* The strengthened invariant holds in every state of the surfaces.
LEMMA SurfacesInvariance == SurfacesSpec => []SurfacesIInv
<1>1. SurfacesInit => SurfacesIInv
  BY SurfacesInvInit, TruthInit, AskInit DEF SurfacesIInv
<1>2. SurfacesIInv /\ [SurfacesNext]_allVars => SurfacesIInv'
  BY SurfacesInvStep, TruthStep, AskStep DEF SurfacesIInv
<1>3. QED
  BY <1>1, <1>2, PTL DEF SurfacesSpec

(* Whoever asks after the workflow returned is never told a verdict             *)
(* (builder.go:34, page.tsx:30).                                                *)
THEOREM LateAskTheorem == SurfacesSpec => []LateAskNeverCounts
<1>1. SurfacesIInv => LateAskNeverCounts
  BY DEF SurfacesIInv, AskInv, AskOf, TruthInv, TruthOf, Counts, LateAskNeverCounts
<1>2. QED
  BY <1>1, SurfacesInvariance, PTL

(* An answer from the page that counts was asked for when its plan was there, and *)
(* under that plan or none: the state that gives the page its buttons and the     *)
(* schema it shows may have been read at any two times, and no Update is too late   *)
(* for a plan made later (page.tsx:23-30, useWorkflowState.ts:18-21,                *)
(* anomaly_lifecycle.go:137-150).                                                   *)
THEOREM PageTheorem == SurfacesSpec => []PageDecidesPlanOfItsTime
<1>1. SurfacesIInv => PageDecidesPlanOfItsTime
  BY DEF SurfacesIInv, AskInv, AskOf, PlanOrNone, PageDecidesPlanOfItsTime
<1>2. QED
  BY <1>1, SurfacesInvariance, PTL

(* Whatever is carried out that is not low-risk goes back to one person who     *)
(* asked for it, and who was told so, waits to be or was cut off (engine.go,     *)
(* anomaly_lifecycle.go:250-310, querier.go:126-142).                           *)
THEOREM ConsentTracedTheorem == SurfacesSpec => []ConsentTraced
<1>1. IInv => ConsentBeforeExecution
  BY ConsentOfInvariant
<1>2. SurfacesIInv => ConsentTraced
  <2> SUFFICES ASSUME SurfacesIInv, performed # <<>>, Risky(analysis)
               PROVE  \E c \in Approvers :
                        /\ Counts(c) /\ call[c].approved
                        /\ call[c].told = "approved" \/ call[c].pc = "handled" \/ call[c].lost
                        /\ \A other \in Approvers \ {c} : ~Counts(other) /\ call[other].told \notin Verdicts
    BY DEF ConsentTraced
  <2>1. /\ IInv /\ TypeOK /\ GateInv
        /\ call \in [Approvers -> Calls]
        /\ \A c \in Approvers : TruthOf(c) /\ AskOf(c)
    BY DEF SurfacesIInv, SurfacesInv, IInv, SurfacesTypeOK, TruthInv, AskInv
  <2>2. \E i \in DOMAIN analysis : ~(RiskScore(analysis[i].risk) <= RiskScore("low"))
    <3>1. \A risk : RiskScore(risk) \in Int
      BY DEF RiskScore
    <3>2. QED
      BY <3>1 DEF Risky
  <2>3. PICK c \in Approvers : reply[c] = "approved"
    BY <1>1, <2>1, <2>2 DEF ConsentBeforeExecution
  <2>4. Counts(c) /\ call[c].approved
    BY <2>1, <2>3 DEF Counts, Verdicts, Verdict, TruthOf, Calls
  <2>5. call[c].told = "approved" \/ call[c].pc = "handled" \/ call[c].lost
    BY <2>1, <2>3 DEF TruthOf, AskOf, Calls, Verdicts
  <2>6. \A other \in Approvers \ {c} : ~Counts(other) /\ call[other].told \notin Verdicts
    BY <2>1, <2>3 DEF GateInv, TruthOf, Counts, Verdicts
  <2>7. QED
    BY <2>4, <2>5, <2>6
<1>3. QED
  BY <1>2, SurfacesInvariance, PTL
=============================================================================
