----------------------------- MODULE ApprovalSurfaces -----------------------------
(***************************************************************************)
(* How people answer the gate of AnomalyLifecycle: with the command line   *)
(* (cmd/cli), the tools of the MCP server (internal/mcpserver), the HTTP   *)
(* API (internal/api) and the buttons of the web page, which calls the API *)
(* (web/src).  Each checks what it is given, sends the "approval" Update   *)
(* and tells the person what came back; requests and answers take their    *)
(* time, and a caller may be cut off from either.                          *)
(*                                                                         *)
(* An Approver of AnomalyLifecycle is one call here; a person who asks     *)
(* again makes another one, which nothing tells from somebody else's.      *)
(***************************************************************************)
EXTENDS AnomalyLifecycle

VARIABLES
    page,       \* what the page in front of a caller was sent, if it is on one
    call        \* the call of each

surfaceVars == <<page, call>>
allVars == <<vars, surfaceVars>>

\* A form names a workflow and who answers it, or leaves out one of the two.
Forms == [workflow_id : BOOLEAN, by : BOOLEAN]
Verdict(approved) == IF approved THEN "approved" ELSE "denied"

\* `plan` is the plan the caller was shown when it asked, `planned` that there was one
\* by then and `late` that the workflow had returned; `lost` that the caller was cut off
\* before it heard anything.
NotAsked == [pc |-> "idle", at_page |-> FALSE, approved |-> FALSE, plan |-> <<>>,
             planned |-> FALSE, late |-> FALSE, lost |-> FALSE, told |-> "none"]

\* The two answers a page asks for when it is opened, and the schema streamed to it.
Unread == [read |-> FALSE, pending |-> FALSE, ended |-> FALSE]
NoSchema == [built |-> FALSE, plan |-> <<>>]
NoPage == [open |-> FALSE, result |-> Unread, schema |-> NoSchema, streamed |-> NoSchema]

SurfacesInit ==
    /\ Init
    /\ page = [c \in Approvers |-> NoPage]
    /\ call = [c \in Approvers |-> NotAsked]

\* The workflow goes on; its Update comes from the calls below only.
LifecycleStep ==
    /\ \/ Watch \/ PollTask \/ ActivityFails \/ VerifyReturns
       \/ \E earlyExit \in BOOLEAN : TriageReturns(earlyExit)
       \/ \E plan \in Plans : PlanReturns(plan)
       \/ TimerFires \/ LeaveGate
       \/ ExecuteTimesOut \/ \E a \in Attempts : ExecutorNext(a)
       \/ Deploy \/ \E r \in Resources, tagSet \in TagSets : Retag(r, tagSet)
    /\ UNCHANGED surfaceVars

-----------------------------------------------------------------------------
(* Asking.                                                                   *)

\* What a page shows: the last schema it was streamed, before the one it loaded.
ShownSchema(c) == IF page[c].streamed.built THEN page[c].streamed ELSE page[c].schema

\* The Update is sent off, without a timeout of the caller's own.
Send(c, approved) ==
    /\ call' = [call EXCEPT ![c] =
          [NotAsked EXCEPT !.pc = "sent", !.approved = approved,
                           !.at_page = page[c].open, !.plan = ShownSchema(c).plan,
                           !.planned = (analysis # <<>>), !.late = shouldTerminate]]
    /\ UNCHANGED <<vars, page>>

\* The form is incomplete: the usage, an error result or a 400, and nothing is sent.
Refuse(c) ==
    /\ call' = [call EXCEPT ![c] = [NotAsked EXCEPT !.pc = "over", !.told = "refused"]]
    /\ UNCHANGED <<vars, page>>

Idle(c) == call[c].pc = "idle"
AtNoPage(c) == Idle(c) /\ ~page[c].open

\* finops approve, finops deny.
Command(c, form, approved) ==
    /\ AtNoPage(c)
    /\ IF form.workflow_id /\ form.by THEN Send(c, approved) ELSE Refuse(c)

\* approve_actions, deny_actions.
Tool(c, form, approved) ==
    /\ AtNoPage(c)
    /\ IF form.workflow_id /\ form.by THEN Send(c, approved) ELSE Refuse(c)

\* POST .../approve, .../deny; the path always names a workflow.
HandleApprovalAction(c, form, approved) ==
    /\ AtNoPage(c)
    /\ form.workflow_id
    /\ IF form.by THEN Send(c, approved) ELSE Refuse(c)

\* The page's isPending of a state; Build has the same condition for its own actions.
OffersWhilePending == approval = "pending"
IsPending == approval = "pending" /\ (analysis # <<>> \/ reason = "no_actions")

\* Build, of a state that a query or the recorded result gives.  The approval queue and
\* the actions it adds are left out: the page takes its buttons from elsewhere.
Build == [built |-> TRUE, plan |-> analysis]
Readable == currentPhase # "watcher" \/ shouldTerminate

\* A page is opened or loaded anew and asks for the state and for the schema; both are
\* waited for, and a page of which one fails shows no more than an error.
OpenPage(c) ==
    /\ Idle(c)
    /\ page' = [page EXCEPT ![c] = [NoPage EXCEPT !.open = TRUE]]
    /\ UNCHANGED <<vars, call>>

\* handleGetWorkflow answers.
GetWorkflow(c) ==
    /\ Idle(c) /\ page[c].open /\ ~page[c].result.read
    /\ Readable
    /\ page' = [page EXCEPT ![c].result =
                  [read |-> TRUE, pending |-> IsPending, ended |-> shouldTerminate]]
    /\ UNCHANGED <<vars, call>>

\* handleGetWorkflowUI answers, from a read of its own.
GetWorkflowUI(c) ==
    /\ Idle(c) /\ page[c].open /\ ~page[c].schema.built
    /\ Readable
    /\ page' = [page EXCEPT ![c].schema = Build]
    /\ UNCHANGED <<vars, call>>

Loaded(c) == page[c].result.read /\ page[c].schema.built

\* A stream begins with a snapshot, and one that was broken begins anew; it is kept
\* until the page knows that the workflow has returned.
StreamSnapshot(c) ==
    /\ Idle(c) /\ page[c].open
    /\ ~(Loaded(c) /\ page[c].result.ended)
    /\ Readable
    /\ page' = [page EXCEPT ![c].streamed = Build]
    /\ UNCHANGED <<vars, call>>

PageStep(c) == OpenPage(c) \/ GetWorkflow(c) \/ GetWorkflowUI(c) \/ StreamSnapshot(c)

\* The buttons go by the state that was loaded, never by the schema.
HasButtons(c) == Loaded(c) /\ page[c].result.pending

\* Everyone at the page is "ui-user".  A high-risk plan is not confirmed: the page
\* does not look at the Confirm of the schema's actions.
Click(c, approved) ==
    /\ Idle(c)
    /\ HasButtons(c)
    /\ Send(c, approved)

-----------------------------------------------------------------------------
(* What becomes of a call.                                                   *)

\* The Update reaches the workflow, whether its caller still waits or not; a worker
\* has to be there to handle it.
Deliver(c) ==
    /\ call[c].pc = "sent"
    /\ QueueAnomaly \in PolledQueues
    /\ SubmitApproval(c, call[c].approved, TRUE)
    /\ call' = [call EXCEPT ![c].pc = IF call[c].told = "none" THEN "handled" ELSE "over"]
    /\ UNCHANGED page

\* What a surface makes of the Update's outcome.
TellRaw(c) == reply[c]
TellAsked(c) == Verdict(call[c].approved)
Tell(c) == IF reply[c] = "rejected" THEN "error" ELSE reply[c]

\* A page that was told a verdict is loaded anew.
AnswerOnVerdict(c) ==
    /\ call[c].pc = "handled"
    /\ reply[c] # "rejected"
    /\ call' = [call EXCEPT ![c].pc = "over", ![c].told = Tell(c)]
    /\ page' = [page EXCEPT ![c] = NoPage]
    /\ UNCHANGED vars
Answer(c) ==
    /\ call[c].pc = "handled"
    /\ call' = [call EXCEPT ![c].pc = "over", ![c].told = Tell(c)]
    /\ page' = [page EXCEPT ![c] = IF Tell(c) = "error" THEN @ ELSE NoPage]
    /\ UNCHANGED vars

\* The caller is cut off: from the server before its Update was handled, or from the
\* outcome.  All it has is an error.
CutOff(c) ==
    /\ call[c].pc \in {"sent", "handled"}
    /\ call[c].told = "none"
    /\ call' = [call EXCEPT ![c].pc = IF @ = "handled" THEN "over" ELSE @,
                            ![c].told = "error", ![c].lost = TRUE]
    /\ UNCHANGED <<vars, page>>

Ask(c) ==
    \/ \E form \in Forms, approved \in BOOLEAN :
          Command(c, form, approved) \/ Tool(c, form, approved) \/ HandleApprovalAction(c, form, approved)
    \/ PageStep(c)
    \/ \E approved \in BOOLEAN : Click(c, approved)

SurfacesNext ==
    \/ LifecycleStep
    \/ \E c \in Approvers : Ask(c) \/ Deliver(c) \/ Answer(c) \/ CutOff(c)

SurfacesSpec == SurfacesInit /\ [][SurfacesNext]_allVars

(* Fairness: that of the lifecycle, and a request that was sent arrives and its *)
(* outcome gets back, unless the caller is cut off; nobody has to ask.          *)
FairSurfacesSpec ==
    /\ SurfacesSpec
    /\ Fairness
    /\ \A c \in Approvers : WF_allVars(Deliver(c)) /\ WF_allVars(Answer(c))

-----------------------------------------------------------------------------

Verdicts == {"approved", "denied"}
Schemas == [built : BOOLEAN, plan : Plans \cup {<<>>}]
Pages == [open : BOOLEAN, result : [read : BOOLEAN, pending : BOOLEAN, ended : BOOLEAN],
          schema : Schemas, streamed : Schemas]
Calls == [pc : {"idle", "sent", "handled", "over"}, at_page : BOOLEAN, approved : BOOLEAN,
          plan : Plans \cup {<<>>}, planned : BOOLEAN, late : BOOLEAN, lost : BOOLEAN,
          told : Verdicts \cup {"none", "refused", "error"}]

\* The types; nobody is told anything but a verdict, a refusal or an error, and nobody
\* is shown a plan that is not one.
SurfacesTypeOK == page \in [Approvers -> Pages] /\ call \in [Approvers -> Calls]

\* What a person is told is so: a verdict is what the person asked for and what the
\* workflow goes by, and an error means that the answer does not count unless the
\* caller was cut off (main.go:163-177, tools.go:126-132, handlers.go:98-103,
\* querier.go:126-142).
ToldIsTrue ==
    \A c \in Approvers :
        /\ call[c].told \in Verdicts =>
              /\ call[c].told = Verdict(call[c].approved)
              /\ \/ WaitingAtGate /\ hilResult = call[c].told
                 \/ approval = "approved" /\ call[c].told = "approved"
                 \/ reason = "human_denied" /\ call[c].told = "denied"
        /\ call[c].told = "error" /\ ~call[c].lost => reply[c] = "rejected"

\* Whatever is carried out that is not low-risk, a person asked to approve; that
\* person was told so, waits to be, or was cut off and has to look.  A call that was
\* cut off and one that asks again are never both counted.
Counts(c) == reply[c] \in Verdicts
Risky(plan) == \E i \in DOMAIN plan : RiskScore(plan[i].risk) > RiskScore("low")
ConsentTraced ==
    performed # <<>> /\ Risky(analysis) =>
        \E c \in Approvers :
            /\ Counts(c) /\ call[c].approved
            /\ call[c].told = "approved" \/ call[c].pc = "handled" \/ call[c].lost
            /\ \A other \in Approvers \ {c} : ~Counts(other) /\ call[other].told \notin Verdicts

\* An answer from the page that counts was asked for when the plan it decides was
\* already there, although the page may have shown it without that plan, or with the
\* schema of an earlier phase; if it showed one, it was this one.  However late the
\* Update arrives, it never decides a plan that was made after the person clicked
\* (page.tsx:23-30, useWorkflowState.ts:18-21, anomaly_lifecycle.go:137-150).
PageDecidesPlanOfItsTime ==
    \A c \in Approvers :
        call[c].at_page /\ Counts(c) =>
            /\ call[c].planned
            /\ call[c].plan \in {<<>>, analysis}

\* Whoever asks after the workflow returned, at a page that still offers it or
\* elsewhere, is never told a verdict (builder.go:34, page.tsx:30).
LateAskNeverCounts ==
    \A c \in Approvers : call[c].late => ~Counts(c) /\ call[c].told \notin Verdicts

\* Every call that was sent comes back to its caller, with a verdict or an error, in
\* whatever phase the workflow is (WorkflowUpdateStageCompleted: main.go:167,
\* querier.go:131).
EveryCallAnswered ==
    \A c \in Approvers : call[c].pc = "sent" ~> call[c].told # "none"
=============================================================================
