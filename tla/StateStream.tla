------------------------------- MODULE StateStream -------------------------------
(***************************************************************************)
(* How a person watches one workflow: the querier's reads of its state     *)
(* (temporal/querier), the server-sent events of the stream handler        *)
(* (agui/stream.go) as the API server wraps it, and the page in the        *)
(* browser, which loads the state once, keeps an EventSource open and      *)
(* shows what the two tell it (web/src).  The workflow itself is its       *)
(* LifecycleView, which AnomalyLifecycle implements.                       *)
(*                                                                         *)
(* A schema is reduced to the phase it was built for and whether it offers *)
(* approve and deny; of what the page loads only that it is there and that *)
(* the workflow had terminated.  Wording and layout are left out.          *)
(***************************************************************************)
EXTENDS Integers, Sequences

CONSTANTS
    Wirings,        \* whether the handler's http.ResponseWriter may be an http.Flusher
    MaxFaults       \* failed reads, broken connections and reloads together

ASSUME StreamAssumption ==
    /\ Wirings \subseteq BOOLEAN
    /\ MaxFaults \in Nat

VARIABLES
    currentPhase, approval, planned, shouldTerminate, reason,   \* the workflow
    flushable,      \* it is one: TRUE without, FALSE with the logging middleware
    killed,         \* an operator terminated it
    pc,             \* where the stream handler is; "none" without a connection
    described,      \* the status DescribeWorkflowExecution gave
    lastPhase,      \* the handler's lastPhase
    sent,           \* the events written to the response
    es,             \* the EventSource: its readyState, "off" once the page closed it
    delivered,      \* how many of the events the page has handled
    stream,         \* StreamState of useAGUIStream
    result,         \* the state the page loaded: "none", "live" or "terminated"
    load,           \* how the load of the state and its schema is going
    faults          \* how many of the three happened so far

view == <<currentPhase, approval, planned, shouldTerminate, reason>>
handlerVars == <<pc, described, lastPhase>>
responseVars == <<sent, delivered>>
pageVars == <<result, load>>
vars == <<view, flushable, killed, handlerVars, responseVars, es, stream, pageVars, faults>>

View == INSTANCE LifecycleView

-----------------------------------------------------------------------------
(* What is read and what is sent.                                            *)

\* Build offers approve and deny while the approval is pending and a plan exists.
Build == [phase |-> currentPhase, offers |-> approval = "pending" /\ planned]
NoSchema == [phase |-> "none", offers |-> FALSE]

\* What the handler uses of a WorkflowResult: the query handler always gives an
\* empty Reason, the recorded result of a completed workflow has one.
Answer(status) == [schema |-> Build, terminated |-> shouldTerminate,
                   reason |-> IF status = "completed" THEN reason ELSE "none"]

\* A query waits for the first workflow task, after which the phase is triage or
\* the workflow has returned.
Answerable == currentPhase # "watcher" \/ shouldTerminate

Status == IF killed THEN "other" ELSE IF shouldTerminate THEN "completed" ELSE "running"

Event(type, phase) == [type |-> type, phase |-> phase, schema |-> NoSchema, reason |-> "none"]
RunStarted == Event("RUN_STARTED", "none")
RunError == Event("RUN_ERROR", "none")
SnapshotUnnamed(r) == [Event("STATE_SNAPSHOT", "none") EXCEPT !.schema = r.schema]
Snapshot(r) == [Event("STATE_SNAPSHOT", r.schema.phase) EXCEPT !.schema = r.schema]
RunFinished(r) == [Event("RUN_FINISHED", "none") EXCEPT !.reason = r.reason]

-----------------------------------------------------------------------------
(* The workflow goes on, whoever watches.                                    *)

WorkflowStep ==
    /\ ~killed
    /\ View!Next
    /\ UNCHANGED <<flushable, killed, handlerVars, responseVars, es, stream, pageVars, faults>>

OperatorTerminates ==
    /\ ~killed /\ ~shouldTerminate
    /\ killed' = TRUE
    /\ UNCHANGED <<view, flushable, handlerVars, responseVars, es, stream, pageVars, faults>>

-----------------------------------------------------------------------------
(* The stream handler.  It runs once per connection and shares nothing.      *)

AcceptStream ==
    /\ es = "connecting" /\ pc = "none"
    /\ flushable
    /\ pc' = "describe"
    /\ sent' = <<RunStarted>>
    /\ UNCHANGED <<view, flushable, killed, described, lastPhase, delivered, es, stream, pageVars, faults>>

\* Without a Flusher the handler answers 500, and an EventSource that gets
\* anything but 200 gives up for good.
RefuseStream ==
    /\ es = "connecting" /\ pc = "none"
    /\ ~flushable
    /\ es' = "closed"
    /\ stream' = [stream EXCEPT !.connected = FALSE, !.error = TRUE]
    /\ UNCHANGED <<view, flushable, killed, handlerVars, responseVars, pageVars, faults>>

Describe ==
    /\ pc = "describe"
    /\ pc' = "fetch"
    /\ described' = Status
    /\ UNCHANGED <<view, flushable, killed, lastPhase, responseVars, es, stream, pageVars, faults>>

\* What one read makes the handler write: the first a snapshot, a later one a pair
\* of step events if the phase is another.  computePatches returns nothing and
\* lastPhase is already the new phase when it is compared, so no STATE_DELTA.
FirstRead == Len(sent) = 1
Told(r) ==
    IF FirstRead THEN <<Snapshot(r)>>
    ELSE IF r.schema.phase # lastPhase
      THEN <<Event("STEP_FINISHED", lastPhase), Event("STEP_STARTED", r.schema.phase)>>
    ELSE <<>>

IsOverWhenCompleted(r) == r.schema.phase = "completed"
IsOver(r) == r.terminated

RememberPhaseOnce(r) == IF FirstRead THEN r.schema.phase ELSE lastPhase
RememberPhase(r) == r.schema.phase

\* The recorded result of a workflow that was completed, or a query to one that
\* was running then and may have returned since.
Fetch ==
    /\ pc = "fetch"
    /\ described # "other" /\ Answerable
    /\ LET r == Answer(described)
       IN  /\ sent' = sent \o Told(r) \o (IF IsOver(r) THEN <<RunFinished(r)>> ELSE <<>>)
           /\ lastPhase' = RememberPhase(r)
           /\ pc' = IF IsOver(r) THEN "over" ELSE "wait"
    /\ described' = "none"
    /\ UNCHANGED <<view, flushable, killed, delivered, es, stream, pageVars, faults>>

\* A terminated workflow has neither status, or lost the query after Describe; and
\* any call to Temporal may fail, the one cut by the 30 minutes included.
ReadFails ==
    /\ \/ pc = "fetch" /\ killed /\ UNCHANGED faults
       \/ /\ pc \in {"describe", "fetch"}
          /\ faults < MaxFaults
          /\ faults' = faults + 1
    /\ sent' = Append(sent, RunError)
    /\ pc' = "over" /\ described' = "none"
    /\ UNCHANGED <<view, flushable, killed, lastPhase, delivered, es, stream, pageVars>>

Tick ==
    /\ pc = "wait"
    /\ pc' = "describe"
    /\ UNCHANGED <<view, flushable, killed, described, lastPhase, responseVars, es, stream, pageVars, faults>>

\* MaxDuration runs out between two polls; nothing is written.
DeadlineEnds ==
    /\ pc = "wait"
    /\ pc' = "over"
    /\ UNCHANGED <<view, flushable, killed, described, lastPhase, responseVars, es, stream, pageVars, faults>>

-----------------------------------------------------------------------------
(* The EventSource and the page's handlers of its events.                    *)

Opens ==
    /\ es = "connecting" /\ pc # "none"
    /\ es' = "open"
    /\ stream' = [stream EXCEPT !.connected = TRUE, !.error = FALSE]
    /\ UNCHANGED <<view, flushable, killed, handlerVars, responseVars, pageVars, faults>>

HandleEvent(e) ==
    IF e.type = "STATE_SNAPSHOT" THEN [stream EXCEPT !.phase = e.phase, !.schema = e.schema]
    ELSE IF e.type = "STEP_STARTED" THEN [stream EXCEPT !.phase = e.phase]
    ELSE IF e.type = "RUN_FINISHED" THEN [stream EXCEPT !.finished = TRUE]
    ELSE IF e.type = "RUN_ERROR" THEN [stream EXCEPT !.error = TRUE]
    ELSE stream

Deliver ==
    /\ es = "open"
    /\ delivered < Len(sent)
    /\ delivered' = delivered + 1
    /\ stream' = HandleEvent(sent[delivered + 1])
    /\ UNCHANGED <<view, flushable, killed, handlerVars, sent, es, pageVars, faults>>

\* A response is done with: its handler ends and what was not delivered is lost.
DropResponseOnly == pc' = "none" /\ sent' = <<>> /\ UNCHANGED <<delivered, described, lastPhase>>
DropResponse ==
    /\ pc' = "none" /\ described' = "none" /\ lastPhase' = "none"
    /\ sent' = <<>> /\ delivered' = 0

\* The response ended; the browser reconnects, a finished run or not: nothing
\* closes the EventSource on RUN_FINISHED.
ResponseEnds ==
    /\ es = "open" /\ pc = "over"
    /\ delivered = Len(sent)
    /\ es' = "connecting"
    /\ stream' = [stream EXCEPT !.connected = FALSE, !.error = TRUE]
    /\ DropResponse
    /\ UNCHANGED <<view, flushable, killed, pageVars, faults>>

ConnectionBreaks ==
    /\ es \in {"connecting", "open"} /\ pc # "none"
    /\ faults < MaxFaults
    /\ faults' = faults + 1
    /\ es' = "connecting"
    /\ stream' = [stream EXCEPT !.connected = FALSE, !.error = TRUE]
    /\ DropResponse
    /\ UNCHANGED <<view, flushable, killed, pageVars>>

-----------------------------------------------------------------------------
(* The page: useWorkflowState loads once, and the stream is kept while the   *)
(* loaded state is not that of a terminated workflow.                        *)

LoadState ==
    /\ load = "loading" /\ result = "none" /\ ~killed /\ Answerable
    /\ result' = IF shouldTerminate THEN "terminated" ELSE "live"
    /\ UNCHANGED <<view, flushable, killed, handlerVars, responseVars, es, stream, load, faults>>

\* The schema is there too, whichever of the two came first: both are shown, and
\* the effect of useAGUIStream closes the EventSource if the workflow had terminated.
LoadSettles ==
    /\ load = "loading" /\ result # "none"
    /\ load' = "loaded"
    /\ IF result = "terminated" THEN es' = "off" /\ DropResponse
       ELSE UNCHANGED <<es, handlerVars, responseVars>>
    /\ UNCHANGED <<view, flushable, killed, stream, result, faults>>

\* One of the two requests fails: the page shows the error and stays that way.
LoadFails ==
    /\ load = "loading"
    /\ \/ killed /\ UNCHANGED faults
       \/ faults < MaxFaults /\ faults' = faults + 1
    /\ load' = "failed" /\ result' = "none"
    /\ UNCHANGED <<view, flushable, killed, handlerVars, responseVars, es, stream>>

NewStream == [connected |-> FALSE, phase |-> "none", schema |-> NoSchema,
              error |-> FALSE, finished |-> FALSE]

\* By the person, or by the page after an answer of theirs.
Reload ==
    /\ faults < MaxFaults
    /\ faults' = faults + 1
    /\ es' = "connecting"
    /\ DropResponse
    /\ stream' = NewStream
    /\ result' = "none" /\ load' = "loading"
    /\ UNCHANGED <<view, flushable, killed>>

-----------------------------------------------------------------------------

Init ==
    /\ View!Init
    /\ flushable \in Wirings
    /\ killed = FALSE
    /\ pc = "none" /\ described = "none" /\ lastPhase = "none"
    /\ sent = <<>> /\ delivered = 0
    /\ es = "connecting"
    /\ stream = NewStream
    /\ result = "none" /\ load = "loading"
    /\ faults = 0

Server == AcceptStream \/ RefuseStream \/ Describe \/ Fetch \/ ReadFails \/ Tick \/ DeadlineEnds
Browser == Opens \/ Deliver \/ ResponseEnds

Next ==
    \/ WorkflowStep \/ OperatorTerminates
    \/ Server
    \/ Browser \/ ConnectionBreaks
    \/ LoadState \/ LoadSettles \/ LoadFails \/ Reload

Spec == Init /\ [][Next]_vars

(* Fairness: a handler that can go on does, and the browser opens, reads and  *)
(* reopens.  At most one of the actions of each is enabled at a time, but for *)
(* a failing read.  The workflow, the load and the faults owe nothing.        *)
Fairness == WF_vars(Server) /\ WF_vars(Browser)

FairSpec == Spec /\ Fairness

-----------------------------------------------------------------------------
(* Properties.                                                               *)

Phases == {"watcher", "triage", "analyst", "hil_gate", "executor", "verifier", "completed"}
Order == <<"none", "watcher", "triage", "analyst", "hil_gate", "executor", "verifier", "completed">>
Rank(p) == CHOOSE i \in DOMAIN Order : Order[i] = p

SchemaType == [phase : Phases \cup {"none"}, offers : BOOLEAN]
StreamType == [connected : BOOLEAN, phase : Phases \cup {"none"}, schema : SchemaType,
               error : BOOLEAN, finished : BOOLEAN]

(* Every variable keeps its type.  The page never handles an event of another *)
(* response than the one it is connected to: delivered counts into sent.      *)
TypeOK ==
    /\ currentPhase \in Phases
    /\ flushable \in BOOLEAN
    /\ killed \in BOOLEAN
    /\ pc \in {"none", "describe", "fetch", "wait", "over"}
    /\ described \in {"none", "running", "completed", "other"}
    /\ lastPhase \in Phases \cup {"none"}
    /\ es \in {"connecting", "open", "closed", "off"}
    /\ es = "open" => pc # "none"
    /\ delivered \in 0..Len(sent)
    /\ stream \in StreamType
    /\ result \in {"none", "live", "terminated"}
    /\ load \in {"loading", "loaded", "failed"}

Step(i, type) == i \in DOMAIN sent /\ sent[i].type = type

(* A response begins with RUN_STARTED and a snapshot, then every phase it     *)
(* leaves is the one it told last and every phase it enters is a later one;   *)
(* RUN_ERROR or RUN_FINISHED ends it, and RUN_FINISHED is only told of a      *)
(* workflow that returned, with its reason or, if it returned after Describe, *)
(* with none.  No phase is told that the workflow has not reached             *)
(* (stream.go:50-159).                                                        *)
WellFormedResponse ==
    \A i \in DOMAIN sent :
        /\ Step(i, "RUN_STARTED") <=> i = 1
        /\ i = 2 => sent[i].type \in {"STATE_SNAPSHOT", "RUN_ERROR"}
        /\ Step(i, "STATE_SNAPSHOT") => i = 2
        /\ Step(i, "STEP_FINISHED") =>
              /\ Step(i - 1, "STATE_SNAPSHOT") \/ Step(i - 1, "STEP_STARTED")
              /\ sent[i].phase = sent[i - 1].phase
              /\ Step(i + 1, "STEP_STARTED")
        /\ Step(i, "STEP_STARTED") =>
              /\ Step(i - 1, "STEP_FINISHED")
              /\ Rank(sent[i - 1].phase) < Rank(sent[i].phase)
              /\ Rank(sent[i].phase) <= Rank(currentPhase)
        /\ sent[i].type \in {"RUN_ERROR", "RUN_FINISHED"} => i = Len(sent) /\ pc = "over"
        /\ Step(i, "RUN_FINISHED") => shouldTerminate /\ sent[i].reason \in {reason, "none"}

(* Until it is reloaded, the page never shows an earlier phase after a later  *)
(* one, through any number of responses and broken connections                *)
(* (useAGUIStream.ts:33-82, stream.go:70-79).                                 *)
PhaseNeverBack ==
    [][Rank(stream'.phase) >= Rank(stream.phase) \/ stream' = NewStream]_stream

(* Once the workflow has returned, a page that stays open and was not refused *)
(* the stream learns of it: from RUN_FINISHED, or because what it loaded says *)
(* so.  Failed reads, broken connections and the 30 minutes of a stream only  *)
(* delay it (stream.go:84-159, useAGUIStream.ts:84-123).                      *)
LearnsOfReturn ==
    shouldTerminate ~>
        \/ stream.finished
        \/ load = "loaded" /\ result = "terminated"
        \/ es = "closed"

(* Disputed: the API server streams to whoever asks (server.go:61,            *)
(* stream.go:28).                                                             *)
StreamServed == es # "closed"

(* Disputed: a page that has handled everything the handler had to say shows  *)
(* the schema of the phase it names, for it prefers the streamed ones of both *)
(* (page.tsx:23, 67): "the frontend uses the full UISchema from each delta"   *)
(* (stream.go:133-147, 170).                                                  *)
SchemaFollowsPhase ==
    es = "open" /\ pc = "wait" /\ delivered = Len(sent)
        => stream.schema.phase = stream.phase
=============================================================================
