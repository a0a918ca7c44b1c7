------------------------------ MODULE WorkerProcess ------------------------------
(***************************************************************************)
(* A worker process (cmd/worker-finops/main.go): its start from the        *)
(* environment, one worker per task queue it is told to serve              *)
(* (temporal/queues/registry.go), the activities they run, which are       *)
(* ActivityCalls, and its end.  Whoever operates it may start it again.    *)
(***************************************************************************)
EXTENDS ActivityCalls, SequencesExt

CONSTANTS
    QueueLists,         \* values of FINOPS_WORKER_QUEUES, split at the commas
    Environments        \* the rest of the environment

ASSUME ProcessAssumption ==
    /\ QueueLists \subseteq Seq(STRING)
    /\ Environments \subseteq
          [mode : {"stub", "production", "other"}, cur_complete : BOOLEAN]

VARIABLES
    told,           \* the value of FINOPS_WORKER_QUEUES
    workers,        \* main's workers in the order it makes them
    interrupted,    \* SIGINT or SIGTERM arrived
    exit            \* the exit status, "none" while the process runs

processVars == <<told, workers, interrupted, exit>>
vars == <<callVars, processVars>>

QueueAnomaly == "finops-anomaly"
QueueDetect == "finops-detect"
QueueExec == "finops-exec"
Queues == {QueueAnomaly, QueueDetect, QueueExec}

-----------------------------------------------------------------------------
(* ParseQueues.                                                              *)

ShortNames == [anomaly |-> QueueAnomaly, detect |-> QueueDetect, exec |-> QueueExec]
FullName(part) == IF part \in DOMAIN ShortNames THEN ShortNames[part] ELSE part

ParseFailsNever(parts) == FALSE
ParseFails(parts) == \E i \in DOMAIN parts : parts[i] # "" /\ FullName(parts[i]) \notin Queues

\* One part of the list: blank parts and queues it has seen are skipped.
SeenTwice(seen, part) == IF part = "" THEN seen ELSE Append(seen, FullName(part))
Seen(seen, part) ==
    IF part = "" \/ Contains(seen, FullName(part)) THEN seen ELSE Append(seen, FullName(part))

ParseQueues(parts) ==
    LET result == FoldLeft(Seen, <<>>, parts)
    IN  IF result = <<>> THEN <<QueueAnomaly>> ELSE result

-----------------------------------------------------------------------------
(* The process.                                                              *)

Init ==
    /\ CallsInit
    /\ told = <<>>
    /\ workers = <<>>
    /\ interrupted = FALSE
    /\ exit = "not started"

\* LoadFromEnv: production mode needs the database, the table and the bucket of the
\* bill; a mode that is neither of the two is refused.
ConfigLoads(env) ==
    /\ env.mode \in {"stub", "production"}
    /\ env.mode = "production" => env.cur_complete

Running == exit = "none"
Working(i) == workers[i].status = "running"

\* The process comes up with its workers, or exits at once: on its configuration,
\* without a Temporal server, or on a queue it does not know.
Start ==
    /\ ~Running
    /\ \E env \in Environments, parts \in QueueLists, dialled \in BOOLEAN :
          /\ told' = parts
          /\ IF ConfigLoads(env) /\ dialled /\ ~ParseFails(parts)
               THEN /\ workers' = [i \in DOMAIN ParseQueues(parts) |->
                                      [queue |-> ParseQueues(parts)[i], status |-> "running"]]
                    /\ exit' = "none"
               ELSE workers' = <<>> /\ exit' = "error"
    /\ interrupted' = FALSE
    /\ UNCHANGED callVars

\* An activity on finops-anomaly is taken up by a free slot of its worker.
TakeUp(s) ==
    /\ Running
    /\ \E i \in DOMAIN workers : workers[i].queue = QueueAnomaly /\ Working(i)
    /\ Begin(s)
    /\ UNCHANGED processVars

CallStep(s) ==
    /\ Running
    /\ Proceed(s) \/ QueryEnds(s)
    /\ UNCHANGED processVars

\* w.Run returns an error.  That ends the group's context, which nothing looks at:
\* the other workers go on.
WorkerFails(i) ==
    /\ Running /\ Working(i)
    /\ workers' = [workers EXCEPT ![i].status = "failed"]
    /\ UNCHANGED <<callVars, told, interrupted, exit>>

Interrupt ==
    /\ Running
    /\ interrupted' = TRUE
    /\ UNCHANGED <<callVars, told, workers, exit>>

\* Each worker waits for the signal itself; it does not wait for its calls.
WorkerStops(i) ==
    /\ Running /\ Working(i)
    /\ interrupted
    /\ workers' = [workers EXCEPT ![i].status = "stopped"]
    /\ UNCHANGED <<callVars, told, interrupted, exit>>

\* g.Wait returns the first error once every worker has returned.
WaitReturns == \A i \in DOMAIN workers : ~Working(i)

StatusIgnoringErrors == "ok"
Status == IF \E i \in DOMAIN workers : workers[i].status = "failed" THEN "error" ELSE "ok"

Exit ==
    /\ Running
    /\ WaitReturns
    /\ exit' = Status
    /\ Forget
    /\ UNCHANGED <<told, workers, interrupted>>

\* The process is killed or panics.
Die ==
    /\ Running
    /\ exit' = "killed"
    /\ Forget
    /\ UNCHANGED <<told, workers, interrupted>>

TimePasses ==
    /\ Running
    /\ Tick
    /\ UNCHANGED processVars

Next ==
    \/ Start \/ Interrupt \/ Exit \/ Die \/ TimePasses
    \/ \E i \in DOMAIN workers : WorkerFails(i) \/ WorkerStops(i)
    \/ \E s \in Slots : TakeUp(s) \/ CallStep(s)

Spec == Init /\ [][Next]_vars

(* Fairness: time passes and the goroutine of a call runs.  Athena need not  *)
(* answer, nobody need start or stop the process.                            *)
FairSpec ==
    /\ Spec
    /\ WF_vars(TimePasses)
    /\ \A s \in Slots : WF_vars(Running /\ Proceed(s) /\ UNCHANGED processVars)

-----------------------------------------------------------------------------

TypeOK ==
    /\ CallsTypeOK
    /\ told \in Seq(STRING)
    /\ workers \in Seq([queue : Queues, status : {"running", "failed", "stopped"}])
    /\ interrupted \in BOOLEAN
    /\ exit \in {"not started", "none", "ok", "error", "killed"}

\* A process that is up has one worker for each queue it was told of, by either name
\* and however often, and serves finops-anomaly if it was told of none
\* (registry.go:53-92, main.go:134-154).
OneWorkerPerQueue ==
    workers # <<>> =>
        /\ \A i, j \in DOMAIN workers : workers[i].queue = workers[j].queue => i = j
        /\ LET named == {FullName(told[i]) : i \in DOMAIN told} \ {""}
           IN  {workers[i].queue : i \in DOMAIN workers} =
                  IF named = {} THEN {QueueAnomaly} ELSE named

\* The exit status tells of every worker.  A worker that fails does not end the
\* process, so its queue may be unserved for as long as another worker runs; but
\* once the process does end, asked to or not, its status is an error
\* (main.go:133-158).
StatusTellsWorkers ==
    LET with(status) == {i \in DOMAIN workers : workers[i].status = status}
    IN  /\ exit = "ok" => interrupted /\ with("stopped") = DOMAIN workers
        /\ exit = "error" => with("running") = {} /\ (with("failed") # {} \/ workers = <<>>)

\* No call keeps its slot for ever, even if Athena never finishes its query and
\* nobody cancels the call (athena/client.go:68, 114-115).
SlotsComeFree == \A s \in Slots : ~At(s, "free") ~> At(s, "free")
=============================================================================
