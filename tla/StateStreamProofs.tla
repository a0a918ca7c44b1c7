---------------------------- MODULE StateStreamProofs ----------------------------
(***************************************************************************)
(* What holds of the stream of a workflow and of the page that follows it, *)
(* however many reads fail and connections break.                          *)
(***************************************************************************)
EXTENDS StateStream, SequenceTheorems, TLAPS

-----------------------------------------------------------------------------
(* The phases and their order.                                               *)

KnownPhases == Phases \cup {"none"}

LEMMA RankIsPosition ==
    /\ \A p \in KnownPhases : Rank(p) \in 1..8
    /\ \A p, q \in KnownPhases : Rank(p) = Rank(q) => p = q
    /\ Rank("none") = 1 /\ Rank("watcher") = 2 /\ Rank("triage") = 3 /\ Rank("analyst") = 4
    /\ Rank("hil_gate") = 5 /\ Rank("executor") = 6 /\ Rank("verifier") = 7 /\ Rank("completed") = 8
<1>1. \A p \in KnownPhases : \E i \in 1..8 : Order[i] = p
  BY DEF KnownPhases, Phases, Order
<1>2. DOMAIN Order = 1..8
  BY DEF Order
<1>3. \A p \in KnownPhases : Rank(p) \in 1..8 /\ Order[Rank(p)] = p
  BY <1>1, <1>2 DEF Rank
<1>4. /\ Rank("none") = 1 /\ Rank("watcher") = 2 /\ Rank("triage") = 3 /\ Rank("analyst") = 4
      /\ Rank("hil_gate") = 5 /\ Rank("executor") = 6 /\ Rank("verifier") = 7 /\ Rank("completed") = 8
  BY <1>3 DEF Order, KnownPhases, Phases
<1>5. QED
  BY <1>3, <1>4

\* A workflow only goes on, until it returns for a reason that stays.
LEMMA WorkflowGoesOn ==
    ASSUME currentPhase \in Phases, View!Next
    PROVE  /\ ~shouldTerminate
           /\ currentPhase' \in Phases
           /\ Rank(currentPhase) <= Rank(currentPhase')
  BY RankIsPosition DEF Phases, View!Next, View!Triage, View!Analyse, View!Plan, View!Approve, View!Verify,
      View!Stop, View!NothingToDo, View!Deny, View!Complete, View!Advance, View!Return

-----------------------------------------------------------------------------
(* The inductive invariant.                                                  *)

Reasons == {"none", "no_anomaly", "expected_growth_high_confidence", "triage_error", "plan_error",
            "execution_error", "verify_error", "no_actions", "policy_denied", "human_denied",
            "approval_timed_out", "completed"}

Events ==
    [type : {"RUN_STARTED", "RUN_ERROR", "RUN_FINISHED", "STATE_SNAPSHOT", "STEP_FINISHED", "STEP_STARTED"},
     phase : KnownPhases, schema : SchemaType, reason : Reasons]

\* The page shows the phase of this event once it has handled it.
Shows(e) == e.type \in {"STATE_SNAPSHOT", "STEP_STARTED"}

\* The handler compares with the phase its last event told, as long as it goes on.
HandlerInv ==
    /\ sent \in Seq(Events)
    /\ pc = "none" <=> Len(sent) = 0
    /\ pc # "over" /\ Len(sent) > 1 => Shows(sent[Len(sent)]) /\ sent[Len(sent)].phase = lastPhase

\* The phases a response tells are in order and the workflow has reached them.
PhasesInOrder ==
    /\ \A i \in DOMAIN sent : Shows(sent[i]) => Rank(sent[i].phase) <= Rank(currentPhase)
    /\ \A i, j \in DOMAIN sent :
          i <= j /\ Shows(sent[i]) /\ Shows(sent[j]) => Rank(sent[i].phase) <= Rank(sent[j].phase)

\* The page shows none later than those it has still to handle.
PageBehind ==
    /\ Rank(stream.phase) <= Rank(currentPhase)
    /\ \A i \in DOMAIN sent :
          i > delivered /\ Shows(sent[i]) => Rank(stream.phase) <= Rank(sent[i].phase)

IInv ==
    /\ TypeOK
    /\ reason \in Reasons
    /\ HandlerInv
    /\ PhasesInOrder
    /\ WellFormedResponse
    /\ PageBehind

LEMMA EventTypes ==
    /\ NoSchema \in SchemaType /\ NewStream \in StreamType /\ NewStream.phase = "none"
    /\ RunStarted \in Events /\ RunError \in Events
    /\ \A p \in KnownPhases : Event("STEP_FINISHED", p) \in Events /\ Event("STEP_STARTED", p) \in Events
    /\ RunStarted.type = "RUN_STARTED" /\ RunError.type = "RUN_ERROR"
  BY DEF NoSchema, SchemaType, NewStream, StreamType, RunStarted, RunError, Event, Events, KnownPhases, Reasons

LEMMA InductiveInit == Init => IInv
<1> SUFFICES ASSUME Init PROVE IInv
  OBVIOUS
<1>1. sent = <<>> /\ delivered = 0 /\ stream = NewStream /\ currentPhase = "watcher" /\ reason = "none"
  BY DEF Init, View!Init
<1>2. sent \in Seq(Events) /\ Len(sent) = 0 /\ DOMAIN sent = {}
  <2>1. sent \in Seq(Events) /\ Len(sent) = 0
    BY <1>1, EmptySeq
  <2>2. QED
    BY <2>1, LenProperties
<1>3. TypeOK
  <2>1. stream \in StreamType /\ delivered \in 0..Len(sent) /\ flushable \in BOOLEAN
    BY <1>1, <1>2, StreamAssumption, EventTypes DEF Init
  <2>2. QED
    BY <1>1, <2>1 DEF Init, TypeOK, Phases
<1>4. QED
  BY <1>1, <1>2, <1>3, RankIsPosition, EventTypes
  DEF Init, IInv, HandlerInv, PhasesInOrder, WellFormedResponse, PageBehind, Reasons

-----------------------------------------------------------------------------
(* What a step does to the response.                                         *)

\* Nothing is written, and the workflow may have gone on.
LEMMA NothingWritten ==
    ASSUME IInv,
           UNCHANGED <<sent, lastPhase>>,
           pc' = "none" <=> pc = "none",
           pc = "over" => pc' = "over",
           Rank(currentPhase) <= Rank(currentPhase'), currentPhase' \in Phases,
           shouldTerminate => shouldTerminate' /\ reason' = reason
    PROVE  HandlerInv' /\ PhasesInOrder' /\ WellFormedResponse'
<1>1. HandlerInv'
  BY DEF IInv, HandlerInv
<1>2. \A i \in DOMAIN sent : sent[i] \in Events
  BY LenProperties, ElementOfSeq DEF IInv, HandlerInv
<1>3. currentPhase \in KnownPhases /\ currentPhase' \in KnownPhases
  BY DEF IInv, TypeOK, KnownPhases
<1>4. PhasesInOrder'
  BY <1>2, <1>3, RankIsPosition DEF IInv, PhasesInOrder, Events
<1>5. WellFormedResponse'
  BY <1>2, <1>3, RankIsPosition DEF IInv, WellFormedResponse, Step, Events
<1>6. QED
  BY <1>1, <1>4, <1>5

\* The page has handled nothing more.
LEMMA NothingHandled ==
    ASSUME IInv, UNCHANGED <<sent, delivered>>, stream'.phase = stream.phase,
           Rank(currentPhase) <= Rank(currentPhase'), currentPhase' \in Phases
    PROVE  PageBehind'
  BY RankIsPosition DEF IInv, TypeOK, PageBehind, StreamType, KnownPhases

\* Of a new connection nothing is written yet.
LEMMA ResponseDropped ==
    ASSUME IInv, DropResponse, Rank(stream'.phase) <= Rank(currentPhase), UNCHANGED view
    PROVE  /\ HandlerInv' /\ PhasesInOrder' /\ WellFormedResponse' /\ PageBehind'
           /\ delivered' \in 0..Len(sent')
<1>1. sent' \in Seq(Events) /\ Len(sent') = 0
  BY EmptySeq DEF DropResponse
<1>2. DOMAIN sent' = {}
  BY <1>1, LenProperties
<1>3. QED
  BY <1>1, <1>2 DEF DropResponse, HandlerInv, PhasesInOrder, WellFormedResponse, PageBehind, view

LEMMA StreamAccepted ==
    ASSUME IInv, AcceptStream
    PROVE  IInv'
<1>1. sent' \in Seq(Events) /\ Len(sent') = 1 /\ DOMAIN sent' = {1} /\ sent'[1] = RunStarted
  BY EventTypes DEF AcceptStream
<1>2. UNCHANGED <<view, delivered, stream>> /\ pc' = "describe" /\ pc = "none"
  BY DEF AcceptStream
<1>3. TypeOK'
  BY <1>1 DEF AcceptStream, IInv, TypeOK, HandlerInv, view, pageVars
<1>4. HandlerInv'
  BY <1>1, <1>2 DEF HandlerInv
<1>5. PhasesInOrder' /\ PageBehind'
  BY <1>1, <1>2, EventTypes DEF PhasesInOrder, PageBehind, Shows, IInv, view
<1>6. WellFormedResponse'
  BY <1>1, EventTypes DEF WellFormedResponse, Step
<1>7. QED
  BY <1>2, <1>3, <1>4, <1>5, <1>6 DEF IInv, view

LEMMA ErrorTold ==
    ASSUME IInv, ReadFails
    PROVE  IInv'
<1> DEFINE n == Len(sent)
<1>1. /\ sent \in Seq(Events) /\ n \in Nat /\ DOMAIN sent = 1..n
      /\ n # 0 /\ pc \in {"describe", "fetch"}
      /\ \A i \in 1..n : sent[i] \in Events
  <2>1. sent \in Seq(Events) /\ n # 0 /\ pc \in {"describe", "fetch"}
    BY DEF ReadFails, IInv, HandlerInv
  <2>2. QED
    BY <2>1, LenProperties, ElementOfSeq
<1>2. /\ sent' \in Seq(Events) /\ Len(sent') = n + 1 /\ DOMAIN sent' = 1..(n + 1)
      /\ \A i \in 1..n : sent'[i] = sent[i]
      /\ sent'[n + 1] = RunError
  <2>1. sent' = Append(sent, RunError)
    BY DEF ReadFails
  <2>2. QED
    BY <1>1, <2>1, EventTypes, AppendProperties
<1>3. UNCHANGED <<view, delivered, stream>> /\ pc' = "over"
  BY DEF ReadFails
<1>4. TypeOK'
  BY <1>1, <1>2, <1>3 DEF ReadFails, IInv, TypeOK, view, pageVars
<1>5. HandlerInv'
  BY <1>1, <1>2, <1>3 DEF HandlerInv
<1>6. PhasesInOrder' /\ PageBehind'
  BY <1>1, <1>2, <1>3, EventTypes DEF PhasesInOrder, PageBehind, Shows, IInv, TypeOK, view
<1>7. WellFormedResponse'
  <2>1. UNCHANGED <<currentPhase, shouldTerminate, reason>>
    BY <1>3 DEF view
  <2>2. RunError.type = "RUN_ERROR"
    BY EventTypes
  <2>3. ASSUME NEW i \in 1..n, NEW type, Step(i, type)
        PROVE  Step(i, type)' /\ sent'[i] = sent[i]
    BY <1>1, <1>2, <2>3 DEF Step
  <2>4. ASSUME NEW i \in 1..n
        PROVE  /\ Step(i, "RUN_STARTED")' <=> i = 1
               /\ i = 2 => sent'[i].type = "STATE_SNAPSHOT"
               /\ Step(i, "STATE_SNAPSHOT")' => i = 2
               /\ sent'[i].type \notin {"RUN_ERROR", "RUN_FINISHED"}
    <3>1. i \in DOMAIN sent /\ i \in DOMAIN sent' /\ sent'[i] = sent[i] /\ pc # "over"
      BY <1>1, <1>2
    <3>2. QED
      BY <3>1 DEF IInv, WellFormedResponse, Step
  <2>5. ASSUME NEW i \in 1..n, sent[i].type = "STEP_FINISHED"
        PROVE  /\ Step(i - 1, "STATE_SNAPSHOT")' \/ Step(i - 1, "STEP_STARTED")'
               /\ sent'[i].phase = sent'[i - 1].phase
               /\ Step(i + 1, "STEP_STARTED")'
    <3>1. Step(i, "STEP_FINISHED") /\ i \in DOMAIN sent
      BY <1>1, <2>5 DEF Step
    <3>2. /\ Step(i - 1, "STATE_SNAPSHOT") \/ Step(i - 1, "STEP_STARTED")
          /\ sent[i].phase = sent[i - 1].phase
          /\ Step(i + 1, "STEP_STARTED")
      BY <3>1 DEF IInv, WellFormedResponse
    <3>3. i - 1 \in 1..n /\ i + 1 \in 1..n
      BY <1>1, <3>2 DEF Step
    <3>4. QED
      BY <1>2, <2>3, <3>2, <3>3
  <2>6. ASSUME NEW i \in 1..n, sent[i].type = "STEP_STARTED"
        PROVE  /\ Step(i - 1, "STEP_FINISHED")'
               /\ Rank(sent'[i - 1].phase) < Rank(sent'[i].phase)
               /\ Rank(sent'[i].phase) <= Rank(currentPhase)
    <3>1. Step(i, "STEP_STARTED") /\ i \in DOMAIN sent
      BY <1>1, <2>6 DEF Step
    <3>2. /\ Step(i - 1, "STEP_FINISHED")
          /\ Rank(sent[i - 1].phase) < Rank(sent[i].phase)
          /\ Rank(sent[i].phase) <= Rank(currentPhase)
      BY <3>1 DEF IInv, WellFormedResponse
    <3>3. i - 1 \in 1..n
      BY <1>1, <3>2 DEF Step
    <3>4. QED
      BY <1>2, <2>3, <3>2, <3>3
  <2>7. ASSUME NEW i \in DOMAIN sent'
        PROVE  /\ Step(i, "RUN_STARTED")' <=> i = 1
               /\ i = 2 => sent'[i].type \in {"STATE_SNAPSHOT", "RUN_ERROR"}
               /\ Step(i, "STATE_SNAPSHOT")' => i = 2
               /\ sent'[i].type \in {"RUN_ERROR", "RUN_FINISHED"} => i = Len(sent')
               /\ ~Step(i, "RUN_FINISHED")'
    <3>1. CASE i \in 1..n
      BY <2>4, <3>1 DEF Step
    <3>2. CASE i = n + 1
      <4>1. sent'[i].type = "RUN_ERROR" /\ i = Len(sent') /\ i # 1
        BY <1>1, <1>2, <2>2, <3>2
      <4>2. QED
        BY <4>1 DEF Step
    <3>3. QED
      BY <1>1, <1>2, <3>1, <3>2
  <2>8. ASSUME NEW i \in DOMAIN sent', sent'[i].type \in {"STEP_FINISHED", "STEP_STARTED"}
        PROVE  i \in 1..n /\ sent'[i] = sent[i]
    BY <1>1, <1>2, <2>2, <2>8
  <2>9. ASSUME NEW i \in DOMAIN sent', Step(i, "STEP_FINISHED")'
        PROVE  /\ Step(i - 1, "STATE_SNAPSHOT")' \/ Step(i - 1, "STEP_STARTED")'
               /\ sent'[i].phase = sent'[i - 1].phase
               /\ Step(i + 1, "STEP_STARTED")'
    <3>1. i \in 1..n /\ sent[i].type = "STEP_FINISHED"
      BY <2>8, <2>9 DEF Step
    <3>2. QED
      BY <2>5, <3>1
  <2>10. ASSUME NEW i \in DOMAIN sent', Step(i, "STEP_STARTED")'
         PROVE  /\ Step(i - 1, "STEP_FINISHED")'
                /\ Rank(sent'[i - 1].phase) < Rank(sent'[i].phase)
                /\ Rank(sent'[i].phase) <= Rank(currentPhase)
    <3>1. i \in 1..n /\ sent[i].type = "STEP_STARTED"
      BY <2>8, <2>10 DEF Step
    <3>2. QED
      BY <2>6, <3>1
  <2>11. QED
    BY <1>3, <2>1, <2>7, <2>9, <2>10 DEF WellFormedResponse
<1>8. QED
  BY <1>3, <1>4, <1>5, <1>6, <1>7 DEF IInv, view

\* Where the elements of the second part are.
LEMMA Joined ==
    ASSUME NEW S, NEW s \in Seq(S), NEW t \in Seq(S)
    PROVE  /\ s \o t \in Seq(S) /\ Len(s) \in Nat /\ Len(t) \in Nat
           /\ Len(s \o t) = Len(s) + Len(t)
           /\ \A i \in 1..Len(s) : (s \o t)[i] = s[i]
           /\ \A i \in 1..Len(t) : (s \o t)[Len(s) + i] = t[i]
  BY ConcatProperties, LenProperties

\* What one read adds: the snapshot or a pair of step events, or neither when the
\* phase is the one told last, and the end of the run if the workflow returned.
LEMMA FetchWrites ==
    ASSUME IInv, Fetch
    PROVE  \E n \in Nat \ {0}, m \in Nat :
             /\ Len(sent) = n /\ DOMAIN sent = 1..n
             /\ sent' \in Seq(Events)
             /\ Len(sent') = IF shouldTerminate THEN m + 1 ELSE m
             /\ \A i \in 1..n : sent[i] \in Events /\ sent'[i] = sent[i]
             /\ shouldTerminate => /\ sent'[m + 1].type = "RUN_FINISHED"
                                   /\ sent'[m + 1].reason \in {reason, "none"}
             /\ \/ /\ n = 1 /\ m = 2
                   /\ sent'[2].type = "STATE_SNAPSHOT" /\ sent'[2].phase = currentPhase
                \/ n > 1 /\ m = n /\ lastPhase = currentPhase
                \/ /\ n > 1 /\ m = n + 2 /\ lastPhase # currentPhase
                   /\ sent'[n + 1].type = "STEP_FINISHED" /\ sent'[n + 1].phase = lastPhase
                   /\ sent'[n + 2].type = "STEP_STARTED" /\ sent'[n + 2].phase = currentPhase
<1> DEFINE n == Len(sent)
           r == Answer(described)
           told == Told(r)
           end == IF IsOver(r) THEN <<RunFinished(r)>> ELSE <<>>
           m == n + Len(told)
<1>1. /\ r.schema \in SchemaType /\ r.schema.phase = currentPhase
      /\ r.terminated = shouldTerminate
      /\ r.reason \in {reason, "none"} /\ r.reason \in Reasons
  BY DEF Answer, Build, SchemaType, IInv, TypeOK, Reasons
<1>2. /\ sent \in Seq(Events) /\ n \in Nat \ {0} /\ DOMAIN sent = 1..n
      /\ \A i \in 1..n : sent[i] \in Events
  <2>1. sent \in Seq(Events) /\ n # 0
    BY DEF Fetch, IInv, HandlerInv
  <2>2. QED
    BY <2>1, LenProperties, ElementOfSeq
<1>3. /\ Snapshot(r) \in Events /\ Snapshot(r).type = "STATE_SNAPSHOT" /\ Snapshot(r).phase = currentPhase
      /\ RunFinished(r) \in Events /\ RunFinished(r).type = "RUN_FINISHED"
      /\ RunFinished(r).reason \in {reason, "none"}
  <2> HIDE DEF r
  <2>1. r.schema.phase \in KnownPhases
    BY <1>1 DEF IInv, TypeOK, KnownPhases
  <2>2. QED
    BY <1>1, <2>1, EventTypes DEF Snapshot, RunFinished, Event, Events, KnownPhases, Reasons
<1>4. lastPhase \in KnownPhases /\ currentPhase \in KnownPhases
  BY DEF IInv, TypeOK, KnownPhases
<1>5. /\ told \in Seq(Events) /\ end \in Seq(Events)
      /\ Len(end) = IF shouldTerminate THEN 1 ELSE 0
      /\ shouldTerminate => end[1] = RunFinished(r)
  <2> HIDE DEF r
  <2>1. told \in Seq(Events)
    BY <1>1, <1>3, <1>4, EventTypes DEF Told
  <2>2. QED
    BY <1>1, <1>3, <2>1 DEF IsOver
<1>6. \/ n = 1 /\ Len(told) = 1 /\ told[1] = Snapshot(r)
      \/ n > 1 /\ lastPhase = currentPhase /\ Len(told) = 0
      \/ /\ n > 1 /\ lastPhase # currentPhase /\ Len(told) = 2
         /\ told[1] = Event("STEP_FINISHED", lastPhase) /\ told[2] = Event("STEP_STARTED", currentPhase)
  <2> HIDE DEF r
  <2>1. QED
    BY <1>1, <1>2 DEF Told, FirstRead
<1>7. sent' = (sent \o told) \o end
  BY DEF Fetch
<1> HIDE DEF r, told, end
<1> DEFINE first == sent \o told
<1>8. /\ first \in Seq(Events) /\ Len(first) = m /\ Len(told) \in Nat /\ m \in Nat
      /\ \A i \in 1..n : first[i] = sent[i]
      /\ \A i \in 1..Len(told) : first[n + i] = told[i]
  BY <1>2, <1>5, Joined
<1> HIDE DEF first
<1>9. /\ first \o end \in Seq(Events) /\ Len(first \o end) = Len(first) + Len(end)
      /\ \A i \in 1..Len(first) : (first \o end)[i] = first[i]
      /\ \A i \in 1..Len(end) : (first \o end)[Len(first) + i] = end[i]
  <2>1. first \in Seq(Events) /\ end \in Seq(Events)
    BY <1>5, <1>8
  <2>2. QED
    BY <2>1, Joined
<1>10. /\ sent' \in Seq(Events) /\ Len(sent') = m + Len(end)
       /\ \A i \in 1..m : sent'[i] = first[i]
       /\ \A i \in 1..Len(end) : sent'[m + i] = end[i]
  BY <1>7, <1>8, <1>9 DEF first
<1>11. /\ Len(sent') = IF shouldTerminate THEN m + 1 ELSE m
       /\ shouldTerminate => sent'[m + 1] = RunFinished(r)
  <2> HIDE DEF m
  <2>1. QED
    BY <1>5, <1>8, <1>10
<1>12. /\ \A i \in 1..n : sent'[i] = sent[i]
       /\ \A i \in 1..Len(told) : sent'[n + i] = told[i]
  <2>1. ASSUME NEW i \in 1..n PROVE sent'[i] = sent[i]
    BY <1>2, <1>8, <1>10
  <2>2. ASSUME NEW i \in 1..Len(told) PROVE sent'[n + i] = told[i]
    BY <1>2, <1>8, <1>10
  <2>3. QED
    BY <2>1, <2>2
<1> HIDE DEF n
<1>13. \/ n = 1 /\ m = 2 /\ sent'[2] = Snapshot(r)
       \/ n > 1 /\ m = n /\ lastPhase = currentPhase
       \/ /\ n > 1 /\ m = n + 2 /\ lastPhase # currentPhase
          /\ sent'[n + 1] = Event("STEP_FINISHED", lastPhase)
          /\ sent'[n + 2] = Event("STEP_STARTED", currentPhase)
  BY <1>2, <1>6, <1>12
<1>14. QED
  <2> HIDE DEF m
  <2>1. \A type, p : Event(type, p).type = type /\ Event(type, p).phase = p
    BY DEF Event
  <2>2. n \in Nat \ {0} /\ m \in Nat /\ Len(sent) = n /\ DOMAIN sent = 1..n
    BY <1>2, <1>8 DEF n
  <2> WITNESS n \in Nat \ {0}, m \in Nat
  <2>3. shouldTerminate => /\ sent'[m + 1].type = "RUN_FINISHED"
                           /\ sent'[m + 1].reason \in {reason, "none"}
    BY <1>3, <1>11
  <2>4. \A i \in 1..n : sent[i] \in Events /\ sent'[i] = sent[i]
    BY <1>2, <1>12
  <2>5. \/ /\ n = 1 /\ m = 2
           /\ sent'[2].type = "STATE_SNAPSHOT" /\ sent'[2].phase = currentPhase
        \/ n > 1 /\ m = n /\ lastPhase = currentPhase
        \/ /\ n > 1 /\ m = n + 2 /\ lastPhase # currentPhase
           /\ sent'[n + 1].type = "STEP_FINISHED" /\ sent'[n + 1].phase = lastPhase
           /\ sent'[n + 2].type = "STEP_STARTED" /\ sent'[n + 2].phase = currentPhase
    BY <1>3, <1>13, <2>1
  <2>6. QED
    BY <1>10, <1>11, <2>2, <2>3, <2>4, <2>5

LEMMA StateFetched ==
    ASSUME IInv, Fetch
    PROVE  IInv'
<1>1. PICK n \in Nat \ {0}, m \in Nat :
             /\ Len(sent) = n /\ DOMAIN sent = 1..n
             /\ sent' \in Seq(Events)
             /\ Len(sent') = IF shouldTerminate THEN m + 1 ELSE m
             /\ \A i \in 1..n : sent[i] \in Events /\ sent'[i] = sent[i]
             /\ shouldTerminate => /\ sent'[m + 1].type = "RUN_FINISHED"
                                   /\ sent'[m + 1].reason \in {reason, "none"}
             /\ \/ /\ n = 1 /\ m = 2
                   /\ sent'[2].type = "STATE_SNAPSHOT" /\ sent'[2].phase = currentPhase
                \/ n > 1 /\ m = n /\ lastPhase = currentPhase
                \/ /\ n > 1 /\ m = n + 2 /\ lastPhase # currentPhase
                   /\ sent'[n + 1].type = "STEP_FINISHED" /\ sent'[n + 1].phase = lastPhase
                   /\ sent'[n + 2].type = "STEP_STARTED" /\ sent'[n + 2].phase = currentPhase
  BY FetchWrites
<1>2. DOMAIN sent' = 1..Len(sent') /\ Len(sent') >= n
  BY <1>1, LenProperties
<1>3. /\ UNCHANGED <<view, delivered, stream, es>> /\ pc = "fetch" /\ lastPhase' = currentPhase
      /\ pc' = IF shouldTerminate THEN "over" ELSE "wait"
  BY DEF Fetch, Answer, Build, RememberPhase, IsOver
<1>4. currentPhase \in Phases /\ currentPhase \in KnownPhases /\ lastPhase \in KnownPhases
      /\ Rank(currentPhase) \in 1..8
  BY RankIsPosition DEF IInv, TypeOK, KnownPhases
<1>5. \A i \in 1..n : Rank(sent[i].phase) \in 1..8
  BY <1>1, RankIsPosition DEF Events
<1>6. TypeOK'
  BY <1>1, <1>2, <1>3, <1>4 DEF Fetch, IInv, TypeOK, view, pageVars
<1>7. HandlerInv'
  BY <1>1, <1>2, <1>3 DEF IInv, HandlerInv, Shows
<1>8. PhasesInOrder'
  <2>1. ASSUME NEW i \in DOMAIN sent', Shows(sent'[i])
        PROVE  /\ \/ i \in DOMAIN sent /\ sent'[i] = sent[i]
                  \/ i > n /\ sent'[i].phase = currentPhase
               /\ Rank(sent'[i].phase) <= Rank(currentPhase)
    <3>1. CASE i <= n
      <4>1. i \in DOMAIN sent /\ sent'[i] = sent[i]
        BY <1>1, <1>2, <3>1
      <4>2. QED
        BY <2>1, <4>1 DEF IInv, PhasesInOrder
    <3>2. CASE i > n
      <4>1. sent'[i].phase = currentPhase
        BY <1>1, <1>2, <2>1, <3>2 DEF Shows
      <4>2. QED
        BY <1>4, <3>2, <4>1
    <3>3. QED
      BY <1>1, <1>2, <3>1, <3>2
  <2>2. ASSUME NEW i \in DOMAIN sent', NEW j \in DOMAIN sent', i <= j, Shows(sent'[i]), Shows(sent'[j])
        PROVE  Rank(sent'[i].phase) <= Rank(sent'[j].phase)
    <3>1. CASE j \in DOMAIN sent /\ sent'[j] = sent[j]
      <4>1. i \in DOMAIN sent /\ sent'[i] = sent[i]
        BY <1>1, <1>2, <2>2, <3>1
      <4>2. QED
        BY <2>2, <3>1, <4>1 DEF IInv, PhasesInOrder
    <3>2. CASE sent'[j].phase = currentPhase
      BY <2>1, <2>2, <3>2
    <3>3. QED
      BY <2>1, <2>2, <3>1, <3>2
  <2>3. currentPhase' = currentPhase
    BY <1>3 DEF view
  <2>4. QED
    BY <2>1, <2>2, <2>3 DEF PhasesInOrder, Shows
<1>9. PageBehind'
  <2>1. Rank(stream.phase) <= Rank(currentPhase) /\ Rank(stream.phase) \in 1..8
    BY RankIsPosition DEF IInv, TypeOK, PageBehind, StreamType, KnownPhases
  <2>2. UNCHANGED <<delivered, stream, currentPhase>>
    BY <1>3 DEF view
  <2>3. ASSUME NEW i \in DOMAIN sent', i > delivered, Shows(sent'[i])
        PROVE  Rank(stream.phase) <= Rank(sent'[i].phase)
    <3>1. CASE i <= n
      <4>1. i \in DOMAIN sent /\ sent'[i] = sent[i]
        BY <1>1, <1>2, <3>1
      <4>2. QED
        BY <2>3, <4>1 DEF IInv, PageBehind
    <3>2. CASE i > n
      <4>1. sent'[i].phase = currentPhase
        BY <1>1, <1>2, <2>3, <3>2 DEF Shows
      <4>2. QED
        BY <2>1, <4>1
    <3>3. QED
      BY <1>1, <1>2, <3>1, <3>2
  <2>4. QED
    BY <2>1, <2>2, <2>3 DEF PageBehind, Shows
<1>10. WellFormedResponse'
  <2>1. \A i \in 1..n : /\ sent[i].type = "RUN_STARTED" <=> i = 1
                        /\ i = 2 => sent[i].type = "STATE_SNAPSHOT"
                        /\ sent[i].type = "STATE_SNAPSHOT" => i = 2
                        /\ sent[i].type # "RUN_ERROR" /\ sent[i].type # "RUN_FINISHED"
    BY <1>1, <1>3 DEF IInv, WellFormedResponse, Step
  <2>2. ASSUME NEW i \in 1..n, sent[i].type = "STEP_FINISHED"
        PROVE  /\ i > 1 /\ sent[i - 1].type \in {"STATE_SNAPSHOT", "STEP_STARTED"}
               /\ sent[i].phase = sent[i - 1].phase
               /\ i < n /\ sent[i + 1].type = "STEP_STARTED"
    <3>1. i \in DOMAIN sent /\ Step(i, "STEP_FINISHED")
      BY <1>1, <2>2 DEF Step
    <3>2. /\ Step(i - 1, "STATE_SNAPSHOT") \/ Step(i - 1, "STEP_STARTED")
          /\ sent[i].phase = sent[i - 1].phase
          /\ Step(i + 1, "STEP_STARTED")
      BY <3>1 DEF IInv, WellFormedResponse
    <3>3. /\ i - 1 \in 1..n /\ sent[i - 1].type \in {"STATE_SNAPSHOT", "STEP_STARTED"}
          /\ i + 1 \in 1..n /\ sent[i + 1].type = "STEP_STARTED"
      BY <1>1, <3>2 DEF Step
    <3>4. i > 1 /\ i < n
      BY <1>1, <3>3
    <3>5. QED
      BY <3>2, <3>3, <3>4
  <2>3. ASSUME NEW i \in 1..n, sent[i].type = "STEP_STARTED"
        PROVE  /\ i > 1 /\ sent[i - 1].type = "STEP_FINISHED"
               /\ Rank(sent[i - 1].phase) < Rank(sent[i].phase)
               /\ Rank(sent[i].phase) <= Rank(currentPhase)
    <3>1. i \in DOMAIN sent /\ Step(i, "STEP_STARTED")
      BY <1>1, <2>3 DEF Step
    <3>2. /\ Step(i - 1, "STEP_FINISHED")
          /\ Rank(sent[i - 1].phase) < Rank(sent[i].phase)
          /\ Rank(sent[i].phase) <= Rank(currentPhase)
      BY <3>1 DEF IInv, WellFormedResponse
    <3>3. i - 1 \in 1..n /\ sent[i - 1].type = "STEP_FINISHED"
      BY <1>1, <3>2 DEF Step
    <3>4. i > 1
      BY <1>1, <3>3
    <3>5. QED
      BY <3>2, <3>3, <3>4
  <2>4. n > 1 => /\ sent[n].type \in {"STATE_SNAPSHOT", "STEP_STARTED"} /\ sent[n].phase = lastPhase
                 /\ Rank(lastPhase) <= Rank(currentPhase)
    BY <1>1, <1>3 DEF IInv, HandlerInv, PhasesInOrder, Shows
  <2>5. ASSUME NEW i \in DOMAIN sent'
        PROVE  /\ Step(i, "RUN_STARTED")' <=> i = 1
               /\ i = 2 => sent'[i].type \in {"STATE_SNAPSHOT", "RUN_ERROR"}
               /\ Step(i, "STATE_SNAPSHOT")' => i = 2
    <3>1. CASE i <= n
      <4>1. i \in 1..n /\ sent'[i] = sent[i]
        BY <1>1, <1>2, <3>1
      <4>2. /\ sent'[i].type = "RUN_STARTED" <=> i = 1
            /\ i = 2 => sent'[i].type = "STATE_SNAPSHOT"
            /\ sent'[i].type = "STATE_SNAPSHOT" => i = 2
        BY <2>1, <4>1
      <4>3. QED
        BY <2>5, <4>2, Zenon DEF Step
    <3>2. CASE i > n
      <4>1. sent'[i].type = "STATE_SNAPSHOT" <=> n = 1 /\ i = 2
        BY <1>1, <1>2, <3>2
      <4>2. sent'[i].type # "RUN_STARTED" /\ (i = 2 => n = 1)
        BY <1>1, <1>2, <3>2
      <4>3. QED
        BY <1>1, <1>2, <3>2, <4>1, <4>2 DEF Step
    <3>3. QED
      BY <1>1, <1>2, <3>1, <3>2
  <2>6. ASSUME NEW i \in DOMAIN sent', Step(i, "STEP_FINISHED")'
        PROVE  /\ Step(i - 1, "STATE_SNAPSHOT")' \/ Step(i - 1, "STEP_STARTED")'
               /\ sent'[i].phase = sent'[i - 1].phase
               /\ Step(i + 1, "STEP_STARTED")'
    BY <1>1, <1>2, <2>2, <2>4, <2>6 DEF Step
  <2>7. ASSUME NEW i \in DOMAIN sent', Step(i, "STEP_STARTED")'
        PROVE  /\ Step(i - 1, "STEP_FINISHED")'
               /\ Rank(sent'[i - 1].phase) < Rank(sent'[i].phase)
               /\ Rank(sent'[i].phase) <= Rank(currentPhase)
    <3>1. lastPhase # currentPhase => Rank(lastPhase) # Rank(currentPhase)
      BY <1>4, RankIsPosition
    <3>2. Rank(lastPhase) \in 1..8
      BY <1>4, RankIsPosition
    <3>3. CASE i <= n
      BY <1>1, <1>2, <2>3, <2>7, <3>3 DEF Step
    <3>4. CASE i > n
      <4>1. i = n + 2 /\ n > 1 /\ lastPhase # currentPhase /\ m = n + 2
        BY <1>1, <1>2, <2>7, <3>4 DEF Step
      <4>2. QED
        BY <1>1, <1>2, <1>4, <2>4, <3>1, <3>2, <4>1 DEF Step
    <3>5. QED
      BY <1>1, <1>2, <3>3, <3>4
  <2>8. ASSUME NEW i \in DOMAIN sent'
        PROVE  /\ sent'[i].type \in {"RUN_ERROR", "RUN_FINISHED"} => i = Len(sent') /\ pc' = "over"
               /\ Step(i, "RUN_FINISHED")' => shouldTerminate /\ sent'[i].reason \in {reason, "none"}
    <3>1. CASE i <= n
      <4>1. i \in 1..n /\ sent'[i] = sent[i]
        BY <1>1, <1>2, <3>1
      <4>2. sent'[i].type # "RUN_ERROR" /\ sent'[i].type # "RUN_FINISHED"
        BY <2>1, <4>1
      <4>3. QED
        BY <4>2 DEF Step
    <3>2. CASE i > n
      <4>1. sent'[i].type # "RUN_ERROR"
        BY <1>1, <1>2, <3>2
      <4>2. sent'[i].type = "RUN_FINISHED" => shouldTerminate /\ i = m + 1
        BY <1>1, <1>2, <3>2
      <4>3. QED
        BY <1>1, <1>3, <4>1, <4>2 DEF Step
    <3>3. QED
      BY <1>1, <1>2, <3>1, <3>2
  <2>9. UNCHANGED <<currentPhase, shouldTerminate, reason>>
    BY <1>3 DEF view
  <2>10. QED
    BY <2>5, <2>6, <2>7, <2>8, <2>9 DEF WellFormedResponse
<1>11. QED
  BY <1>3, <1>6, <1>7, <1>8, <1>9, <1>10 DEF IInv, view

\* The page reconnects, or is done with the stream: what it shows stays, unless it is
\* loaded anew.
LEMMA ConnectionEnds ==
    ASSUME IInv, DropResponse, UNCHANGED view,
           es' \in {"connecting", "off"},
           \/ stream' = NewStream
           \/ stream' = [stream EXCEPT !.connected = FALSE, !.error = TRUE]
           \/ UNCHANGED stream,
           UNCHANGED <<flushable, killed>>,
           result' \in {"none", "live", "terminated"},
           load' \in {"loading", "loaded", "failed"}
    PROVE  IInv'
<1>1. stream' \in StreamType /\ stream'.phase \in {stream.phase, "none"}
  BY EventTypes DEF IInv, TypeOK, StreamType
<1>2. Rank(stream'.phase) <= Rank(currentPhase)
  BY <1>1, RankIsPosition DEF IInv, TypeOK, PageBehind, KnownPhases
<1>3. HandlerInv' /\ PhasesInOrder' /\ WellFormedResponse' /\ PageBehind' /\ delivered' \in 0..Len(sent')
  BY <1>2, ResponseDropped
<1>4. TypeOK'
  BY <1>1, <1>3 DEF IInv, TypeOK, DropResponse, view
<1>5. QED
  BY <1>3, <1>4 DEF IInv, view

\* The page handles the next event.
LEMMA EventHandled ==
    ASSUME IInv, Deliver
    PROVE  /\ stream' \in StreamType
           /\ Rank(stream.phase) <= Rank(stream'.phase)
           /\ PageBehind'
<1> DEFINE e == sent[delivered + 1]
<1>1. delivered + 1 \in 1..Len(sent) /\ DOMAIN sent = 1..Len(sent) /\ delivered \in Nat /\ Len(sent) \in Nat
  <2>1. Len(sent) \in Nat /\ DOMAIN sent = 1..Len(sent)
    BY LenProperties DEF IInv, HandlerInv
  <2>2. QED
    BY <2>1 DEF Deliver, IInv, TypeOK
<1>2. e \in Events
  BY <1>1, ElementOfSeq DEF IInv, HandlerInv
<1>3. stream' = HandleEvent(e) /\ delivered' = delivered + 1 /\ UNCHANGED <<sent, view>>
  BY DEF Deliver
<1>4. stream \in StreamType
  BY DEF IInv, TypeOK
<1>5. stream' \in StreamType /\ stream'.phase = IF Shows(e) THEN e.phase ELSE stream.phase
  <2> HIDE DEF e
  <2>1. QED
    BY <1>2, <1>3, <1>4 DEF HandleEvent, Shows, Events, StreamType, KnownPhases
<1>6. Shows(e) => Rank(stream.phase) <= Rank(e.phase) /\ Rank(e.phase) <= Rank(currentPhase)
  BY <1>1 DEF IInv, PageBehind, PhasesInOrder
<1>7. Rank(stream.phase) <= Rank(stream'.phase)
  BY <1>4, <1>5, <1>6, RankIsPosition DEF StreamType, KnownPhases
<1>8. PageBehind'
  <2>1. Rank(stream'.phase) <= Rank(currentPhase)
    BY <1>5, <1>6 DEF IInv, PageBehind
  <2>2. ASSUME NEW i \in 1..Len(sent), i > delivered + 1, Shows(sent[i])
        PROVE  Rank(stream'.phase) <= Rank(sent[i].phase)
    <3>1. Shows(e) => Rank(e.phase) <= Rank(sent[i].phase)
      BY <1>1, <2>2 DEF IInv, PhasesInOrder
    <3>2. Rank(stream.phase) <= Rank(sent[i].phase)
      BY <1>1, <2>2 DEF IInv, PageBehind
    <3>3. QED
      BY <1>5, <3>1, <3>2
  <2>3. QED
    BY <1>1, <1>3, <2>1, <2>2 DEF PageBehind, Shows, view
<1>9. QED
  BY <1>5, <1>7, <1>8

-----------------------------------------------------------------------------
(* The inductive step.                                                       *)

LEMMA InductiveStep == IInv /\ [Next]_vars => IInv'
<1> SUFFICES ASSUME IInv, [Next]_vars PROVE IInv'
  OBVIOUS
<1>1. currentPhase \in Phases /\ Rank(currentPhase) <= Rank(currentPhase)
  BY RankIsPosition DEF IInv, TypeOK, KnownPhases
<1>2. ASSUME UNCHANGED <<view, sent, lastPhase, delivered>>,
             pc' = "none" <=> pc = "none", pc = "over" => pc' = "over",
             stream'.phase = stream.phase, TypeOK'
      PROVE  IInv'
  <2>1. HandlerInv' /\ PhasesInOrder' /\ WellFormedResponse'
    BY <1>1, <1>2, NothingWritten DEF view
  <2>2. PageBehind'
    BY <1>1, <1>2, NothingHandled DEF view
  <2>3. QED
    BY <1>2, <2>1, <2>2 DEF IInv, view
<1>3. CASE UNCHANGED vars
  <2>1. TypeOK'
    BY <1>3 DEF vars, view, handlerVars, responseVars, pageVars, IInv, TypeOK
  <2>2. QED
    BY <1>2, <1>3, <2>1 DEF vars, handlerVars, responseVars
<1>4. CASE WorkflowStep
  <2>1. ~shouldTerminate /\ currentPhase' \in Phases /\ Rank(currentPhase) <= Rank(currentPhase')
    BY <1>1, <1>4, WorkflowGoesOn DEF WorkflowStep
  <2>2. reason' \in Reasons
    BY <1>4 DEF IInv, WorkflowStep, Reasons, View!Next, View!Triage, View!Analyse, View!Plan, View!Approve,
       View!Verify, View!Stop, View!NothingToDo, View!Deny, View!Complete, View!Advance, View!Return
  <2>3. UNCHANGED <<flushable, killed, pc, described, lastPhase, sent, delivered, es, stream, result, load>>
    BY <1>4 DEF WorkflowStep, handlerVars, responseVars, pageVars
  <2>4. HandlerInv' /\ PhasesInOrder' /\ WellFormedResponse'
    BY <2>1, <2>3, NothingWritten
  <2>5. PageBehind'
    BY <2>1, <2>3, NothingHandled
  <2>6. TypeOK'
    BY <2>1, <2>3 DEF IInv, TypeOK
  <2>7. QED
    BY <2>2, <2>4, <2>5, <2>6 DEF IInv
<1>5. CASE OperatorTerminates
  <2>1. TypeOK'
    BY <1>5 DEF OperatorTerminates, view, handlerVars, responseVars, pageVars, IInv, TypeOK
  <2>2. QED
    BY <1>2, <1>5, <2>1 DEF OperatorTerminates, handlerVars, responseVars
<1>6. CASE AcceptStream
  BY <1>6, StreamAccepted
<1>7. CASE RefuseStream
  <2>1. TypeOK' /\ stream'.phase = stream.phase
    BY <1>7 DEF RefuseStream, view, handlerVars, responseVars, pageVars, IInv, TypeOK, StreamType
  <2>2. QED
    BY <1>2, <1>7, <2>1 DEF RefuseStream, handlerVars, responseVars
<1>8. CASE Describe
  <2>1. TypeOK'
    BY <1>8 DEF Describe, Status, view, responseVars, pageVars, IInv, TypeOK
  <2>2. QED
    BY <1>2, <1>8, <2>1 DEF Describe, responseVars
<1>9. CASE Fetch
  BY <1>9, StateFetched
<1>10. CASE ReadFails
  BY <1>10, ErrorTold
<1>11. CASE Tick \/ DeadlineEnds
  <2>1. TypeOK'
    BY <1>11 DEF Tick, DeadlineEnds, view, responseVars, pageVars, IInv, TypeOK
  <2>2. QED
    BY <1>2, <1>11, <2>1 DEF Tick, DeadlineEnds, responseVars
<1>12. CASE Opens
  <2>1. TypeOK' /\ stream'.phase = stream.phase
    BY <1>12 DEF Opens, view, handlerVars, responseVars, pageVars, IInv, TypeOK, StreamType
  <2>2. QED
    BY <1>2, <1>12, <2>1 DEF Opens, handlerVars, responseVars
<1>13. CASE Deliver
  <2>1. UNCHANGED <<view, flushable, killed, pc, described, lastPhase, sent, es, result, load>>
    BY <1>13 DEF Deliver, handlerVars, pageVars
  <2>2. HandlerInv' /\ PhasesInOrder' /\ WellFormedResponse'
    BY <1>1, <2>1, NothingWritten DEF view
  <2>3. stream' \in StreamType /\ PageBehind'
    BY <1>13, EventHandled
  <2>4. delivered' \in 0..Len(sent')
    BY <1>13, LenProperties DEF Deliver, IInv, TypeOK, HandlerInv
  <2>5. TypeOK'
    BY <2>1, <2>3, <2>4 DEF view, IInv, TypeOK
  <2>6. QED
    BY <2>1, <2>2, <2>3, <2>5 DEF IInv, view
<1>14. CASE ResponseEnds
  BY <1>14, ConnectionEnds DEF ResponseEnds, IInv, TypeOK, pageVars
<1>15. CASE ConnectionBreaks
  BY <1>15, ConnectionEnds DEF ConnectionBreaks, IInv, TypeOK, pageVars
<1>16. CASE LoadState
  <2>1. TypeOK'
    BY <1>16 DEF LoadState, view, handlerVars, responseVars, IInv, TypeOK
  <2>2. QED
    BY <1>2, <1>16, <2>1 DEF LoadState, handlerVars, responseVars
<1>17. CASE LoadSettles
  <2>1. CASE result = "terminated"
    BY <1>17, <2>1, ConnectionEnds DEF LoadSettles, IInv, TypeOK
  <2>2. CASE result # "terminated"
    <3>1. TypeOK'
      BY <1>17, <2>2 DEF LoadSettles, view, handlerVars, responseVars, IInv, TypeOK
    <3>2. QED
      BY <1>2, <1>17, <2>2, <3>1 DEF LoadSettles, handlerVars, responseVars
  <2>3. QED
    BY <2>1, <2>2
<1>18. CASE LoadFails
  <2>1. TypeOK'
    BY <1>18 DEF LoadFails, view, handlerVars, responseVars, IInv, TypeOK
  <2>2. QED
    BY <1>2, <1>18, <2>1 DEF LoadFails, handlerVars, responseVars
<1>19. CASE Reload
  BY <1>19, ConnectionEnds DEF Reload
<1>20. QED
  BY <1>3, <1>4, <1>5, <1>6, <1>7, <1>8, <1>9, <1>10, <1>11, <1>12, <1>13, <1>14, <1>15, <1>16, <1>17, <1>18, <1>19
  DEF Next, Server, Browser

LEMMA Invariance == Spec => []IInv
  BY InductiveInit, InductiveStep, PTL DEF Spec

\* Only the page's handlers of events and a reload touch the phase it shows.
LEMMA ShownPhaseStep ==
    ASSUME IInv, Next
    PROVE  Rank(stream'.phase) >= Rank(stream.phase) \/ stream' = NewStream
<1>1. Rank(stream.phase) \in 1..8 /\ stream \in StreamType
  BY RankIsPosition DEF IInv, TypeOK, StreamType, KnownPhases
<1>2. CASE Deliver
  BY <1>1, <1>2, EventHandled, RankIsPosition DEF StreamType, KnownPhases
<1>3. CASE Reload
  BY <1>3 DEF Reload
<1>4. CASE ~Deliver /\ ~Reload
  <2>1. stream'.phase = stream.phase
    BY <1>1, <1>4 DEF Next, Server, Browser, StreamType, WorkflowStep, OperatorTerminates, AcceptStream,
       RefuseStream, Describe, Fetch, ReadFails, Tick, DeadlineEnds, Opens, ResponseEnds, ConnectionBreaks,
       LoadState, LoadSettles, LoadFails
  <2>2. QED
    BY <1>1, <2>1
<1>5. QED
  BY <1>2, <1>3, <1>4

-----------------------------------------------------------------------------
(* What is proved of the stream.                                             *)

(* The types, and that the page handles no more events than were sent on the        *)
(* connection it has.                                                               *)
THEOREM TypeTheorem == Spec => []TypeOK
<1>1. IInv => TypeOK
  BY DEF IInv
<1>2. QED
  BY <1>1, Invariance, PTL

(* What the handler writes on a connection is one well-formed run, whatever the     *)
(* workflow does meanwhile and whichever reads fail (stream.go:50-159).             *)
THEOREM ResponseTheorem == Spec => []WellFormedResponse
<1>1. IInv => WellFormedResponse
  BY DEF IInv
<1>2. QED
  BY <1>1, Invariance, PTL

(* The page never goes back to an earlier phase, for any number of connections that *)
(* break or end (useAGUIStream.ts:33-82, stream.go:70-79).                          *)
THEOREM PhaseTheorem == Spec => PhaseNeverBack
<1>1. IInv /\ [Next]_vars => [Rank(stream'.phase) >= Rank(stream.phase) \/ stream' = NewStream]_stream
  BY ShownPhaseStep DEF vars
<1>2. QED
  BY <1>1, Invariance, PTL DEF Spec, PhaseNeverBack
=============================================================================
