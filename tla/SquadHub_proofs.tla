--------------------------- MODULE SquadHub_proofs ---------------------------
(***************************************************************************)
(* Proofs about SquadHub for any sets of tasks and kill-switch requests.   *)
(***************************************************************************)
EXTENDS SquadHub, SequenceTheorems, FiniteSetTheorems, TLAPS

Steps == {"none", "succeeded", "failed", "reporting", "closing"} \cup Awaiting \cup Reading \cup Over

LEMMA StepsAre ==
  /\ Awaiting = {"binding", "acquiring", "calling", "receiving"}
  /\ Reading = {"calling", "checking", "receiving", "publishing"}
  /\ Over = {"ended", "aborted", "panicked"}
  /\ Running = {"planning", "asking", "executing"}
  /\ Steps = {"none", "succeeded", "failed", "reporting", "closing", "binding", "acquiring",
              "calling", "receiving", "checking", "publishing", "ended", "aborted", "panicked"}
BY DEF Awaiting, Reading, Over, Running, Steps

-----------------------------------------------------------------------------
(* Types, in three parts that few actions disturb together. *)

HubTypes ==
  /\ log \in [Task -> Seq(Kind)]
  /\ tx \in [Task -> {"none", "open", "dropped"}]
  /\ inbox \in [Task -> 0..MaxMessages]
  /\ stopped \in [Task -> BOOLEAN] /\ abort \in [Task -> BOOLEAN] /\ aborted \in [Task -> BOOLEAN]
  /\ stop \in [Operator -> {"idle", "marked", "published", "done"}]
  /\ target \in [Operator -> Task \cup {None}]

DriverTypes ==
  /\ handler \in [Task -> {"idle", "created", "refused", "spawned", "done"}]
  /\ driver \in [Task -> Steps]
  /\ core \in [Task -> {"none", "starting", "serving", "ended"}]
  /\ owner \in Task \cup {None} /\ lease \in Task \cup {None}

Sent == {"event", "hitl", "error", "end"}

OrchTypes ==
  /\ stream \in [Task -> Seq(Sent)]
  /\ orch \in [Task -> {"none", "ended", "dead"} \cup Running]
  /\ emitted \in [Task -> 0..MaxEvents]
  /\ conn \in [Task -> Task \cup {None}]
  /\ pending \in [Task -> 0..Len(gates)]
  /\ call \in [Task -> 0..Len(gates)]
  /\ gates \in Seq(Gate) /\ Len(gates) <= MaxGates

LEMMA TypeParts == TypeOK <=> HubTypes /\ DriverTypes /\ OrchTypes
BY DEF TypeOK, HubTypes, DriverTypes, OrchTypes, Steps, Sent

\* An orchestrator past its planning has connected, and a stop that was marked has
\* a target: what those steps read is there.
Connected ==
  /\ \A t \in Task : orch[t] \in {"asking", "executing"} \/ call[t] # 0 => conn[t] # None
  /\ \A o \in Operator : stop[o] # "idle" => target[o] # None
  /\ \A t \in Task : driver[t] = "publishing" => stream[t] # <<>> /\ Head(stream[t]) # "end"
Typed == HubTypes /\ DriverTypes /\ OrchTypes /\ Connected

LEMMA TypeInitially == Init => Typed
BY HubAssumption, StepsAre
DEF Init, Typed, HubTypes, DriverTypes, OrchTypes, Connected, Kind, Sent

\* An answer changes the status of one gate that waited, and nothing else of gates.
LEMMA AnsweredGates ==
  ASSUME gates \in Seq(Gate), NEW g \in 0..Len(gates),
         NEW a \in {"allow", "deny", "expired", "abandoned", "ran"}
  PROVE  /\ Answered(g, a) \in Seq(Gate) /\ Len(Answered(g, a)) = Len(gates)
         /\ \A i \in 1..Len(gates) :
              Answered(g, a)[i] = IF i = g /\ gates[i].status = "waiting"
                                  THEN [gates[i] EXCEPT !.status = a] ELSE gates[i]
<1>1. CASE g # 0 /\ gates[g].status = "waiting"
  <2>1. g \in 1..Len(gates) /\ gates[g] \in Gate
    BY <1>1
  <2>2. [gates[g] EXCEPT !.status = a] \in Gate
    BY <2>1 DEF Gate
  <2> DEFINE e == [gates[g] EXCEPT !.status = a]
  <2>3. Answered(g, a) = [gates EXCEPT ![g] = e]
    BY <1>1 DEF Answered
  <2>4. e \in Gate
    BY <2>2
  <2> HIDE DEF e
  <2>5. /\ [gates EXCEPT ![g] = e] \in Seq(Gate) /\ Len([gates EXCEPT ![g] = e]) = Len(gates)
        /\ \A i \in 1..Len(gates) : [gates EXCEPT ![g] = e][i] = IF i = g THEN e ELSE gates[i]
    BY <2>1, <2>4, ExceptSeq
  <2>6. \A i \in 1..Len(gates) : i = g => gates[i].status = "waiting" /\ e = [gates[i] EXCEPT !.status = a]
    BY <1>1 DEF e
  <2>. QED
    BY <2>3, <2>5, <2>6
<1>2. CASE ~(g # 0 /\ gates[g].status = "waiting")
  BY <1>2 DEF Answered
<1>. QED
  BY <1>1, <1>2

\* The steps that touch what the hub keeps of a task, but for its gate.
Log(t) == \E k \in Kind : Publish(t, k)
HubFrame == UNCHANGED <<log, tx, inbox, stopped, abort, aborted, stop, target>>

LEMMA HubFrames ==
  /\ \A t \in Task :
       PrepareFails(t) \/ Spawn(t) \/ Bind(t) \/ Verify(t) \/ AcquireLease(t) => HubFrame
  /\ \A t \in Task :
       ExecuteTask(t) \/ CheckStopped(t) \/ Receive(t) \/ JudgeOutcome(t) \/ Cancelled(t)
       => HubFrame
  /\ \A t \in Task :
       StartOrchestrator(t) \/ Connect(t) \/ Emit(t) \/ Decide(t) \/ RequestHitl(t) => HubFrame
  /\ \A t \in Task :
       ReturnCall(t) \/ EndOrchestrator(t) \/ GiveUp(t) \/ LoseTail(t) => HubFrame
  /\ \A g : RunTool(g) \/ Expire(g) \/ DropCall(g) => HubFrame
  /\ \A t \in Task, a \in {"allow", "deny"} : ResolveHitl(t, a) => HubFrame
  /\ Crash => HubFrame
<1> USE DEF hubVars, driverVars, stopVars, orchVars, HubFrame
<1>1. \A t \in Task :
        PrepareFails(t) \/ Spawn(t) \/ Bind(t) \/ Verify(t) \/ AcquireLease(t) => HubFrame
  BY DEF PrepareFails, Spawn, Bind, Verify, AcquireLease
<1>2. \A t \in Task :
        ExecuteTask(t) \/ CheckStopped(t) \/ Receive(t) \/ JudgeOutcome(t) \/ Cancelled(t)
        => HubFrame
  BY DEF ExecuteTask, CheckStopped, Receive, JudgeOutcome, Cancelled
<1>3. \A t \in Task :
        StartOrchestrator(t) \/ Connect(t) \/ Emit(t) \/ Decide(t) \/ RequestHitl(t) => HubFrame
  BY DEF StartOrchestrator, Connect, Emit, Decide, RequestHitl
<1>4. \A t \in Task :
       ReturnCall(t) \/ EndOrchestrator(t) \/ GiveUp(t) \/ LoseTail(t) => HubFrame
  BY DEF ReturnCall, EndOrchestrator, GiveUp, LoseTail
<1>5. \A g : RunTool(g) \/ Expire(g) \/ DropCall(g) => HubFrame
  BY DEF RunTool, Expire, DropCall
<1>6. \A t \in Task, a \in {"allow", "deny"} : ResolveHitl(t, a) => HubFrame
  BY DEF ResolveHitl
<1>7. Crash => HubFrame
  BY DEF Crash
<1>. QED
  BY <1>1, <1>2, <1>3, <1>4, <1>5, <1>6, <1>7

LEMMA LogTypes ==
  ASSUME log \in [Task -> Seq(Kind)], NEW t \in Task, Log(t)
  PROVE  log' \in [Task -> Seq(Kind)]
<1>1. PICK k \in Kind : log' = [log EXCEPT ![t] = Append(@, k)]
  BY DEF Log, Publish
<1>2. Append(log[t], k) \in Seq(Kind)
  OBVIOUS
<1>. QED
  BY <1>1, <1>2

LEMMA HubTypeStep == Typed /\ [Next]_vars => HubTypes'
<1> SUFFICES ASSUME Typed, [Next]_vars PROVE HubTypes'
  OBVIOUS
<1>0. HubTypes /\ DriverTypes /\ OrchTypes /\ Connected
  BY DEF Typed
<1>1. CASE HubFrame
  BY <1>0, <1>1 DEF HubTypes, HubFrame
<1>2. ASSUME NEW t \in Task, Subscribe(t) \/ NewTask(t) \/ RegisterAbort(t) \/ Close(t)
      PROVE  HubTypes'
  <2>1. CASE Subscribe(t)
    BY <1>0, <2>1 DEF HubTypes, Subscribe, driverVars, stopVars
  <2>2. CASE NewTask(t)
    <3>1. /\ log' = [log EXCEPT ![t] = <<>>] /\ <<>> \in Seq(Kind)
          /\ inbox' = [inbox EXCEPT ![t] = 0] /\ 0 \in 0..MaxMessages
      BY <2>2, HubAssumption DEF NewTask
    <3>2. log' \in [Task -> Seq(Kind)] /\ inbox' \in [Task -> 0..MaxMessages]
      BY <1>0, <3>1 DEF HubTypes
    <3>. QED
      BY <1>0, <2>2, <3>2 DEF HubTypes, NewTask, stopVars
  <2>3. CASE RegisterAbort(t)
    BY <1>0, <2>3 DEF HubTypes, RegisterAbort, stopVars
  <2>4. CASE Close(t)
    BY <1>0, <2>4 DEF HubTypes, Close, stopVars
  <2>. QED
    BY <1>2, <2>1, <2>2, <2>3, <2>4
<1>3. ASSUME NEW t \in Task, PublishEvent(t) \/ ReportFailure(t) \/ EchoMessage(t)
      PROVE  HubTypes'
  <2>1. CASE PublishEvent(t)
    <3>1. stream[t] \in Seq(Sent) /\ stream[t] # <<>> /\ Head(stream[t]) # "end"
      BY <1>0, <2>1 DEF HubTypes, PublishEvent, DriverGoes, OrchTypes, Connected
    <3>2. Head(stream[t]) \in Kind
      BY <3>1, HeadTailProperties DEF Sent, Kind
    <3>. QED
      BY <1>0, <2>1, <3>2, LogTypes DEF HubTypes, PublishEvent, Log, stopVars
  <2>2. CASE ReportFailure(t) \/ EchoMessage(t)
    <3>1. Log(t)
      BY <2>2 DEF ReportFailure, EchoMessage, Log, Kind
    <3>. QED
      BY <1>0, <2>2, <3>1, LogTypes DEF HubTypes, ReportFailure, EchoMessage, driverVars, stopVars
  <2>. QED
    BY <1>3, <2>1, <2>2
<1>4. ASSUME NEW t \in Task, PushMessage(t) PROVE HubTypes'
  BY <1>0, <1>4, HubAssumption DEF HubTypes, PushMessage, driverVars, stopVars
<1>5. ASSUME NEW o \in Operator, NEW t \in Task, MarkStopped(o, t) PROVE HubTypes'
  BY <1>0, <1>5 DEF HubTypes, MarkStopped
<1>6. ASSUME NEW o \in Operator, StopStep(o) PROVE HubTypes'
  <2>1. target[o] \in Task
    BY <1>0, <1>6, HubAssumption DEF HubTypes, StopStep, PublishStop, CloseStopped, Connected
  <2>2. CASE PublishStop(o)
    <3>1. Log(target[o])
      BY <2>2 DEF PublishStop, Log, Kind
    <3>. QED
      BY <1>0, <2>1, <2>2, <3>1, LogTypes DEF HubTypes, PublishStop, driverVars
  <2>3. CASE CloseStopped(o)
    BY <1>0, <2>1, <2>3 DEF HubTypes, CloseStopped, driverVars
  <2>. QED
    BY <1>6, <2>2, <2>3 DEF StopStep
<1>7. CASE UNCHANGED vars
  BY <1>0, <1>7 DEF HubTypes, vars, hubVars, driverVars, stopVars
<1>8. ASSUME NEW t \in Task, HandlerStep(t) \/ Bind(t) \/ DriverStep(t) PROVE HubTypes'
  <2>1. PrepareFails(t) \/ Spawn(t) \/ Bind(t) \/ Verify(t) \/ AcquireLease(t) => HubTypes'
    BY <1>1, HubFrames
  <2>2. ExecuteTask(t) \/ CheckStopped(t) \/ Receive(t) \/ JudgeOutcome(t) \/ Cancelled(t)
        => HubTypes'
    BY <1>1, HubFrames
  <2>3. RegisterAbort(t) \/ Close(t) \/ PublishEvent(t) \/ ReportFailure(t) => HubTypes'
    BY <1>2, <1>3
  <2>. QED
    BY <1>8, <2>1, <2>2, <2>3 DEF HandlerStep, DriverStep
<1>9. ASSUME NEW t \in Task, OrchStep(t) \/ GiveUp(t) \/ LoseTail(t) PROVE HubTypes'
  <2>1. StartOrchestrator(t) \/ Connect(t) \/ Emit(t) \/ Decide(t) \/ RequestHitl(t)
        => HubTypes'
    BY <1>1, HubFrames
  <2>2. ReturnCall(t) \/ EndOrchestrator(t) \/ GiveUp(t) \/ LoseTail(t) => HubTypes'
    BY <1>1, HubFrames
  <2>. QED
    BY <1>9, <2>1, <2>2 DEF OrchStep
<1>10. ASSUME NEW g, GateStep(g) PROVE HubTypes'
  BY <1>1, <1>10, HubFrames DEF GateStep
<1>. QED
  BY <1>1, <1>2, <1>3, <1>4, <1>5, <1>6, <1>7, <1>8, <1>9, <1>10, HubFrames DEF Next

\* The steps of the orchestrators, of those who answer and of the kill switch leave
\* handlers, drivers and what they own alone.
DriverFrame == UNCHANGED <<handler, driver, core, owner, lease>>
Others ==
  \/ \E t \in Task : \/ Subscribe(t) \/ OrchStep(t) \/ GiveUp(t) \/ LoseTail(t)
                     \/ PushMessage(t) \/ EchoMessage(t)
                     \/ \E a \in {"allow", "deny"} : ResolveHitl(t, a)
                     \/ \E o \in Operator : MarkStopped(o, t)
  \/ \E o \in Operator : StopStep(o)
  \/ \E g \in 1..MaxGates : GateStep(g)
  \/ Crash

LEMMA DriverFrames == Others => DriverFrame
<1> USE DEF driverVars, DriverFrame
<1>1. \A t \in Task : Subscribe(t) \/ GiveUp(t) \/ LoseTail(t) \/ PushMessage(t) \/ EchoMessage(t)
                      => DriverFrame
  BY DEF Subscribe, GiveUp, LoseTail, PushMessage, EchoMessage
<1>2. \A t \in Task : OrchStep(t) => DriverFrame
  <2>1. \A t \in Task : StartOrchestrator(t) \/ Connect(t) \/ Emit(t) \/ Decide(t) => DriverFrame
    BY DEF StartOrchestrator, Connect, Emit, Decide
  <2>2. \A t \in Task : RequestHitl(t) \/ ReturnCall(t) \/ EndOrchestrator(t) => DriverFrame
    BY DEF RequestHitl, ReturnCall, EndOrchestrator
  <2>. QED
    BY <2>1, <2>2 DEF OrchStep
<1>3. \A t \in Task, a \in {"allow", "deny"} : ResolveHitl(t, a) => DriverFrame
  BY DEF ResolveHitl
<1>4. \A t \in Task, o \in Operator : MarkStopped(o, t) => DriverFrame
  BY DEF MarkStopped
<1>5. \A o \in Operator : StopStep(o) => DriverFrame
  BY DEF StopStep, PublishStop, CloseStopped
<1>6. \A g : GateStep(g) => DriverFrame
  BY DEF GateStep, RunTool, Expire, DropCall
<1>7. Crash => DriverFrame
  BY DEF Crash
<1>. QED
  BY <1>1, <1>2, <1>3, <1>4, <1>5, <1>6, <1>7 DEF Others

LEMMA NextIs ==
  Next <=> \/ Others
           \/ \E t \in Task : NewTask(t) \/ HandlerStep(t) \/ Bind(t) \/ DriverStep(t)
BY DEF Next, Others

LEMMA DriverTypeStep == Typed /\ [Next]_vars => DriverTypes'
<1> SUFFICES ASSUME Typed, [Next]_vars PROVE DriverTypes'
  OBVIOUS
<1>0. DriverTypes
  BY DEF Typed
<1>1. CASE Others
  BY <1>0, <1>1, DriverFrames DEF DriverFrame, DriverTypes
<1>2. ASSUME NEW t \in Task, NewTask(t) \/ HandlerStep(t) \/ Bind(t) PROVE DriverTypes'
  BY <1>0, <1>2, StepsAre
  DEF NewTask, HandlerStep, PrepareFails, Spawn, RegisterAbort, Bind, DriverGoes, DriverTypes
<1>3. ASSUME NEW t \in Task,
             \/ Verify(t) \/ AcquireLease(t) \/ ExecuteTask(t) \/ CheckStopped(t)
             \/ JudgeOutcome(t) \/ ReportFailure(t) \/ Close(t) \/ Cancelled(t)
      PROVE  DriverTypes'
  <2>1. /\ handler' = handler /\ core' = core /\ owner' = owner /\ lease' \in {lease, t, None}
    BY <1>3 DEF Verify, AcquireLease, ExecuteTask, CheckStopped, JudgeOutcome, ReportFailure,
                Close, Cancelled, LeaveInner
  <2>2. \E s \in Steps : driver' = [driver EXCEPT ![t] = s]
    BY <1>3, StepsAre DEF Verify, AcquireLease, ExecuteTask, CheckStopped, JudgeOutcome,
                ReportFailure, Close, Cancelled, DriverGoes
  <2>. QED
    BY <1>0, <2>1, <2>2 DEF DriverTypes
<1>4. ASSUME NEW t \in Task, Receive(t) \/ PublishEvent(t) PROVE DriverTypes'
  <2>1. /\ handler' = handler /\ owner' \in {owner, None} /\ lease' \in {lease, None}
        /\ core' = core \/ core' = [core EXCEPT ![t] = "ended"]
    BY <1>4 DEF Receive, PublishEvent, StopCore, LeaveInner
  <2>2. \E s \in Steps : driver' = [driver EXCEPT ![t] = s]
    BY <1>4, StepsAre DEF Receive, PublishEvent, DriverGoes
  <2>. QED
    BY <1>0, <2>1, <2>2 DEF DriverTypes
<1>5. CASE UNCHANGED vars
  BY <1>0, <1>5 DEF vars, driverVars, DriverTypes
<1>6. ASSUME NEW t \in Task, DriverStep(t) PROVE DriverTypes'
  BY <1>3, <1>4, <1>6 DEF DriverStep
<1>. QED
  BY <1>1, <1>2, <1>5, <1>6, NextIs

-----------------------------------------------------------------------------
(* Orchestrators, streams and gates. *)

StreamTo(t) == \E s \in Seq(Sent) : stream' = [stream EXCEPT ![t] = s]

LEMMA YieldTypes ==
  ASSUME stream \in [Task -> Seq(Sent)], NEW t \in Task, NEW e \in Seq(Sent), Yield(t, e)
  PROVE  stream' \in [Task -> Seq(Sent)]
<1>1. stream[t] \o e \in Seq(Sent)
  BY ConcatProperties
<1>. QED
  BY <1>1 DEF Yield

LEMMA YieldedAre ==
  /\ <<"event">> \in Seq(Sent) /\ <<"hitl">> \in Seq(Sent) /\ <<"end">> \in Seq(Sent)
  /\ <<"error", "end">> \in Seq(Sent) /\ <<>> \in Seq(Sent)
BY DEF Sent

LEMMA OrchTypeStep == Typed /\ [Next]_vars => OrchTypes'
<1> SUFFICES ASSUME Typed, [Next]_vars PROVE OrchTypes'
  OBVIOUS
<1>0. HubTypes /\ DriverTypes /\ OrchTypes /\ Connected
  BY DEF Typed
<1>a. Len(gates) \in Nat
  BY <1>0 DEF OrchTypes
<1>1. ASSUME UNCHANGED <<orchVars, pending, stream, gates>> PROVE OrchTypes'
  BY <1>0, <1>1 DEF OrchTypes, orchVars
<1>2. ASSUME NEW t \in Task,
             \/ Subscribe(t) \/ HandlerStep(t) \/ Bind(t) \/ PushMessage(t) \/ EchoMessage(t)
      PROVE  OrchTypes'
  <2>1. UNCHANGED <<orchVars, pending, stream, gates>>
    BY <1>2 DEF Subscribe, HandlerStep, PrepareFails, Spawn, RegisterAbort, Bind,
                PushMessage, EchoMessage, hubVars
  <2>. QED
    BY <1>1, <2>1
<1>3. ASSUME NEW t \in Task, DriverStep(t) PROVE OrchTypes'
  <2>1. UNCHANGED <<orchVars, pending, gates>>
    <3>1. CASE \/ Verify(t) \/ AcquireLease(t) \/ ExecuteTask(t) \/ CheckStopped(t)
               \/ Receive(t)
      BY <3>1 DEF Verify, AcquireLease, ExecuteTask, CheckStopped, Receive, hubVars
    <3>2. CASE \/ PublishEvent(t) \/ JudgeOutcome(t) \/ ReportFailure(t) \/ Close(t)
               \/ Cancelled(t)
      BY <3>2 DEF PublishEvent, JudgeOutcome, ReportFailure, Close, Cancelled, hubVars
    <3>. QED
      BY <1>3, <3>1, <3>2 DEF DriverStep
  <2>2. stream' = stream \/ StreamTo(t)
    <3>1. CASE \/ Verify(t) \/ AcquireLease(t) \/ JudgeOutcome(t) \/ ReportFailure(t)
               \/ Close(t)
      BY <3>1 DEF Verify, AcquireLease, JudgeOutcome, ReportFailure, Close
    <3>2. CASE ExecuteTask(t) \/ CheckStopped(t) \/ Receive(t) \/ Cancelled(t)
      BY <3>2, YieldedAre DEF ExecuteTask, CheckStopped, Receive, Cancelled, LeaveInner, StreamTo
    <3>3. CASE PublishEvent(t)
      <4>1. stream[t] \in Seq(Sent) /\ stream[t] # <<>>
        BY <1>0, <3>3 DEF PublishEvent, DriverGoes, OrchTypes, Connected
      <4>2. Tail(stream[t]) \in Seq(Sent)
        BY <4>1, HeadTailProperties
      <4>. QED
        BY <3>3, <4>2, YieldedAre DEF PublishEvent, LeaveInner, StreamTo
    <3>. QED
      BY <1>3, <3>1, <3>2, <3>3 DEF DriverStep
  <2>. QED
    BY <1>0, <2>1, <2>2 DEF OrchTypes, orchVars, StreamTo
<1>4. ASSUME NEW t \in Task, StartOrchestrator(t) \/ Connect(t) \/ GiveUp(t) PROVE OrchTypes'
  <2>1. CASE StartOrchestrator(t)
    <3>1. orch' = [orch EXCEPT ![t] = "planning"] /\ "planning" \in Running
      BY <2>1, StepsAre DEF StartOrchestrator
    <3>2. UNCHANGED <<pending, emitted, conn, call, stream, gates>>
      BY <2>1 DEF StartOrchestrator, hubVars
    <3>. QED
      BY <1>0, <3>1, <3>2 DEF OrchTypes
  <2>2. CASE Connect(t)
    <3>1. conn' = [conn EXCEPT ![t] = owner] /\ owner \in Task \cup {None}
      BY <1>0, <2>2 DEF Connect, DriverTypes
    <3>2. UNCHANGED <<pending, orch, emitted, call, stream, gates>>
      BY <2>2 DEF Connect, hubVars
    <3>. QED
      BY <1>0, <3>1, <3>2 DEF OrchTypes
  <2>3. CASE GiveUp(t)
    <3>1. call' = [call EXCEPT ![t] = 0] /\ 0 \in 0..Len(gates)
      BY <1>a, <2>3 DEF GiveUp
    <3>2. UNCHANGED <<pending, orch, emitted, conn, stream, gates>>
      BY <2>3 DEF GiveUp, hubVars
    <3>. QED
      BY <1>0, <3>1, <3>2 DEF OrchTypes
  <2>. QED
    BY <1>4, <2>1, <2>2, <2>3
<1>5. ASSUME NEW t \in Task, Emit(t) \/ Decide(t) \/ ReturnCall(t) \/ EndOrchestrator(t)
      PROVE  OrchTypes'
  <2>1. stream' \in [Task -> Seq(Sent)]
    BY <1>0, <1>5, YieldTypes, YieldedAre DEF Emit, Decide, ReturnCall, EndOrchestrator, OrchTypes
  <2>2. UNCHANGED <<pending, conn, gates>>
    BY <1>5 DEF Emit, Decide, ReturnCall, EndOrchestrator, hubVars
  <2>3. /\ \E s \in {"asking", "executing", "ended"} : orch' \in {orch, [orch EXCEPT ![t] = s]}
        /\ call' \in {call, [call EXCEPT ![t] = 0]}
    BY <1>5 DEF Emit, Decide, ReturnCall, EndOrchestrator
  <2>4. emitted' \in [Task -> 0..MaxEvents]
    BY <1>0, <1>5, HubAssumption DEF Emit, Decide, ReturnCall, EndOrchestrator, OrchTypes
  <2>5. orch' \in [Task -> {"none", "ended", "dead"} \cup Running]
    <3>1. \A s \in {"asking", "executing", "ended"} : s \in {"none", "ended", "dead"} \cup Running
      BY StepsAre
    <3>. QED
      BY <1>0, <2>3, <3>1 DEF OrchTypes
  <2>6. call' \in [Task -> 0..Len(gates)]
    <3>1. 0 \in 0..Len(gates)
      BY <1>a
    <3>. QED
      BY <1>0, <2>3, <3>1 DEF OrchTypes
  <2>. QED
    BY <1>0, <2>1, <2>2, <2>4, <2>5, <2>6 DEF OrchTypes
<1>6. ASSUME NEW t \in Task, RequestHitl(t) PROVE OrchTypes'
  <2> DEFINE h == conn[t]
  <2> DEFINE new == [by |-> t, at |-> h, kind |-> IF orch[t] = "asking" THEN "plan" ELSE "tool",
                     status |-> "waiting"]
  <2> DEFINE old == Answered(pending[h], "deny")
  <2>1. h \in Task /\ new \in Gate
    BY <1>0, <1>6 DEF RequestHitl, Idle, Connected, OrchTypes, Gate
  <2>2. old \in Seq(Gate) /\ Len(old) = Len(gates)
    BY <1>0, <2>1, AnsweredGates DEF OrchTypes
  <2>3. gates' = Append(old, new)
    BY <1>6 DEF RequestHitl
  <2> HIDE DEF old, new
  <2>4. gates' \in Seq(Gate) /\ Len(gates') = Len(gates) + 1
    BY <2>1, <2>2, <2>3, AppendProperties
  <2>5. /\ Len(gates) + 1 <= MaxGates
        /\ pending' = [pending EXCEPT ![h] = Len(gates) + 1]
        /\ call' = [call EXCEPT ![t] = Len(gates) + 1]
        /\ UNCHANGED <<orch, emitted, conn, stream>>
    BY <1>6 DEF RequestHitl
  <2>6. pending \in [Task -> 0..Len(gates)] /\ call \in [Task -> 0..Len(gates)]
    BY <1>0 DEF OrchTypes
  <2>7. pending' \in [Task -> 0..Len(gates')] /\ call' \in [Task -> 0..Len(gates')]
    BY <1>a, <2>1, <2>4, <2>5, <2>6
  <2>. QED
    BY <1>0, <2>4, <2>5, <2>7 DEF OrchTypes
<1>7. ASSUME NEW t \in Task, LoseTail(t) PROVE OrchTypes'
  <2>1. stream[t] \in Seq(Sent)
    BY <1>0 DEF OrchTypes
  <2>2. SubSeq(stream[t], 1, Len(stream[t]) - 1) \in Seq(Sent)
    BY <2>1
  <2>. QED
    BY <1>0, <1>7, <2>2 DEF LoseTail, OrchTypes, orchVars, hubVars
<1>8. ASSUME NEW g \in 0..Len(gates), NEW a \in {"allow", "deny", "expired", "abandoned", "ran"},
             gates' = Answered(g, a),
             pending' = pending \/ \E t \in Task : pending' = [pending EXCEPT ![t] = 0],
             UNCHANGED <<orchVars, stream>>
      PROVE  OrchTypes'
  <2>1. gates' \in Seq(Gate) /\ Len(gates') = Len(gates)
    BY <1>0, <1>8, AnsweredGates DEF OrchTypes
  <2>2. pending' \in [Task -> 0..Len(gates)]
    <3>1. 0 \in 0..Len(gates) /\ pending \in [Task -> 0..Len(gates)]
      BY <1>0, <1>a DEF OrchTypes
    <3>2. CASE pending' = pending
      BY <3>1, <3>2
    <3>3. ASSUME NEW t \in Task, pending' = [pending EXCEPT ![t] = 0]
          PROVE  pending' \in [Task -> 0..Len(gates)]
      BY <3>1, <3>3
    <3>. QED
      BY <1>8, <3>2, <3>3
  <2>. QED
    BY <1>0, <1>8, <2>1, <2>2 DEF OrchTypes, orchVars
<1>9. ASSUME NEW t \in Task, NEW a \in {"allow", "deny"}, ResolveHitl(t, a) PROVE OrchTypes'
  <2>1. pending[t] \in 0..Len(gates)
    BY <1>0 DEF OrchTypes
  <2>. QED
    BY <1>8, <1>9, <2>1 DEF ResolveHitl
<1>10. ASSUME NEW t \in Task, NEW o \in Operator, MarkStopped(o, t) PROVE OrchTypes'
  <2>1. pending[t] \in 0..Len(gates)
    BY <1>0 DEF OrchTypes
  <2>. QED
    BY <1>8, <1>10, <2>1 DEF MarkStopped
<1>11. ASSUME NEW o \in Operator, StopStep(o) PROVE OrchTypes'
  <2>1. UNCHANGED <<orchVars, pending, stream, gates>>
    BY <1>11 DEF StopStep, PublishStop, CloseStopped
  <2>. QED
    BY <1>1, <2>1
<1>12. ASSUME NEW g \in 1..MaxGates, GateStep(g) PROVE OrchTypes'
  <2>1. g \in 1..Len(gates) /\ gates[g] \in Gate
    BY <1>0, <1>12 DEF GateStep, RunTool, Expire, DropCall, OrchTypes
  <2>2. CASE Expire(g)
    BY <1>8, <2>1, <2>2 DEF Expire, hubVars
  <2>3. CASE RunTool(g) \/ DropCall(g)
    <3>1. PICK a \in {"ran", "abandoned"} : gates' = [gates EXCEPT ![g].status = a]
      BY <2>3 DEF RunTool, DropCall
    <3>2. [gates[g] EXCEPT !.status = a] \in Gate
      BY <2>1 DEF Gate
    <3>3. gates' \in Seq(Gate) /\ Len(gates') = Len(gates)
      BY <1>0, <2>1, <3>1, <3>2, ExceptSeq DEF OrchTypes
    <3>. QED
      BY <1>0, <2>3, <3>3 DEF RunTool, DropCall, OrchTypes, orchVars, hubVars
  <2>. QED
    BY <1>12, <2>2, <2>3 DEF GateStep
<1>13. CASE Crash
  BY <1>0, <1>a, <1>13, StepsAre DEF Crash, OrchTypes, hubVars
<1>14. CASE UNCHANGED vars
  BY <1>1, <1>14 DEF vars, hubVars
<1>15. ASSUME NEW t \in Task, OrchStep(t) PROVE OrchTypes'
  BY <1>4, <1>5, <1>6, <1>15 DEF OrchStep
<1>16. ASSUME NEW t \in Task, NewTask(t) PROVE OrchTypes'
  <2>1. pending' = [pending EXCEPT ![t] = 0] /\ 0 \in 0..Len(gates)
    BY <1>a, <1>16 DEF NewTask
  <2>2. UNCHANGED <<orch, emitted, conn, call, stream, gates>>
    BY <1>16 DEF NewTask, orchVars
  <2>. QED
    BY <1>0, <2>1, <2>2 DEF OrchTypes
<1>. QED
  BY <1>2, <1>3, <1>4, <1>7, <1>9, <1>10, <1>11, <1>12, <1>13, <1>14, <1>15, <1>16 DEF Next

\* The steps that leave orchestrators and their calls alone.
Elsewhere ==
  \/ \E t \in Task : \/ Subscribe(t) \/ NewTask(t) \/ HandlerStep(t) \/ Bind(t) \/ DriverStep(t)
                     \/ LoseTail(t) \/ PushMessage(t) \/ EchoMessage(t)
                     \/ \E a \in {"allow", "deny"} : ResolveHitl(t, a)
                     \/ \E o \in Operator : MarkStopped(o, t)
  \/ \E o \in Operator : StopStep(o)
  \/ \E g \in 1..MaxGates : GateStep(g)

LEMMA OrchFrames == Elsewhere => UNCHANGED orchVars
<1>1. \A t \in Task : Subscribe(t) \/ NewTask(t) \/ HandlerStep(t) \/ Bind(t) => UNCHANGED orchVars
  BY DEF Subscribe, NewTask, HandlerStep, PrepareFails, Spawn, RegisterAbort, Bind
<1>2. \A t \in Task : DriverStep(t) => UNCHANGED orchVars
  <2>1. \A t \in Task : Verify(t) \/ AcquireLease(t) \/ ExecuteTask(t) \/ CheckStopped(t) \/ Receive(t)
                        => UNCHANGED orchVars
    BY DEF Verify, AcquireLease, ExecuteTask, CheckStopped, Receive
  <2>2. \A t \in Task : PublishEvent(t) \/ JudgeOutcome(t) \/ ReportFailure(t) \/ Close(t) \/ Cancelled(t)
                        => UNCHANGED orchVars
    BY DEF PublishEvent, JudgeOutcome, ReportFailure, Close, Cancelled
  <2>. QED
    BY <2>1, <2>2 DEF DriverStep
<1>3. \A t \in Task : LoseTail(t) \/ PushMessage(t) \/ EchoMessage(t) => UNCHANGED orchVars
  BY DEF LoseTail, PushMessage, EchoMessage
<1>5. \A t \in Task, a \in {"allow", "deny"} : ResolveHitl(t, a) => UNCHANGED orchVars
  BY DEF ResolveHitl
<1>6. \A o \in Operator : StopStep(o) => UNCHANGED orchVars
  BY DEF StopStep, PublishStop, CloseStopped
<1>7. \A g : GateStep(g) => UNCHANGED orchVars
  BY DEF GateStep, RunTool, Expire, DropCall
<1>8. \A t \in Task, o \in Operator : MarkStopped(o, t) => UNCHANGED orchVars
  BY DEF MarkStopped
<1>. QED
  BY <1>1, <1>2, <1>3, <1>5, <1>6, <1>7, <1>8 DEF Elsewhere

LEMMA NextByOrchestrator ==
  Next <=> \/ Elsewhere
           \/ \E t \in Task : OrchStep(t) \/ GiveUp(t)
           \/ Crash
BY DEF Next, Elsewhere

ConnectedOrch == \A t \in Task : orch[t] \in {"asking", "executing"} \/ call[t] # 0 => conn[t] # None

LEMMA ConnectedOrchStep == Typed /\ [Next]_vars => ConnectedOrch'
<1> SUFFICES ASSUME Typed, [Next]_vars PROVE ConnectedOrch'
  OBVIOUS
<1>0. OrchTypes /\ ConnectedOrch
  BY DEF Typed, Connected, ConnectedOrch
<1>a. /\ orch \in [Task -> {"none", "ended", "dead"} \cup Running]
      /\ conn \in [Task -> Task \cup {None}] /\ call \in [Task -> 0..Len(gates)]
  BY <1>0 DEF OrchTypes
<1>1. CASE UNCHANGED orchVars
  BY <1>0, <1>1 DEF ConnectedOrch, orchVars
<1>2. ASSUME NEW t \in Task, OrchStep(t) PROVE ConnectedOrch'
  <2>1. CASE StartOrchestrator(t) \/ Emit(t)
    BY <1>0, <1>a, <2>1 DEF ConnectedOrch, StartOrchestrator, Emit
  <2>2. CASE Connect(t)
    BY <1>0, <1>a, <2>2 DEF ConnectedOrch, Connect
  <2>3. CASE Decide(t)
    BY <1>0, <1>a, <2>3 DEF ConnectedOrch, Decide
  <2>4. CASE RequestHitl(t)
    <3>1. /\ orch' = orch /\ conn' = conn /\ call' = [call EXCEPT ![t] = Len(gates) + 1]
          /\ orch[t] \in {"asking", "executing"}
      BY <2>4 DEF RequestHitl, Idle
    <3>. QED
      BY <1>0, <1>a, <3>1 DEF ConnectedOrch
  <2>5. CASE ReturnCall(t)
    <3>1. /\ call[t] # 0 /\ conn' = conn /\ call' = [call EXCEPT ![t] = 0]
          /\ \E s \in {"ended", "executing"} : orch' = [orch EXCEPT ![t] = s]
      BY <2>5 DEF ReturnCall
    <3>. QED
      BY <1>0, <1>a, <3>1 DEF ConnectedOrch
  <2>6. CASE EndOrchestrator(t)
    BY <1>0, <1>a, <2>6 DEF ConnectedOrch, EndOrchestrator
  <2>. QED
    BY <1>2, <2>1, <2>2, <2>3, <2>4, <2>5, <2>6 DEF OrchStep
<1>3. ASSUME NEW t \in Task, GiveUp(t) PROVE ConnectedOrch'
  BY <1>0, <1>a, <1>3 DEF ConnectedOrch, GiveUp
<1>4. CASE Crash
  BY <1>0, <1>a, <1>4 DEF ConnectedOrch, Crash
<1>5. CASE UNCHANGED vars
  BY <1>1, <1>5 DEF vars
<1>. QED
  BY <1>1, <1>2, <1>3, <1>4, <1>5, OrchFrames, NextByOrchestrator

Targeted == \A o \in Operator : stop[o] # "idle" => target[o] # None

LEMMA TargetedStep == Typed /\ [Next]_vars => Targeted'
<1> SUFFICES ASSUME Typed, [Next]_vars PROVE Targeted'
  OBVIOUS
<1>0. HubTypes /\ Targeted
  BY DEF Typed, Connected, Targeted
<1>a. stop \in [Operator -> {"idle", "marked", "published", "done"}] /\ target \in [Operator -> Task \cup {None}]
  BY <1>0 DEF HubTypes
<1>1. CASE UNCHANGED stopVars
  BY <1>0, <1>1 DEF Targeted, stopVars
<1>2. HubFrame => UNCHANGED stopVars
  BY DEF HubFrame, stopVars
<1>3. ASSUME NEW t \in Task,
             \/ Subscribe(t) \/ NewTask(t) \/ RegisterAbort(t) \/ Close(t) \/ PublishEvent(t)
             \/ ReportFailure(t) \/ EchoMessage(t) \/ PushMessage(t)
      PROVE  UNCHANGED stopVars
  BY <1>3 DEF Subscribe, NewTask, RegisterAbort, Close, PublishEvent, ReportFailure, EchoMessage,
              PushMessage
<1>4. ASSUME NEW t \in Task, NewTask(t) \/ HandlerStep(t) \/ Bind(t) \/ DriverStep(t)
      PROVE  UNCHANGED stopVars
  <2>1. CASE PrepareFails(t) \/ Spawn(t) \/ Bind(t) \/ Verify(t) \/ AcquireLease(t)
    BY <1>2, <2>1, HubFrames
  <2>2. CASE ExecuteTask(t) \/ CheckStopped(t) \/ Receive(t) \/ JudgeOutcome(t) \/ Cancelled(t)
    BY <1>2, <2>2, HubFrames
  <2>. QED
    BY <1>3, <1>4, <2>1, <2>2 DEF HandlerStep, DriverStep
<1>5. ASSUME NEW t \in Task,
             \/ Subscribe(t) \/ OrchStep(t) \/ GiveUp(t) \/ LoseTail(t)
             \/ PushMessage(t) \/ EchoMessage(t)
      PROVE  UNCHANGED stopVars
  <2>1. CASE StartOrchestrator(t) \/ Connect(t) \/ Emit(t) \/ Decide(t) \/ RequestHitl(t)
    BY <1>2, <2>1, HubFrames
  <2>2. CASE ReturnCall(t) \/ EndOrchestrator(t) \/ GiveUp(t) \/ LoseTail(t)
    BY <1>2, <2>2, HubFrames
  <2>. QED
    BY <1>3, <1>5, <2>1, <2>2 DEF OrchStep
<1>6. ASSUME NEW t \in Task, NEW o \in Operator, MarkStopped(o, t) PROVE Targeted'
  BY <1>0, <1>a, <1>6, HubAssumption DEF MarkStopped, Targeted
<1>7. ASSUME NEW o \in Operator, StopStep(o) PROVE Targeted'
  BY <1>0, <1>a, <1>7 DEF StopStep, PublishStop, CloseStopped, Targeted
<1>8. ASSUME NEW g, GateStep(g) PROVE UNCHANGED stopVars
  BY <1>2, <1>8, HubFrames DEF GateStep
<1>9. CASE UNCHANGED vars
  BY <1>1, <1>9 DEF vars
<1>10. CASE Others
  BY <1>1, <1>2, <1>5, <1>6, <1>7, <1>8, <1>10, HubFrames DEF Others
<1>. QED
  BY <1>1, <1>4, <1>9, <1>10, NextIs

\* The event that a driver publishes stays at the head of its stream.
HeadIsThere == \A t \in Task : driver[t] = "publishing" => stream[t] # <<>> /\ Head(stream[t]) # "end"

LEMMA HeadIsThereStep == Typed /\ [Next]_vars => HeadIsThere'
<1> SUFFICES ASSUME Typed, [Next]_vars PROVE HeadIsThere'
  OBVIOUS
<1>0. DriverTypes /\ OrchTypes /\ HeadIsThere
  BY DEF Typed, Connected, HeadIsThere
<1>a. driver \in [Task -> Steps] /\ stream \in [Task -> Seq(Sent)]
  BY <1>0 DEF DriverTypes, OrchTypes
<1>1. CASE UNCHANGED <<driver, stream>>
  BY <1>0, <1>1 DEF HeadIsThere
<1>2. ASSUME NEW t \in Task, NEW e \in Seq(Sent), Yield(t, e), driver' = driver PROVE HeadIsThere'
  <2>1. stream[t] # <<>> => stream[t] \o e # <<>> /\ Head(stream[t] \o e) = Head(stream[t])
    BY <1>a
  <2>2. \A u \in Task : stream'[u] = stream[u] \/ (u = t /\ stream'[u] = stream[u] \o e)
    BY <1>a, <1>2 DEF Yield
  <2>. QED
    BY <1>0, <1>2, <2>1, <2>2 DEF HeadIsThere
<1>3. ASSUME NEW t \in Task, Emit(t) \/ Decide(t) \/ ReturnCall(t) \/ EndOrchestrator(t)
      PROVE  HeadIsThere'
  <2>1. driver' = driver
    BY <1>3 DEF Emit, Decide, ReturnCall, EndOrchestrator, driverVars
  <2>2. stream' = stream \/ \E e \in Seq(Sent) : Yield(t, e)
    BY <1>3, YieldedAre DEF Emit, Decide, ReturnCall, EndOrchestrator
  <2>. QED
    BY <1>1, <1>2, <2>1, <2>2
<1>4. ASSUME NEW t \in Task, LoseTail(t) PROVE HeadIsThere'
  <2>1. driver' = driver /\ driver[t] # "publishing"
    BY <1>4 DEF LoseTail, driverVars
  <2>2. \A u \in Task \ {t} : stream'[u] = stream[u]
    BY <1>a, <1>4 DEF LoseTail
  <2>. QED
    BY <1>0, <2>1, <2>2 DEF HeadIsThere
<1>5. ASSUME NEW t \in Task, \/ StartOrchestrator(t) \/ Connect(t) \/ RequestHitl(t) \/ GiveUp(t)
                             \/ Subscribe(t) \/ PushMessage(t) \/ EchoMessage(t)
      PROVE  HeadIsThere'
  BY <1>1, <1>5 DEF StartOrchestrator, Connect, RequestHitl, GiveUp, Subscribe, PushMessage,
                    EchoMessage, driverVars
<1>6. ASSUME NEW t \in Task, NEW o \in Operator, MarkStopped(o, t) PROVE HeadIsThere'
  BY <1>1, <1>6 DEF MarkStopped
<1>7. ASSUME NEW t \in Task, NEW a \in {"allow", "deny"}, ResolveHitl(t, a) PROVE HeadIsThere'
  BY <1>1, <1>7 DEF ResolveHitl, driverVars
<1>8. ASSUME NEW o \in Operator, StopStep(o) PROVE HeadIsThere'
  BY <1>1, <1>8 DEF StopStep, PublishStop, CloseStopped, driverVars
<1>9. ASSUME NEW g, GateStep(g) PROVE HeadIsThere'
  BY <1>1, <1>9 DEF GateStep, RunTool, Expire, DropCall, driverVars
<1>10. CASE Crash
  BY <1>1, <1>10 DEF Crash, driverVars
<1>11. CASE Others
  <2>1. ASSUME NEW t \in Task, OrchStep(t) PROVE HeadIsThere'
    BY <1>3, <1>5, <2>1 DEF OrchStep
  <2>. QED
    BY <1>4, <1>5, <1>6, <1>7, <1>8, <1>9, <1>10, <1>11, <2>1 DEF Others
<1>12. ASSUME NEW t \in Task, NewTask(t) \/ HandlerStep(t) \/ Bind(t) PROVE HeadIsThere'
  <2>1. stream' = stream /\ (driver' = driver \/ driver' = [driver EXCEPT ![t] = "binding"])
    BY <1>12 DEF NewTask, HandlerStep, Spawn, PrepareFails, RegisterAbort, Bind, DriverGoes
  <2>. QED
    BY <1>0, <1>a, <2>1 DEF HeadIsThere
<1>13. ASSUME NEW t \in Task, NEW s \in Steps \ {"publishing"},
              driver' = [driver EXCEPT ![t] = s], stream' = stream \/ StreamTo(t)
       PROVE  HeadIsThere'
  <2>1. \A u \in Task \ {t} : driver'[u] = driver[u] /\ stream'[u] = stream[u]
    BY <1>a, <1>13 DEF StreamTo
  <2>2. driver'[t] # "publishing"
    BY <1>a, <1>13
  <2>. QED
    BY <1>0, <2>1, <2>2 DEF HeadIsThere
<1>14. ASSUME NEW t \in Task, DriverStep(t) PROVE HeadIsThere'
  <2>1. CASE Verify(t) \/ AcquireLease(t) \/ JudgeOutcome(t) \/ ReportFailure(t) \/ Close(t)
    <3>1. stream' = stream
      BY <2>1 DEF Verify, AcquireLease, JudgeOutcome, ReportFailure, Close
    <3>2. \E s \in Steps \ {"publishing"} : driver' = [driver EXCEPT ![t] = s]
      BY <2>1, StepsAre DEF Verify, AcquireLease, JudgeOutcome, ReportFailure, Close, DriverGoes
    <3>. QED
      BY <1>13, <3>1, <3>2
  <2>2. CASE ExecuteTask(t) \/ CheckStopped(t) \/ Cancelled(t)
    <3>1. stream' = stream \/ StreamTo(t)
      BY <2>2, YieldedAre DEF ExecuteTask, CheckStopped, Cancelled, LeaveInner, StreamTo
    <3>2. \E s \in Steps \ {"publishing"} : driver' = [driver EXCEPT ![t] = s]
      BY <2>2, StepsAre DEF ExecuteTask, CheckStopped, Cancelled, DriverGoes
    <3>. QED
      BY <1>13, <3>1, <3>2
  <2>3. CASE Receive(t)
    <3>1. CASE /\ stream[t] # <<>> /\ Head(stream[t]) # "end" /\ stream' = stream
               /\ driver' = [driver EXCEPT ![t] = "publishing"]
      BY <1>0, <1>a, <3>1 DEF HeadIsThere
    <3>2. CASE \E s \in {"succeeded", "failed"} : driver' = [driver EXCEPT ![t] = s] /\ StreamTo(t)
      BY <1>13, <3>2, StepsAre
    <3>. QED
      BY <2>3, <3>1, <3>2, YieldedAre DEF Receive, DriverGoes, LeaveInner, StreamTo
  <2>4. CASE PublishEvent(t)
    <3>1. stream[t] \in Seq(Sent) /\ stream[t] # <<>>
      BY <1>0, <1>a, <2>4 DEF PublishEvent, DriverGoes, HeadIsThere
    <3>2. Tail(stream[t]) \in Seq(Sent)
      BY <3>1, HeadTailProperties
    <3>3. StreamTo(t)
      BY <2>4, <3>2, YieldedAre DEF PublishEvent, LeaveInner, StreamTo
    <3>4. \E s \in Steps \ {"publishing"} : driver' = [driver EXCEPT ![t] = s]
      BY <2>4, StepsAre DEF PublishEvent, DriverGoes
    <3>. QED
      BY <1>13, <3>3, <3>4
  <2>. QED
    BY <1>14, <2>1, <2>2, <2>3, <2>4 DEF DriverStep
<1>15. CASE UNCHANGED vars
  BY <1>1, <1>15 DEF vars, driverVars
<1>. QED
  BY <1>11, <1>12, <1>14, <1>15, NextIs

\* Every variable keeps its type in every reachable state of Spec, and with it what
\* an operation reads of an orchestrator, of a kill request or of a stream is there.
LEMMA TypedAlways == Spec => []Typed
<1>1. Typed /\ [Next]_vars => Connected'
  BY ConnectedOrchStep, TargetedStep, HeadIsThereStep
  DEF Connected, ConnectedOrch, Targeted, HeadIsThere
<1>2. Typed /\ [Next]_vars => Typed'
  BY <1>1, HubTypeStep, DriverTypeStep, OrchTypeStep DEF Typed
<1>. QED
  BY <1>2, TypeInitially, PTL DEF Spec

\* Type correctness of the squad hub, for any tasks, kill requests and bounds.
THEOREM TypeCorrect == Spec => []TypeOK
<1>1. Typed => TypeOK
  BY TypeParts DEF Typed
<1>. QED
  BY <1>1, TypedAlways, PTL

-----------------------------------------------------------------------------
(* The lease of the process. *)

LEMMA LeaseStep == Typed /\ LeaseFollowsDriver /\ [Next]_vars => LeaseFollowsDriver'
<1> SUFFICES ASSUME Typed, LeaseFollowsDriver, [Next]_vars PROVE LeaseFollowsDriver'
  OBVIOUS
<1>a. driver \in [Task -> Steps] /\ lease \in Task \cup {None} /\ None \notin Task
  BY HubAssumption DEF Typed, DriverTypes
<1>1. CASE UNCHANGED <<driver, lease>>
  BY <1>1 DEF LeaseFollowsDriver
<1>2. CASE Others
  BY <1>1, <1>2, DriverFrames DEF DriverFrame
\* A driver that was not reading goes to a step where it does not read either.
<1>3. ASSUME NEW t \in Task, driver[t] \notin Reading, NEW s \in Steps \ Reading,
             driver' = [driver EXCEPT ![t] = s], lease' = lease \/ LeaveInner(t)
      PROVE  LeaseFollowsDriver'
  <2>1. lease # t /\ lease' = lease
    BY <1>3 DEF LeaseFollowsDriver, LeaveInner
  <2>. QED
    BY <1>a, <1>3, <2>1 DEF LeaseFollowsDriver
\* A driver leaves, and its lease goes back.
<1>4. ASSUME NEW t \in Task, NEW s \in Steps \ Reading, driver' = [driver EXCEPT ![t] = s],
             LeaveInner(t)
      PROVE  LeaseFollowsDriver'
  BY <1>a, <1>4 DEF LeaseFollowsDriver, LeaveInner
<1>5. ASSUME NEW t \in Task, driver[t] \in Reading, NEW s \in Reading,
             driver' = [driver EXCEPT ![t] = s], lease' = lease
      PROVE  LeaseFollowsDriver'
  BY <1>a, <1>5 DEF LeaseFollowsDriver
<1>6. ASSUME NEW t \in Task, NewTask(t) \/ HandlerStep(t) \/ Bind(t) PROVE LeaseFollowsDriver'
  <2>1. CASE NewTask(t) \/ PrepareFails(t) \/ RegisterAbort(t) \/ Bind(t)
    BY <1>1, <2>1 DEF NewTask, PrepareFails, RegisterAbort, Bind
  <2>2. CASE Spawn(t)
    <3>1. /\ driver[t] = "none" /\ driver' = [driver EXCEPT ![t] = "binding"] /\ lease' = lease
      BY <2>2 DEF Spawn, DriverGoes
    <3>. QED
      BY <1>3, <3>1, StepsAre
  <2>. QED
    BY <1>6, <2>1, <2>2 DEF HandlerStep
<1>7. ASSUME NEW t \in Task, DriverStep(t) PROVE LeaseFollowsDriver'
  <2>1. CASE Verify(t) \/ JudgeOutcome(t) \/ ReportFailure(t) \/ Close(t)
    <3>1. /\ driver[t] \in {"binding", "succeeded", "failed", "reporting", "closing"}
          /\ \E s \in {"acquiring", "failed", "closing", "reporting", "ended"} :
               driver' = [driver EXCEPT ![t] = s]
          /\ lease' = lease
      BY <2>1 DEF Verify, JudgeOutcome, ReportFailure, Close, DriverGoes
    <3>. QED
      BY <1>3, <3>1, StepsAre
  <2>2. CASE AcquireLease(t)
    <3>1. CASE lease = None /\ driver' = [driver EXCEPT ![t] = "calling"] /\ lease' = t
      BY <1>a, <3>1, StepsAre DEF LeaseFollowsDriver
    <3>2. CASE /\ driver[t] = "acquiring" /\ lease' = lease
               /\ \E s \in {"failed", "panicked"} : driver' = [driver EXCEPT ![t] = s]
      BY <1>3, <3>2, StepsAre
    <3>. QED
      BY <2>2, <3>1, <3>2 DEF AcquireLease, DriverGoes
  <2>3. CASE ExecuteTask(t) \/ CheckStopped(t) \/ Receive(t) \/ PublishEvent(t)
    <3>1. CASE /\ driver[t] \in {"calling", "checking", "receiving", "publishing"} /\ lease' = lease
               /\ \E s \in {"checking", "receiving", "publishing"} : driver' = [driver EXCEPT ![t] = s]
      BY <1>5, <3>1, StepsAre
    <3>2. CASE /\ \E s \in {"failed", "succeeded"} : driver' = [driver EXCEPT ![t] = s]
               /\ LeaveInner(t)
      BY <1>4, <3>2, StepsAre
    <3>3. ExecuteTask(t) => LeaseFollowsDriver'
      BY <3>1, <3>2 DEF ExecuteTask, DriverGoes
    <3>4. CheckStopped(t) => LeaseFollowsDriver'
      BY <3>1, <3>2 DEF CheckStopped, DriverGoes
    <3>5. Receive(t) => LeaseFollowsDriver'
      BY <3>1, <3>2 DEF Receive, DriverGoes
    <3>6. PublishEvent(t) => LeaseFollowsDriver'
      BY <3>1, <3>2 DEF PublishEvent, DriverGoes
    <3>. QED
      BY <2>3, <3>3, <3>4, <3>5, <3>6
  <2>4. CASE Cancelled(t)
    BY <1>4, <2>4, StepsAre DEF Cancelled
  <2>. QED
    BY <1>7, <2>1, <2>2, <2>3, <2>4 DEF DriverStep
<1>8. CASE UNCHANGED vars
  BY <1>1, <1>8 DEF vars, driverVars
<1>. QED
  BY <1>2, <1>6, <1>7, <1>8, NextIs

\* A driver that calls or reads the process holds the lease, nobody else does, and on
\* every way out of run_squad_task_inner the lease is returned.
THEOREM LeasesAreReturned == Spec => []LeaseFollowsDriver
<1>1. Init => LeaseFollowsDriver
  BY HubAssumption, StepsAre DEF Init, LeaseFollowsDriver
<1>. QED
  BY <1>1, LeaseStep, TypedAlways, PTL DEF Spec

\* What a step of a driver does to the lease: nothing, or it takes one that nobody has, or
\* it gives its own back.
LEMMA LeaseMoves ==
  ASSUME NEW t \in Task, NewTask(t) \/ HandlerStep(t) \/ Bind(t) \/ DriverStep(t)
  PROVE  lease' = lease \/ (lease = None /\ lease' = t) \/ (lease = t /\ lease' = None)
<1>1. LeaveInner(t) => lease' = lease \/ (lease = t /\ lease' = None)
  BY DEF LeaveInner
<1>2. CASE NewTask(t) \/ HandlerStep(t) \/ Bind(t)
  BY <1>2 DEF NewTask, HandlerStep, PrepareFails, Spawn, RegisterAbort, Bind
<1>3. CASE Verify(t) \/ JudgeOutcome(t) \/ ReportFailure(t) \/ Close(t)
  BY <1>3 DEF Verify, JudgeOutcome, ReportFailure, Close
<1>4. CASE AcquireLease(t)
  BY <1>4 DEF AcquireLease
<1>5. CASE ExecuteTask(t) \/ CheckStopped(t) \/ Receive(t) \/ PublishEvent(t) \/ Cancelled(t)
  BY <1>1, <1>5 DEF ExecuteTask, CheckStopped, Receive, PublishEvent, Cancelled
<1>. QED
  BY <1>2, <1>3, <1>4, <1>5 DEF DriverStep

LEMMA LeasePromised == Typed /\ [Next]_vars => [Lease!Next]_(Lease!vars)
<1>. SUFFICES ASSUME Typed, [Next]_vars PROVE [Lease!Next]_(Lease!vars)
  OBVIOUS
<1>1. lease \in Task \cup {None} /\ None \notin Task
  BY HubAssumption DEF Typed, DriverTypes
<1>2. \A d \in Task : Leases[d] = IF lease = d THEN {0} ELSE {}
  BY DEF Leases
<1>3. CASE lease' = lease
  BY <1>3 DEF Leases, Lease!vars
<1>4. ASSUME NEW t \in Task, lease = None, lease' = t PROVE Lease!Take(t, 0)
  <2>1. \A d \in Task : Leases[d] = {}
    BY <1>1, <1>2, <1>4
  <2>2. Leases' = [Leases EXCEPT ![t] = {0}]
    <3>1. \A d \in Task : (IF lease' = d THEN {0} ELSE {}) = IF d = t THEN {0} ELSE Leases[d]
      BY <1>4, <2>1
    <3>. QED
      BY <3>1 DEF Leases
  <2>. QED
    BY <2>1, <2>2 DEF Lease!Take
<1>5. ASSUME NEW t \in Task, lease = t, lease' = None PROVE Lease!Give(t)
  <2>1. Leases[t] # {}
    BY <1>2, <1>5
  <2>2. Leases' = [Leases EXCEPT ![t] = {}]
    <3>1. \A d \in Task : (IF lease' = d THEN {0} ELSE {}) = IF d = t THEN {} ELSE Leases[d]
      BY <1>1, <1>2, <1>5
    <3>. QED
      BY <3>1 DEF Leases
  <2>. QED
    BY <2>1, <2>2 DEF Lease!Give
<1>6. CASE Others \/ UNCHANGED vars
  <2>1. lease' = lease
    BY <1>6, DriverFrames DEF DriverFrame, vars, driverVars
  <2>. QED
    BY <1>3, <2>1
<1>7. ASSUME NEW t \in Task, NewTask(t) \/ HandlerStep(t) \/ Bind(t) \/ DriverStep(t)
      PROVE  [Lease!Next]_(Lease!vars)
  BY <1>3, <1>4, <1>5, <1>7, LeaseMoves DEF Lease!Next
<1>. QED
  BY <1>6, <1>7, NextIs

\* Every use that drivers make of the process is one that a pool of one permits: no
\* driver takes a process that another has, and only the one that has it gives it back
\* (run_squad_task_inner).
THEOREM DriversKeepToLeases == Spec => KeepsToLease
<1>1. Init => Lease!Init
  <2>1. Init => Leases = [t \in Task |-> {}]
    BY HubAssumption DEF Init, Leases
  <2>. QED
    BY <2>1 DEF Lease!Init
<1>. QED
  BY <1>1, LeasePromised, TypedAlways, PTL DEF Spec, KeepsToLease, Lease!Spec

-----------------------------------------------------------------------------
(* The kill switch and register_abort. *)

\* A registered driver was aborted, or its handle waits for the stop to come.
Told == \A t \in Task : handler[t] = "done" => aborted[t] \/ (~stopped[t] /\ abort[t])

LEMMA ToldStep == Typed /\ Told /\ [Next]_vars => Told'
<1> SUFFICES ASSUME Typed, Told, [Next]_vars PROVE Told'
  OBVIOUS
<1>a. /\ handler \in [Task -> {"idle", "created", "refused", "spawned", "done"}]
      /\ stopped \in [Task -> BOOLEAN] /\ abort \in [Task -> BOOLEAN] /\ aborted \in [Task -> BOOLEAN]
  BY DEF Typed, HubTypes, DriverTypes
<1>1. CASE UNCHANGED <<handler, stopped, abort, aborted>>
  BY <1>1 DEF Told
<1>2. ASSUME NEW t \in Task, NewTask(t) \/ HandlerStep(t) \/ Bind(t) PROVE Told'
  <2>1. CASE NewTask(t)
    BY <1>a, <2>1 DEF NewTask, Told
  <2>2. CASE PrepareFails(t) \/ Spawn(t)
    BY <1>a, <2>2 DEF PrepareFails, Spawn, Told, hubVars
  <2>3. CASE RegisterAbort(t)
    BY <1>a, <2>3 DEF RegisterAbort, Told
  <2>4. CASE Bind(t)
    BY <1>1, <2>4 DEF Bind, hubVars
  <2>. QED
    BY <1>2, <2>1, <2>2, <2>3, <2>4 DEF HandlerStep
<1>3. ASSUME NEW t \in Task, DriverStep(t) PROVE Told'
  <2>1. CASE Verify(t) \/ AcquireLease(t) \/ ExecuteTask(t) \/ CheckStopped(t) \/ Receive(t)
    BY <1>1, <2>1 DEF Verify, AcquireLease, ExecuteTask, CheckStopped, Receive, hubVars
  <2>2. CASE PublishEvent(t) \/ JudgeOutcome(t) \/ ReportFailure(t) \/ Close(t) \/ Cancelled(t)
    BY <1>1, <2>2 DEF PublishEvent, JudgeOutcome, ReportFailure, Close, Cancelled, hubVars
  <2>. QED
    BY <1>3, <2>1, <2>2 DEF DriverStep
<1>4. ASSUME NEW t \in Task, NEW o \in Operator, MarkStopped(o, t) PROVE Told'
  BY <1>a, <1>4 DEF MarkStopped, Told
<1>5. ASSUME NEW t \in Task, OrchStep(t) \/ GiveUp(t) \/ LoseTail(t) PROVE Told'
  <2>1. CASE StartOrchestrator(t) \/ Connect(t) \/ Emit(t) \/ Decide(t) \/ RequestHitl(t)
    BY <1>1, <2>1 DEF StartOrchestrator, Connect, Emit, Decide, RequestHitl, hubVars, driverVars
  <2>2. CASE ReturnCall(t) \/ EndOrchestrator(t) \/ GiveUp(t) \/ LoseTail(t)
    BY <1>1, <2>2 DEF ReturnCall, EndOrchestrator, GiveUp, LoseTail, hubVars, driverVars
  <2>. QED
    BY <1>5, <2>1, <2>2 DEF OrchStep
<1>6. ASSUME NEW t \in Task, Subscribe(t) \/ PushMessage(t) \/ EchoMessage(t) PROVE Told'
  BY <1>1, <1>6 DEF Subscribe, PushMessage, EchoMessage, driverVars
<1>7. ASSUME NEW t \in Task, NEW a \in {"allow", "deny"}, ResolveHitl(t, a) PROVE Told'
  BY <1>1, <1>7 DEF ResolveHitl, driverVars
<1>8. ASSUME NEW o \in Operator, StopStep(o) PROVE Told'
  BY <1>1, <1>8 DEF StopStep, PublishStop, CloseStopped, driverVars
<1>9. ASSUME NEW g, GateStep(g) PROVE Told'
  BY <1>1, <1>9 DEF GateStep, RunTool, Expire, DropCall, hubVars, driverVars
<1>10. CASE Crash
  BY <1>1, <1>10 DEF Crash, hubVars, driverVars
<1>11. CASE Others
  BY <1>4, <1>5, <1>6, <1>7, <1>8, <1>9, <1>10, <1>11 DEF Others
<1>12. CASE UNCHANGED vars
  BY <1>1, <1>12 DEF vars, hubVars, driverVars
<1>. QED
  BY <1>2, <1>3, <1>11, <1>12, NextIs

\* Whenever the kill switch comes, before or after register_abort, the driver's
\* abort() is called: the check in each of them closes the window of the other.
THEOREM StopsReachDrivers == Spec => []StopReachesDriver
<1>1. Init => Told
  BY DEF Init, Told
<1>2. Told => StopReachesDriver
  BY DEF Told, StopReachesDriver
<1>. QED
  BY <1>1, <1>2, ToldStep, TypedAlways, PTL DEF Spec

-----------------------------------------------------------------------------
(* Gates and those who answer. *)

\* A task that was not spawned has no core server, nobody reaches it, and it has no
\* gate: the state that NewTask overwrites is without one.
Unspawned ==
  \A t \in Task : handler[t] \in {"idle", "created", "refused"} =>
    /\ driver[t] = "none" /\ core[t] = "none" /\ owner # t
    /\ pending[t] = 0 /\ \A u \in Task : conn[u] # t

LEMMA UnspawnedStep == Typed /\ Unspawned /\ [Next]_vars => Unspawned'
<1> SUFFICES ASSUME Typed, Unspawned, [Next]_vars PROVE Unspawned'
  OBVIOUS
<1>a. /\ handler \in [Task -> {"idle", "created", "refused", "spawned", "done"}]
      /\ core \in [Task -> {"none", "starting", "serving", "ended"}]
      /\ owner \in Task \cup {None} /\ None \notin Task /\ driver \in [Task -> Steps]
      /\ pending \in [Task -> 0..Len(gates)] /\ conn \in [Task -> Task \cup {None}]
  BY HubAssumption DEF Typed, DriverTypes, OrchTypes
<1>1. CASE UNCHANGED <<handler, driver, core, owner, pending, conn>>
  BY <1>1 DEF Unspawned
<1>2. ASSUME NEW t \in Task, NewTask(t) \/ HandlerStep(t) \/ Bind(t) PROVE Unspawned'
  <2>1. CASE NewTask(t)
    BY <1>a, <2>1 DEF NewTask, Unspawned, orchVars
  <2>2. CASE PrepareFails(t)
    BY <1>a, <2>2 DEF PrepareFails, Unspawned, hubVars, orchVars
  <2>3. CASE Spawn(t)
    BY <1>a, <2>3 DEF Spawn, DriverGoes, Unspawned, hubVars, orchVars
  <2>4. CASE RegisterAbort(t)
    BY <1>a, <2>4 DEF RegisterAbort, Unspawned, orchVars
  <2>5. CASE Bind(t)
    BY <1>a, <2>5 DEF Bind, Unspawned, hubVars, orchVars
  <2>. QED
    BY <1>2, <2>1, <2>2, <2>3, <2>4, <2>5 DEF HandlerStep
\* A driver that steps was spawned, and lets go of its own server only.
<1>3. ASSUME NEW t \in Task, DriverStep(t) PROVE Unspawned'
  <2>1. /\ driver[t] # "none" /\ UNCHANGED <<handler, pending, conn>>
        /\ \E s : driver' = [driver EXCEPT ![t] = s]
        /\ UNCHANGED <<core, owner>> \/ StopCore(t)
    <3>1. CASE Verify(t) \/ AcquireLease(t) \/ ExecuteTask(t) \/ CheckStopped(t)
      BY <3>1 DEF Verify, AcquireLease, ExecuteTask, CheckStopped, DriverGoes, hubVars, orchVars
    <3>2. CASE JudgeOutcome(t) \/ ReportFailure(t) \/ Close(t) \/ Cancelled(t)
      BY <3>2, StepsAre DEF JudgeOutcome, ReportFailure, Close, Cancelled, DriverGoes, hubVars, orchVars
    <3>3. CASE Receive(t) \/ PublishEvent(t)
      BY <3>3 DEF Receive, PublishEvent, DriverGoes, hubVars, orchVars
    <3>. QED
      BY <1>3, <3>1, <3>2, <3>3 DEF DriverStep
  <2>2. handler[t] \notin {"idle", "created", "refused"}
    BY <2>1 DEF Unspawned
  <2>3. \A u \in Task \ {t} : driver'[u] = driver[u] /\ core'[u] = core[u] /\ (owner # u => owner' # u)
    BY <1>a, <2>1 DEF StopCore
  <2>. QED
    BY <1>a, <2>1, <2>2, <2>3 DEF Unspawned
<1>4. ASSUME NEW t \in Task, OrchStep(t) PROVE Unspawned'
  <2>1. CASE StartOrchestrator(t) \/ Emit(t) \/ Decide(t) \/ ReturnCall(t) \/ EndOrchestrator(t)
    BY <1>1, <2>1 DEF StartOrchestrator, Emit, Decide, ReturnCall, EndOrchestrator, hubVars, driverVars
  <2>2. CASE Connect(t)
    <3>1. conn' = [conn EXCEPT ![t] = owner] /\ UNCHANGED <<handler, driver, core, owner, pending>>
      BY <2>2 DEF Connect, hubVars, driverVars
    <3>. QED
      BY <1>a, <3>1 DEF Unspawned
  <2>3. CASE RequestHitl(t)
    <3>1. pending' = [pending EXCEPT ![conn[t]] = Len(gates) + 1]
          /\ UNCHANGED <<handler, driver, core, owner, conn>>
      BY <2>3 DEF RequestHitl, driverVars
    <3>. QED
      BY <1>a, <3>1 DEF Unspawned
  <2>. QED
    BY <1>4, <2>1, <2>2, <2>3 DEF OrchStep
<1>5. ASSUME NEW t \in Task, NEW a \in {"allow", "deny"}, ResolveHitl(t, a) PROVE Unspawned'
  BY <1>a, <1>5 DEF ResolveHitl, Unspawned, driverVars, orchVars
<1>6. ASSUME NEW t \in Task, NEW o \in Operator, MarkStopped(o, t) PROVE Unspawned'
  BY <1>a, <1>6 DEF MarkStopped, Unspawned, orchVars
<1>7. ASSUME NEW t \in Task,
             Subscribe(t) \/ PushMessage(t) \/ EchoMessage(t) \/ LoseTail(t) \/ GiveUp(t)
      PROVE  Unspawned'
  BY <1>1, <1>7 DEF Subscribe, PushMessage, EchoMessage, LoseTail, GiveUp, hubVars, driverVars, orchVars
<1>8. ASSUME NEW o \in Operator, StopStep(o) PROVE Unspawned'
  BY <1>1, <1>8 DEF StopStep, PublishStop, CloseStopped, driverVars, orchVars
<1>9. ASSUME NEW g, GateStep(g) PROVE Unspawned'
  BY <1>1, <1>9 DEF GateStep, RunTool, Expire, DropCall, hubVars, driverVars, orchVars
<1>10. CASE Crash
  BY <1>1, <1>10 DEF Crash, hubVars, driverVars
<1>11. CASE UNCHANGED vars
  BY <1>1, <1>11 DEF vars, hubVars, driverVars, orchVars
<1>. QED
  BY <1>2, <1>3, <1>4, <1>5, <1>6, <1>7, <1>8, <1>9, <1>10, <1>11 DEF Next

LEMMA UnspawnedAlways == Spec => []Unspawned
<1>1. Init => Unspawned
  BY HubAssumption DEF Init, Unspawned
<1>. QED
  BY <1>1, UnspawnedStep, TypedAlways, PTL DEF Spec

LEMMA WaitingStep == Typed /\ Unspawned /\ WaitingIsPending /\ [Next]_vars => WaitingIsPending'
<1> SUFFICES ASSUME Typed, Unspawned, WaitingIsPending, [Next]_vars PROVE WaitingIsPending'
  OBVIOUS
<1>a. /\ gates \in Seq(Gate) /\ Len(gates) \in Nat /\ DOMAIN gates = 1..Len(gates)
      /\ pending \in [Task -> 0..Len(gates)]
  BY DEF Typed, OrchTypes
<1>b. \A g \in DOMAIN gates : gates[g] \in Gate
  BY <1>a
<1>c. \A e \in Gate : e.at \in Task /\ \A a : [e EXCEPT !.status = a].status = a
  BY DEF Gate
<1>1. CASE UNCHANGED <<gates, pending>>
  BY <1>1 DEF WaitingIsPending
\* A task's pending gate is answered and forgotten.
<1>2. ASSUME NEW t \in Task, NEW a \in {"allow", "deny"}, gates' = Answered(pending[t], a),
             pending' = [pending EXCEPT ![t] = 0]
      PROVE  WaitingIsPending'
  <2>1. pending[t] \in 0..Len(gates)
    BY <1>a
  <2>2. /\ gates' \in Seq(Gate) /\ Len(gates') = Len(gates)
        /\ \A i \in 1..Len(gates) :
             gates'[i] = IF i = pending[t] /\ gates[i].status = "waiting"
                         THEN [gates[i] EXCEPT !.status = a] ELSE gates[i]
    <3>1. a \in {"allow", "deny", "expired", "abandoned", "ran"}
      OBVIOUS
    <3>2. /\ Answered(pending[t], a) \in Seq(Gate) /\ Len(Answered(pending[t], a)) = Len(gates)
          /\ \A i \in 1..Len(gates) :
               Answered(pending[t], a)[i] = IF i = pending[t] /\ gates[i].status = "waiting"
                                            THEN [gates[i] EXCEPT !.status = a] ELSE gates[i]
      BY <1>a, <2>1, <3>1, AnsweredGates
    <3>. QED
      BY <1>2, <3>2
  <2> SUFFICES ASSUME NEW g \in DOMAIN gates', gates'[g].status = "waiting"
               PROVE  pending'[gates'[g].at] = g
    BY DEF WaitingIsPending
  <2>3. g \in 1..Len(gates) /\ gates[g] \in Gate
    BY <1>a, <2>2
  <2>4. [gates[g] EXCEPT !.status = a].status = a
    BY <1>c, <2>3
  <2>5. gates'[g] = gates[g] /\ ~(g = pending[t] /\ gates[g].status = "waiting")
    BY <2>2, <2>3, <2>4
  <2>6. pending[gates[g].at] = g /\ g # pending[t]
    BY <1>a, <2>3, <2>5 DEF WaitingIsPending
  <2>. QED
    BY <1>a, <1>c, <1>2, <2>3, <2>5, <2>6
\* The gate that a new one replaces is denied, so that only the new one waits.
<1>3. ASSUME NEW t \in Task, RequestHitl(t) PROVE WaitingIsPending'
  <2> DEFINE h == conn[t]
  <2> DEFINE new == [by |-> t, at |-> h, kind |-> IF orch[t] = "asking" THEN "plan" ELSE "tool",
                     status |-> "waiting"]
  <2> DEFINE old == Answered(pending[h], "deny")
  <2>1. h \in Task
    BY <1>3 DEF RequestHitl, Idle, Typed, Connected, OrchTypes
  <2>2. /\ old \in Seq(Gate) /\ Len(old) = Len(gates)
        /\ \A i \in 1..Len(gates) :
             old[i] = IF i = pending[h] /\ gates[i].status = "waiting"
                      THEN [gates[i] EXCEPT !.status = "deny"] ELSE gates[i]
    BY <1>a, <2>1, AnsweredGates
  <2>3. gates' = Append(old, new) /\ pending' = [pending EXCEPT ![h] = Len(gates) + 1]
    BY <1>3 DEF RequestHitl
  <2>4. new.at = h
    OBVIOUS
  <2> HIDE DEF old, new
  <2>5. /\ DOMAIN gates' = 1..(Len(gates) + 1)
        /\ \A i \in 1..Len(gates) : gates'[i] = old[i]
        /\ gates'[Len(gates) + 1] = new
    BY <1>a, <2>2, <2>3
  <2> SUFFICES ASSUME NEW g \in DOMAIN gates', gates'[g].status = "waiting"
               PROVE  pending'[gates'[g].at] = g
    BY DEF WaitingIsPending
  <2>6. CASE g = Len(gates) + 1
    BY <1>a, <2>1, <2>3, <2>4, <2>5, <2>6
  <2>7. CASE g \in 1..Len(gates)
    <3>1. gates[g] \in Gate /\ [gates[g] EXCEPT !.status = "deny"].status = "deny"
      BY <1>a, <1>b, <1>c, <2>7
    <3>2. gates'[g] = gates[g] /\ ~(g = pending[h] /\ gates[g].status = "waiting")
      BY <2>2, <2>5, <2>7, <3>1
    <3>3. pending[gates[g].at] = g /\ g # pending[h]
      BY <1>a, <2>7, <3>2 DEF WaitingIsPending
    <3>. QED
      BY <1>a, <1>c, <2>1, <2>3, <2>7, <3>1, <3>2, <3>3
  <2>. QED
    BY <1>a, <2>5, <2>6, <2>7
\* A gate ends by itself: no other starts to wait.
<1>4. ASSUME NEW g \in 1..MaxGates, GateStep(g) PROVE WaitingIsPending'
  <2>1. g \in 1..Len(gates) /\ gates[g] \in Gate /\ pending' = pending
    BY <1>a, <1>4 DEF GateStep, RunTool, Expire, DropCall, hubVars
  <2>2. \E a \in {"ran", "expired", "abandoned"} : gates' = [gates EXCEPT ![g].status = a]
    BY <1>4, <2>1 DEF GateStep, RunTool, Expire, DropCall, Answered
  <2>3. \A i \in DOMAIN gates' : gates'[i].status = "waiting"
          => i \in DOMAIN gates /\ gates[i].status = "waiting" /\ gates'[i] = gates[i]
    BY <1>a, <2>1, <2>2 DEF Gate
  <2>. QED
    BY <2>1, <2>3 DEF WaitingIsPending
<1>5. ASSUME NEW t \in Task, NEW a \in {"allow", "deny"}, ResolveHitl(t, a) PROVE WaitingIsPending'
  BY <1>2, <1>5 DEF ResolveHitl
<1>6. ASSUME NEW t \in Task, NEW o \in Operator, MarkStopped(o, t) PROVE WaitingIsPending'
  BY <1>2, <1>6 DEF MarkStopped
<1>7. ASSUME NEW t \in Task,
             \/ Subscribe(t) \/ HandlerStep(t) \/ Bind(t)
             \/ PushMessage(t) \/ EchoMessage(t) \/ LoseTail(t) \/ GiveUp(t)
      PROVE  WaitingIsPending'
  BY <1>1, <1>7 DEF Subscribe, HandlerStep, PrepareFails, Spawn, RegisterAbort, Bind,
                    PushMessage, EchoMessage, LoseTail, GiveUp, hubVars
<1>8. ASSUME NEW t \in Task, DriverStep(t) PROVE WaitingIsPending'
  <2>1. CASE Verify(t) \/ AcquireLease(t) \/ ExecuteTask(t) \/ CheckStopped(t) \/ Receive(t)
    BY <1>1, <2>1 DEF Verify, AcquireLease, ExecuteTask, CheckStopped, Receive, hubVars
  <2>2. CASE PublishEvent(t) \/ JudgeOutcome(t) \/ ReportFailure(t) \/ Close(t) \/ Cancelled(t)
    BY <1>1, <2>2 DEF PublishEvent, JudgeOutcome, ReportFailure, Close, Cancelled, hubVars
  <2>. QED
    BY <1>8, <2>1, <2>2 DEF DriverStep
<1>9. ASSUME NEW t \in Task, OrchStep(t) PROVE WaitingIsPending'
  <2>1. CASE StartOrchestrator(t) \/ Connect(t) \/ Emit(t) \/ Decide(t)
    BY <1>1, <2>1 DEF StartOrchestrator, Connect, Emit, Decide, hubVars
  <2>2. CASE ReturnCall(t) \/ EndOrchestrator(t)
    BY <1>1, <2>2 DEF ReturnCall, EndOrchestrator, hubVars
  <2>. QED
    BY <1>3, <1>9, <2>1, <2>2 DEF OrchStep
<1>10. ASSUME NEW o \in Operator, StopStep(o) PROVE WaitingIsPending'
  BY <1>1, <1>10 DEF StopStep, PublishStop, CloseStopped
<1>11. CASE Crash
  BY <1>1, <1>11 DEF Crash, hubVars
<1>12. CASE UNCHANGED vars
  BY <1>1, <1>12 DEF vars, hubVars
<1>13. ASSUME NEW t \in Task, NewTask(t) PROVE WaitingIsPending'
  <2>1. pending[t] = 0 /\ pending' = [pending EXCEPT ![t] = 0] /\ gates' = gates
    BY <1>13 DEF NewTask, Unspawned
  <2>2. pending' = pending
    BY <1>a, <2>1
  <2>. QED
    BY <1>1, <2>1, <2>2
<1>. QED
  BY <1>4, <1>5, <1>6, <1>7, <1>8, <1>9, <1>10, <1>11, <1>12, <1>13 DEF Next

\* request_hitl and resolve_hitl: a gate that still waits is the one its task has
\* pending, so that every open gate can be answered.
THEOREM OpenGatesCanBeAnswered == Spec => []WaitingIsPending
<1>1. Init => WaitingIsPending
  BY DEF Init, WaitingIsPending
<1>. QED
  BY <1>1, WaitingStep, TypedAlways, UnspawnedAlways, PTL DEF Spec

\* Only the kill switch marks a task as stopped, and it clears the pending gate.
LEMMA StopClearsPending ==
  ASSUME Typed, [Next]_vars, NEW t \in Task, stopped'[t], ~stopped[t]
  PROVE  pending'[t] = 0
<1>a. stopped \in [Task -> BOOLEAN] /\ pending \in [Task -> 0..Len(gates)]
  BY DEF Typed, HubTypes, OrchTypes
<1>b. stopped' # stopped
  OBVIOUS
<1>c. ~HubFrame
  BY <1>b DEF HubFrame
<1>1. ASSUME NEW u \in Task, NewTask(u) \/ HandlerStep(u) \/ Bind(u) \/ DriverStep(u) PROVE FALSE
  <2>1. ~NewTask(u)
    BY <1>a DEF NewTask
  <2>2. ~(PrepareFails(u) \/ Spawn(u) \/ Bind(u) \/ Verify(u) \/ AcquireLease(u))
    BY <1>c, HubFrames
  <2>3. ~(ExecuteTask(u) \/ CheckStopped(u) \/ Receive(u) \/ JudgeOutcome(u) \/ Cancelled(u))
    BY <1>c, HubFrames
  <2>4. ~(RegisterAbort(u) \/ PublishEvent(u) \/ ReportFailure(u) \/ Close(u))
    BY <1>b DEF RegisterAbort, PublishEvent, ReportFailure, Close
  <2>. QED
    BY <1>1, <2>1, <2>2, <2>3, <2>4 DEF HandlerStep, DriverStep
<1>2. ASSUME NEW u \in Task, \/ Subscribe(u) \/ OrchStep(u) \/ GiveUp(u) \/ LoseTail(u)
                             \/ PushMessage(u) \/ EchoMessage(u)
      PROVE  FALSE
  <2>1. ~(StartOrchestrator(u) \/ Connect(u) \/ Emit(u) \/ Decide(u) \/ RequestHitl(u))
    BY <1>c, HubFrames
  <2>2. ~(ReturnCall(u) \/ EndOrchestrator(u) \/ GiveUp(u) \/ LoseTail(u))
    BY <1>c, HubFrames
  <2>3. ~(Subscribe(u) \/ PushMessage(u) \/ EchoMessage(u))
    BY <1>b DEF Subscribe, PushMessage, EchoMessage
  <2>. QED
    BY <1>2, <2>1, <2>2, <2>3 DEF OrchStep
<1>3. ASSUME NEW o \in Operator, StopStep(o) PROVE FALSE
  BY <1>b, <1>3 DEF StopStep, PublishStop, CloseStopped
<1>4. ASSUME NEW u \in Task, NEW o \in Operator, MarkStopped(o, u) PROVE pending'[t] = 0
  <2>1. u = t
    BY <1>a, <1>4 DEF MarkStopped
  <2>. QED
    BY <1>a, <1>4, <2>1 DEF MarkStopped
<1>5. ~UNCHANGED vars
  BY <1>b DEF vars, hubVars
<1>6. ASSUME NEW g, GateStep(g) PROVE FALSE
  BY <1>c, <1>6, HubFrames DEF GateStep
<1>. QED
  BY <1>1, <1>2, <1>3, <1>4, <1>5, <1>6, <1>c, HubFrames, NextIs DEF Others

\* The kill switch leaves no gate of the task open: a stop denies the pending gate,
\* and no other was waiting.
THEOREM StopsCloseGates == Spec => StopDeniesGates
<1>1. ASSUME Typed, Unspawned, WaitingIsPending, [Next]_vars
      PROVE  \A t \in Task : stopped'[t] /\ ~stopped[t] =>
               \A g \in DOMAIN gates' : gates'[g].at = t => gates'[g].status # "waiting"
  <2> SUFFICES ASSUME NEW t \in Task, stopped'[t], ~stopped[t],
                      NEW g \in DOMAIN gates', gates'[g].at = t, gates'[g].status = "waiting"
               PROVE  FALSE
    OBVIOUS
  <2>1. pending'[t] = 0
    BY <1>1, StopClearsPending
  <2>2. pending'[t] = g
    BY <1>1, WaitingStep DEF WaitingIsPending
  <2>3. gates' \in Seq(Gate)
    BY <1>1, OrchTypeStep DEF OrchTypes
  <2>4. g # 0
    BY <2>3
  <2>. QED
    BY <2>1, <2>2, <2>4
<1>. QED
  BY <1>1, TypedAlways, UnspawnedAlways, OpenGatesCanBeAnswered, PTL DEF Spec, StopDeniesGates

-----------------------------------------------------------------------------
(* Nothing of a complete stream is lost. *)

\* Counting the events of a sequence as it grows at its end and shrinks at its head.
LEMMA EventsCount ==
  ASSUME NEW S, NEW s \in Seq(S)
  PROVE  IsFiniteSet({i \in DOMAIN s : s[i] = "event"}) /\ Events(s) \in Nat
<1>1. DOMAIN s = 1..Len(s) /\ Len(s) \in Nat
  OBVIOUS
<1>2. IsFiniteSet(1..Len(s))
  BY <1>1, FS_Interval
<1>3. IsFiniteSet({i \in DOMAIN s : s[i] = "event"})
  BY <1>1, <1>2, FS_Subset
<1>. QED
  BY <1>3, FS_CardinalityType DEF Events

LEMMA EventsOfEmpty == Events(<<>>) = 0
<1>1. {i \in DOMAIN <<>> : <<>>[i] = "event"} = {}
  OBVIOUS
<1>. QED
  BY <1>1, FS_EmptySet DEF Events

LEMMA EventsOfAppend ==
  ASSUME NEW S, NEW s \in Seq(S), NEW e \in S
  PROVE  Events(Append(s, e)) = IF e = "event" THEN Events(s) + 1 ELSE Events(s)
<1>. DEFINE In(q) == {i \in DOMAIN q : q[i] = "event"}
            n == Len(s) + 1
<1>1. /\ DOMAIN Append(s, e) = 1..n /\ DOMAIN s = 1..Len(s) /\ Len(s) \in Nat
      /\ Append(s, e)[n] = e /\ \A i \in 1..Len(s) : Append(s, e)[i] = s[i]
  OBVIOUS
<1>2. \A i \in 1..n : i \in 1..Len(s) \/ i = n
  BY <1>1
<1>3. In(Append(s, e)) = IF e = "event" THEN In(s) \cup {n} ELSE In(s)
  BY <1>1, <1>2
<1>4. n \notin In(s)
  BY <1>1
<1>5. IsFiniteSet(In(s))
  BY EventsCount
<1>. QED
  BY <1>3, <1>4, <1>5, FS_AddElement DEF Events

LEMMA EventsOfTail ==
  ASSUME NEW S, NEW s \in Seq(S), s # <<>>
  PROVE  /\ Tail(s) \in Seq(S)
         /\ Events(s) = IF Head(s) = "event" THEN Events(Tail(s)) + 1 ELSE Events(Tail(s))
<1>. DEFINE In(q) == {i \in DOMAIN q : q[i] = "event"}
            Late == {i \in DOMAIN s : s[i] = "event" /\ i # 1}
            shift == [i \in In(Tail(s)) |-> i + 1]
<1>1. /\ Tail(s) \in Seq(S) /\ Len(Tail(s)) = Len(s) - 1 /\ Head(s) = s[1]
      /\ Len(s) \in Nat \ {0} /\ DOMAIN s = 1..Len(s) /\ DOMAIN Tail(s) = 1..(Len(s) - 1)
      /\ \A i \in 1..(Len(s) - 1) : Tail(s)[i] = s[i + 1]
  BY HeadTailProperties
<1>2. shift \in Bijection(In(Tail(s)), Late)
  <2>1. \A i \in In(Tail(s)) : i \in Nat /\ shift[i] \in Late
    BY <1>1
  <2>2. shift \in [In(Tail(s)) -> Late]
    BY <2>1
  <2>3. \A i, j \in In(Tail(s)) : shift[i] = shift[j] => i = j
    BY <2>1
  <2>4. ASSUME NEW j \in Late PROVE \E i \in In(Tail(s)) : shift[i] = j
    <3>1. j - 1 \in 1..(Len(s) - 1) /\ (j - 1) + 1 = j
      BY <1>1, <2>4
    <3>2. j - 1 \in In(Tail(s))
      BY <1>1, <2>4, <3>1
    <3>. QED
      BY <3>1, <3>2
  <2>. HIDE DEF In, Late, shift
  <2>5. shift \in Injection(In(Tail(s)), Late)
    BY <2>2, <2>3 DEF Injection, IsInjective
  <2>6. shift \in Surjection(In(Tail(s)), Late)
    BY <2>2, <2>4 DEF Surjection
  <2>. QED
    BY <2>5, <2>6 DEF Bijection
<1>3. Cardinality(Late) = Events(Tail(s)) /\ IsFiniteSet(Late)
  <2>1. IsFiniteSet(In(Tail(s)))
    BY <1>1, EventsCount
  <2>2. ExistsBijection(In(Tail(s)), Late)
    BY <1>2, Zenon DEF ExistsBijection
  <2>3. Events(Tail(s)) = Cardinality(In(Tail(s)))
    BY DEF Events
  <2>. HIDE DEF In, Late
  <2>. QED
    BY <2>1, <2>2, <2>3, FS_Bijection
<1>4. In(s) = IF Head(s) = "event" THEN Late \cup {1} ELSE Late
  BY <1>1
<1>. QED
  BY <1>1, <1>3, <1>4, FS_AddElement DEF Events

\* What the facts about a task's delivery read, apart from who was killed.
Untouched(u) ==
  /\ driver'[u] = driver[u] /\ orch'[u] = orch[u] /\ emitted'[u] = emitted[u]
  /\ stream'[u] = stream[u] /\ log'[u] = log[u] /\ stopped'[u] = stopped[u] /\ tx'[u] = tx[u]
Only(t) == \A u \in Task \ {t} : Untouched(u)
KillsGrow == \A u \in Task : Killed(u) => Killed(u)'

LEMMA UntouchedKeeps ==
  ASSUME NEW u \in Task, Delivery(u), Untouched(u), Killed(u) => Killed(u)'
  PROVE  Delivery(u)'
<1>. USE DEF Delivery, Untouched
<1>1. SilentUntilCalled(u)' /\ EndIsLast(u)' /\ NothingIsLost(u)'
  BY DEF SilentUntilCalled, EndIsLast, NothingIsLost
<1>2. OutcomeIsKnown(u)'
  BY DEF OutcomeIsKnown, Complete, Faulted
<1>. QED
  BY <1>1, <1>2

\* A word of another kind than an event changes no count, and an error stays logged.
LEMMA LoggedWord ==
  ASSUME Typed, NEW t \in Task, NEW k \in Kind, Publish(t, k)
  PROVE  /\ log'[t] = Append(log[t], k) /\ \A u \in Task \ {t} : log'[u] = log[u]
         /\ Events(log[t]) \in Nat
         /\ Events(log'[t]) = IF k = "event" THEN Events(log[t]) + 1 ELSE Events(log[t])
         /\ Faulted(t) \/ k \in {"error", "failure"} => Faulted(t)'
<1>1. log[t] \in Seq(Kind) /\ log'[t] = Append(log[t], k) /\ \A u \in Task \ {t} : log'[u] = log[u]
  BY DEF Typed, HubTypes, Publish
<1>2. /\ Events(log[t]) \in Nat
      /\ Events(log'[t]) = IF k = "event" THEN Events(log[t]) + 1 ELSE Events(log[t])
  BY <1>1, EventsCount, EventsOfAppend
<1>3. Faulted(t) \/ k \in {"error", "failure"} => Faulted(t)'
  <2>1. /\ DOMAIN log[t] \subseteq DOMAIN log'[t] /\ \A i \in DOMAIN log[t] : log'[t][i] = log[t][i]
        /\ Len(log[t]) + 1 \in DOMAIN log'[t] /\ log'[t][Len(log[t]) + 1] = k
    BY <1>1
  <2>. QED
    BY <2>1 DEF Faulted
<1>. QED
  BY <1>1, <1>2, <1>3

\* Words that an orchestrator yields to a stream that has no end yet.
LEMMA StreamGrows ==
  ASSUME NEW s \in Seq(Sent), \A i \in DOMAIN s : s[i] # "end"
  PROVE  /\ Events(s) \in Nat
         /\ Events(s \o <<"event">>) = Events(s) + 1
         /\ \A i \in DOMAIN (s \o <<"event">>) : (s \o <<"event">>)[i] # "end"
         /\ Events(s \o <<"hitl">>) = Events(s)
         /\ \A i \in DOMAIN (s \o <<"hitl">>) : (s \o <<"hitl">>)[i] # "end"
         /\ Events(s \o <<"end">>) = Events(s)
         /\ \A i \in DOMAIN (s \o <<"end">>) :
              (s \o <<"end">>)[i] = "end" => i = Len(s \o <<"end">>)
         /\ Events(s \o <<"error", "end">>) = Events(s)
         /\ \A i \in DOMAIN (s \o <<"error", "end">>) :
              (s \o <<"error", "end">>)[i] = "end" => i = Len(s \o <<"error", "end">>)
<1>2. Events(s) \in Nat /\ \A e \in Sent : Events(Append(s, e)) =
                            IF e = "event" THEN Events(s) + 1 ELSE Events(s)
  BY EventsCount, EventsOfAppend
<1>3. ASSUME NEW e \in Sent
      PROVE  /\ s \o <<e>> = Append(s, e) /\ s \o <<e>> \in Seq(Sent)
             /\ Len(s \o <<e>>) = Len(s) + 1 /\ Len(s) \in Nat
             /\ DOMAIN (s \o <<e>>) = 1..(Len(s) + 1)
             /\ (s \o <<e>>)[Len(s) + 1] = e
             /\ Events(s \o <<e>>) = IF e = "event" THEN Events(s) + 1 ELSE Events(s)
             /\ \A i \in 1..(Len(s) + 1) : i # Len(s) + 1 => (s \o <<e>>)[i] # "end"
  <2>1. s \o <<e>> = Append(s, e)
    BY <1>2, AppendIsConcat
  <2>2. /\ Append(s, e) \in Seq(Sent) /\ Len(Append(s, e)) = Len(s) + 1 /\ Len(s) \in Nat
        /\ DOMAIN Append(s, e) = 1..(Len(s) + 1) /\ Append(s, e)[Len(s) + 1] = e
        /\ \A i \in 1..(Len(s) + 1) : i # Len(s) + 1 => Append(s, e)[i] # "end"
    BY <1>2
  <2>3. Events(Append(s, e)) = IF e = "event" THEN Events(s) + 1 ELSE Events(s)
    BY <1>2, <1>3
  <2>. QED
    BY <2>1, <2>2, <2>3
<1>4. {"event", "hitl", "end", "error"} \subseteq Sent
  BY DEF Sent
<1>5. /\ Events(s \o <<"event">>) = Events(s) + 1 /\ Events(s \o <<"hitl">>) = Events(s)
      /\ Events(s \o <<"end">>) = Events(s)
  BY <1>3, <1>4
<1>6. /\ \A i \in DOMAIN (s \o <<"event">>) : (s \o <<"event">>)[i] # "end"
      /\ \A i \in DOMAIN (s \o <<"hitl">>) : (s \o <<"hitl">>)[i] # "end"
      /\ \A i \in DOMAIN (s \o <<"end">>) :
           (s \o <<"end">>)[i] = "end" => i = Len(s \o <<"end">>)
  BY <1>3, <1>4
<1>7. /\ Events(s \o <<"error", "end">>) = Events(s)
      /\ \A i \in DOMAIN (s \o <<"error", "end">>) :
           (s \o <<"error", "end">>)[i] = "end" => i = Len(s \o <<"error", "end">>)
  <2>. DEFINE q == s \o <<"error">>
  <2>1. q \in Seq(Sent) /\ Events(q) = Events(s) /\ \A i \in DOMAIN q : q[i] # "end"
    BY <1>3, <1>4
  <2>2. s \o <<"error", "end">> = Append(q, "end")
    BY <1>2
  <2>. HIDE DEF q
  <2>3. Events(Append(q, "end")) = Events(s)
    BY <1>4, <2>1, EventsOfAppend
  <2>4. \A i \in DOMAIN Append(q, "end") : Append(q, "end")[i] = "end" => i = Len(Append(q, "end"))
    BY <2>1
  <2>. QED
    BY <2>2, <2>3, <2>4
<1>. QED
  BY <1>2, <1>5, <1>6, <1>7

\* Only the first half of emergency_stop names a target, of an operator that had none.
LEMMA KillStep ==
  ASSUME Typed, KillsAreKept, [Next]_vars
  PROVE  KillsAreKept' /\ KillsGrow
<1>a. /\ stop \in [Operator -> {"idle", "marked", "published", "done"}]
      /\ target \in [Operator -> Task \cup {None}] /\ None \notin Task
  BY HubAssumption DEF Typed, HubTypes
<1>1. CASE UNCHANGED stopVars
  BY <1>1 DEF stopVars, KillsAreKept, KillsGrow, Killed
<1>2. ASSUME NEW t \in Task, NEW o \in Operator, MarkStopped(o, t)
      PROVE  KillsAreKept' /\ KillsGrow
  <2>1. /\ stop[o] = "idle" /\ stop' = [stop EXCEPT ![o] = "marked"]
        /\ target' = [target EXCEPT ![o] = t] /\ target[o] = None
    BY <1>2 DEF MarkStopped, KillsAreKept
  <2>. QED
    BY <1>a, <2>1 DEF KillsAreKept, KillsGrow, Killed
<1>3. ASSUME NEW o \in Operator, StopStep(o) PROVE KillsAreKept' /\ KillsGrow
  BY <1>a, <1>3 DEF StopStep, PublishStop, CloseStopped, KillsAreKept, KillsGrow, Killed
<1>4. ASSUME NEW t \in Task,
             \/ Subscribe(t) \/ NewTask(t) \/ HandlerStep(t) \/ Bind(t) \/ GiveUp(t) \/ LoseTail(t)
             \/ PushMessage(t) \/ EchoMessage(t) \/ \E a \in {"allow", "deny"} : ResolveHitl(t, a)
      PROVE  UNCHANGED stopVars
  BY <1>4 DEF Subscribe, NewTask, HandlerStep, PrepareFails, Spawn, RegisterAbort, Bind, GiveUp,
     LoseTail, PushMessage, EchoMessage, ResolveHitl
<1>5. ASSUME NEW t \in Task, DriverStep(t) PROVE UNCHANGED stopVars
  BY <1>5 DEF DriverStep, Verify, AcquireLease, ExecuteTask, CheckStopped, Receive, PublishEvent,
     JudgeOutcome, ReportFailure, Close, Cancelled
<1>6. ASSUME NEW t \in Task, OrchStep(t) PROVE UNCHANGED stopVars
  BY <1>6 DEF OrchStep, StartOrchestrator, Connect, Emit, Decide, RequestHitl, ReturnCall,
     EndOrchestrator
<1>7. ASSUME NEW g, GateStep(g) PROVE UNCHANGED stopVars
  BY <1>7 DEF GateStep, RunTool, Expire, DropCall
<1>8. CASE Crash \/ UNCHANGED vars
  BY <1>1, <1>8 DEF Crash, vars
<1>. QED
  BY <1>1, <1>2, <1>3, <1>4, <1>5, <1>6, <1>7, <1>8 DEF Next

\* The driver reads, publishes and closes.
LEMMA DriverDelivers ==
  ASSUME Typed, KillsGrow, NEW t \in Task, Delivery(t), DriverStep(t) \/ Spawn(t)
  PROVE  Only(t) /\ Delivery(t)'
<1>a. /\ driver \in [Task -> Steps] /\ stream \in [Task -> Seq(Sent)] /\ log \in [Task -> Seq(Kind)]
      /\ tx \in [Task -> {"none", "open", "dropped"}] /\ emitted[t] \in 0..MaxEvents
      /\ MaxEvents \in Nat
  BY HubAssumption DEF Typed, HubTypes, DriverTypes, OrchTypes
<1>b. Killed(t) => Killed(t)'
  BY DEF KillsGrow
<1>c. Events(<<>>) = 0
  BY EventsOfEmpty
<1>1. CASE Spawn(t) \/ Verify(t) \/ AcquireLease(t) \/ JudgeOutcome(t)
  <2>1. UNCHANGED <<orch, emitted, stream, log, stopped, tx>>
    BY <1>1 DEF Spawn, Verify, AcquireLease, JudgeOutcome, hubVars, orchVars
  <2>2. /\ \A u \in Task \ {t} : driver'[u] = driver[u]
        /\ \/ driver[t] = "none" /\ driver'[t] = "binding"
           \/ driver[t] = "binding" /\ driver'[t] \in {"acquiring", "failed"}
           \/ driver[t] = "acquiring" /\ driver'[t] \in {"calling", "failed", "panicked"}
           \/ driver[t] = "succeeded" /\ driver'[t] = "closing"
           \/ driver[t] = "failed" /\ driver'[t] = "closing" /\ stopped[t]
           \/ driver[t] = "failed" /\ driver'[t] = "reporting"
    BY <1>a, <1>1 DEF Spawn, Verify, AcquireLease, JudgeOutcome, DriverGoes
  <2>3. SilentUntilCalled(t)' /\ EndIsLast(t)'
    BY <2>1, <2>2 DEF Delivery, SilentUntilCalled, EndIsLast
  <2>4. NothingIsLost(t)'
    <3>1. driver'[t] \in Reading => driver'[t] = "calling" /\ driver[t] = "acquiring"
      BY <2>2, StepsAre
    <3>2. driver[t] = "acquiring" => orch[t] = "none" /\ emitted[t] = 0 /\ stream[t] = <<>>
                                     /\ Events(log[t]) = 0
      BY DEF Delivery, SilentUntilCalled
    <3>. QED
      BY <1>c, <2>1, <3>1, <3>2 DEF NothingIsLost
  <2>5. OutcomeIsKnown(t)'
    BY <1>b, <2>1, <2>2 DEF Delivery, OutcomeIsKnown, Complete, Faulted
  <2>. QED
    BY <2>1, <2>2, <2>3, <2>4, <2>5 DEF Delivery, Only, Untouched
<1>2. CASE ExecuteTask(t) \/ CheckStopped(t) \/ Receive(t) \/ Cancelled(t)
  <2>1. UNCHANGED <<orch, emitted, log, stopped, tx>>
    BY <1>2 DEF ExecuteTask, CheckStopped, Receive, Cancelled, hubVars, orchVars
  <2>2. /\ \A u \in Task \ {t} : driver'[u] = driver[u] /\ stream'[u] = stream[u]
        /\ driver[t] \in Awaiting \cup {"checking"}
        /\ \/ /\ driver[t] \in Reading /\ stream'[t] = stream[t]
              /\ driver'[t] \in {"checking", "receiving", "publishing"}
           \/ /\ stream'[t] = <<>> /\ driver'[t] \in {"failed", "aborted"}
           \/ /\ stream'[t] = <<>> /\ driver'[t] = "succeeded" /\ driver[t] = "receiving"
              /\ stream[t] # <<>> /\ Head(stream[t]) = "end"
    BY <1>a, <1>2, StepsAre DEF ExecuteTask, CheckStopped, Receive, Cancelled, DriverGoes, LeaveInner
  <2>3. SilentUntilCalled(t)'
    BY <2>1, <2>2 DEF Delivery, SilentUntilCalled
  <2>4. EndIsLast(t)'
    BY <2>1, <2>2 DEF Delivery, EndIsLast
  <2>5. NothingIsLost(t)'
    <3>1. driver'[t] \in Reading => driver[t] \in Reading /\ stream'[t] = stream[t]
      BY <2>2, StepsAre
    <3>. QED
      BY <2>1, <3>1 DEF Delivery, NothingIsLost
  <2>6. driver'[t] = "succeeded" => Complete(t)
    <3>1. SUFFICES ASSUME driver'[t] = "succeeded" PROVE Complete(t)
      OBVIOUS
    <3>2. stream[t] # <<>> /\ Head(stream[t]) = "end" /\ driver[t] = "receiving"
      BY <2>2, <3>1
    <3>3. 1 \in DOMAIN stream[t] /\ stream[t][1] = "end" /\ stream[t] \in Seq(Sent)
      BY <1>a, <3>2
    <3>4. orch[t] = "ended" /\ Len(stream[t]) = 1
      BY <3>3 DEF Delivery, EndIsLast
    <3>5. {i \in DOMAIN stream[t] : stream[t][i] = "event"} = {}
      BY <3>3, <3>4
    <3>6. Events(stream[t]) = 0
      BY <3>5, FS_EmptySet DEF Events
    <3>7. Events(log[t]) + Events(stream[t]) = emitted[t]
      BY <3>2, <3>4, StepsAre DEF Delivery, NothingIsLost
    <3>8. Events(log[t]) \in Nat
      BY <1>a, EventsCount
    <3>. QED
      BY <3>4, <3>6, <3>7, <3>8 DEF Complete
  <2>7. OutcomeIsKnown(t)'
    <3>1. driver'[t] \notin {"closing", "ended"} /\ driver[t] # "ended"
      BY <2>2, StepsAre
    <3>2. Complete(t) => Complete(t)'
      BY <2>1 DEF Complete
    <3>. QED
      BY <1>b, <2>1, <2>6, <3>1, <3>2 DEF Delivery, OutcomeIsKnown
  <2>. QED
    BY <2>1, <2>2, <2>3, <2>4, <2>5, <2>7 DEF Delivery, Only, Untouched
<1>3. CASE PublishEvent(t)
  <2>. DEFINE k == Head(stream[t])
  <2>1. /\ driver[t] = "publishing" /\ stream[t] # <<>> /\ k # "end" /\ stream[t] \in Seq(Sent)
        /\ Publish(t, k)
    BY <1>a, <1>3 DEF PublishEvent, Typed, Connected
  <2>2. k \in Kind /\ k \in Sent
    BY <2>1 DEF Sent, Kind
  <2>3. /\ log'[t] = Append(log[t], k) /\ \A u \in Task \ {t} : log'[u] = log[u]
        /\ Events(log[t]) \in Nat
        /\ Events(log'[t]) = IF k = "event" THEN Events(log[t]) + 1 ELSE Events(log[t])
    BY <2>1, <2>2, LoggedWord
  <2>4. /\ UNCHANGED <<orch, emitted, stopped, tx>>
        /\ \A u \in Task \ {t} : driver'[u] = driver[u] /\ stream'[u] = stream[u]
        /\ \/ k # "error" /\ driver'[t] = "checking" /\ stream'[t] = Tail(stream[t])
           \/ driver'[t] = "failed" /\ stream'[t] = <<>>
    BY <1>a, <1>3 DEF PublishEvent, DriverGoes, LeaveInner, orchVars
  <2>5. SilentUntilCalled(t)'
    BY <2>1, <2>4 DEF Delivery, SilentUntilCalled
  <2>6. EndIsLast(t)'
    <3>1. CASE stream'[t] = <<>>
      BY <3>1 DEF EndIsLast
    <3>2. CASE stream'[t] = Tail(stream[t])
      <4>1. /\ DOMAIN stream'[t] = 1..Len(stream'[t]) /\ Len(stream'[t]) = Len(stream[t]) - 1
            /\ DOMAIN stream[t] = 1..Len(stream[t]) /\ Len(stream[t]) \in Nat
            /\ \A i \in 1..Len(stream'[t]) : stream'[t][i] = stream[t][i + 1]
        BY <2>1, <3>2, HeadTailProperties
      <4>2. ASSUME NEW i \in DOMAIN stream'[t], stream'[t][i] = "end"
            PROVE  orch'[t] = "ended" /\ i = Len(stream'[t])
        <5>1. i + 1 \in DOMAIN stream[t] /\ stream[t][i + 1] = "end"
          BY <4>1, <4>2
        <5>2. orch[t] = "ended" /\ i + 1 = Len(stream[t])
          BY <5>1 DEF Delivery, EndIsLast
        <5>. QED
          BY <2>4, <4>1, <4>2, <5>2
      <4>. QED
        BY <4>2 DEF EndIsLast
    <3>. QED
      BY <2>4, <3>1, <3>2
  <2>7. NothingIsLost(t)'
    <3>1. SUFFICES ASSUME driver'[t] \in Reading, orch[t] # "dead"
                   PROVE  Events(log'[t]) + Events(stream'[t]) = emitted[t]
      BY <2>4 DEF NothingIsLost
    <3>2. stream'[t] = Tail(stream[t])
      BY <2>4, <3>1, StepsAre
    <3>3. Events(log[t]) + Events(stream[t]) = emitted[t]
      BY <2>1, <3>1, StepsAre DEF Delivery, NothingIsLost
    <3>4. /\ Events(stream[t]) = IF k = "event" THEN Events(Tail(stream[t])) + 1
                                                ELSE Events(Tail(stream[t]))
          /\ Events(Tail(stream[t])) \in Nat
      BY <2>1, EventsOfTail, EventsCount
    <3>. HIDE DEF k
    <3>. QED
      BY <2>3, <3>2, <3>3, <3>4
  <2>8. OutcomeIsKnown(t)'
    BY <1>b, <2>1, <2>4 DEF Delivery, OutcomeIsKnown
  <2>. QED
    BY <2>3, <2>4, <2>5, <2>6, <2>7, <2>8 DEF Delivery, Only, Untouched
<1>4. CASE ReportFailure(t)
  <2>1. /\ driver[t] = "reporting" /\ driver'[t] = "closing"
        /\ \A u \in Task \ {t} : driver'[u] = driver[u]
        /\ UNCHANGED <<orch, emitted, stream, stopped, tx>> /\ Publish(t, "failure")
    BY <1>a, <1>4 DEF ReportFailure, DriverGoes, orchVars
  <2>2. "failure" \in Kind
    BY DEF Kind
  <2>3. /\ \A u \in Task \ {t} : log'[u] = log[u]
        /\ Events(log'[t]) = Events(log[t]) /\ Faulted(t)'
    BY <2>1, <2>2, LoggedWord
  <2>4. SilentUntilCalled(t)' /\ EndIsLast(t)' /\ NothingIsLost(t)'
    BY <2>1, <2>3, StepsAre DEF Delivery, SilentUntilCalled, EndIsLast, NothingIsLost
  <2>5. OutcomeIsKnown(t)'
    BY <1>b, <2>1, <2>3 DEF Delivery, OutcomeIsKnown
  <2>. QED
    BY <2>1, <2>3, <2>4, <2>5 DEF Delivery, Only, Untouched
<1>5. CASE Close(t)
  <2>1. /\ driver[t] = "closing" /\ driver'[t] = "ended" /\ tx'[t] = "dropped"
        /\ \A u \in Task \ {t} : driver'[u] = driver[u] /\ tx'[u] = tx[u]
        /\ UNCHANGED <<orch, emitted, stream, stopped, log>>
    BY <1>a, <1>5 DEF Close, DriverGoes, orchVars
  <2>2. SilentUntilCalled(t)' /\ EndIsLast(t)' /\ NothingIsLost(t)'
    BY <2>1, StepsAre DEF Delivery, SilentUntilCalled, EndIsLast, NothingIsLost
  <2>3. OutcomeIsKnown(t)'
    BY <1>b, <2>1 DEF Delivery, OutcomeIsKnown, Complete, Faulted
  <2>. QED
    BY <2>1, <2>2, <2>3 DEF Delivery, Only, Untouched
<1>. QED
  BY <1>1, <1>2, <1>3, <1>4, <1>5 DEF DriverStep

\* A step that changes the stream and the orchestrator only.
LEMMA OrchestratorDelivers ==
  ASSUME Typed, KillsGrow, CallsAreLive, NEW t \in Task, Delivery(t),
         OrchStep(t) \/ LoseTail(t)
  PROVE  Only(t) /\ Delivery(t)'
<1>a. /\ orch \in [Task -> {"none", "ended", "dead"} \cup Running] /\ stream \in [Task -> Seq(Sent)]
      /\ emitted \in [Task -> 0..MaxEvents] /\ MaxEvents \in Nat
  BY HubAssumption DEF Typed, OrchTypes
<1>b. Killed(t) => Killed(t)'
  BY DEF KillsGrow
<1>c. stream[t] \in Seq(Sent)
  BY <1>a
<1>d. UNCHANGED <<driver, log, stopped, tx>>
  BY DEF OrchStep, LoseTail, StartOrchestrator, Connect, Emit, Decide, RequestHitl, ReturnCall,
         EndOrchestrator, hubVars, driverVars
<1>e. Events(log[t]) \in Nat /\ Events(stream[t]) \in Nat
  <2>1. log[t] \in Seq(Kind)
    BY DEF Typed, HubTypes
  <2>. QED
    BY <1>c, <2>1, EventsCount
<1>f. orch[t] # "ended" => \A i \in DOMAIN stream[t] : stream[t][i] # "end"
  BY DEF Delivery, EndIsLast
<1>1. CASE Connect(t) \/ RequestHitl(t)
  <2>1. UNCHANGED <<orch, emitted, stream>>
    BY <1>1 DEF Connect, RequestHitl
  <2>. QED
    BY <1>b, <1>d, <2>1, UntouchedKeeps DEF Only, Untouched
\* The step of a live orchestrator: it yields words, or its driver left.
<1>2. ASSUME orch[t] \in Running \/ (orch[t] = "none" /\ driver[t] = "calling"),
             orch'[t] \in Running \/ orch'[t] = "ended",
             NEW w \in {<<>>, <<"event">>, <<"hitl">>, <<"end">>, <<"error", "end">>},
             stream'[t] = IF driver[t] \in Reading THEN stream[t] \o w ELSE stream[t],
             w \in {<<"end">>, <<"error", "end">>} => orch'[t] = "ended",
             emitted'[t] = IF w = <<"event">> THEN emitted[t] + 1 ELSE emitted[t],
             \A u \in Task \ {t} : orch'[u] = orch[u] /\ emitted'[u] = emitted[u]
                                   /\ stream'[u] = stream[u]
      PROVE  Only(t) /\ Delivery(t)'
  <2>0. orch[t] # "ended" /\ orch[t] # "dead" /\ orch'[t] # "none" /\ orch'[t] # "dead"
    BY <1>2, StepsAre
  <2>1. /\ Events(stream[t] \o w) = IF w = <<"event">> THEN Events(stream[t]) + 1 ELSE Events(stream[t])
        /\ \A i \in DOMAIN (stream[t] \o w) : (stream[t] \o w)[i] = "end" =>
             w \in {<<"end">>, <<"error", "end">>} /\ i = Len(stream[t] \o w)
    <3>1. CASE w = <<>>
      BY <3>1, <1>c, <1>f, <2>0
    <3>2. CASE w # <<>>
      BY <3>2, <1>2, <1>c, <1>f, <2>0, StreamGrows
    <3>. QED
      BY <3>1, <3>2
  <2>2. SilentUntilCalled(t)'
    BY <1>2, <1>d, <2>0, StepsAre DEF Delivery, SilentUntilCalled
  <2>3. EndIsLast(t)'
    BY <1>2, <1>f, <2>0, <2>1 DEF EndIsLast
  <2>4. NothingIsLost(t)'
    <3>1. CASE driver[t] \in Reading
      <4>1. Events(log[t]) + Events(stream[t]) = emitted[t]
        BY <2>0, <3>1 DEF Delivery, NothingIsLost
      <4>2. Events(stream'[t]) = IF w = <<"event">> THEN Events(stream[t]) + 1 ELSE Events(stream[t])
        BY <1>2, <2>1, <3>1
      <4>. QED
        BY <1>2, <1>d, <1>e, <4>1, <4>2 DEF NothingIsLost
    <3>2. CASE driver[t] \notin Reading
      BY <1>d, <3>2 DEF NothingIsLost
    <3>. QED
      BY <3>1, <3>2
  <2>5. OutcomeIsKnown(t)'
    <3>1. ~Complete(t)
      BY <2>0 DEF Complete
    <3>. QED
      BY <1>b, <1>d, <3>1 DEF Delivery, OutcomeIsKnown, Faulted
  <2>. QED
    BY <1>2, <1>d, <2>2, <2>3, <2>4, <2>5 DEF Delivery, Only, Untouched
<1>3. CASE StartOrchestrator(t)
  <2>1. /\ orch[t] = "none" /\ driver[t] = "calling" /\ orch'[t] = "planning"
        /\ UNCHANGED <<emitted, stream>> /\ \A u \in Task \ {t} : orch'[u] = orch[u]
    BY <1>a, <1>3 DEF StartOrchestrator
  <2>2. stream[t] \o <<>> = stream[t]
    BY <1>c
  <2>. QED
    BY <1>2, <2>1, <2>2, StepsAre
<1>4. CASE Emit(t)
  <2>1. /\ orch[t] \in Running /\ orch' = orch /\ emitted'[t] = emitted[t] + 1
        /\ Yield(t, <<"event">>) /\ \A u \in Task \ {t} : emitted'[u] = emitted[u]
    BY <1>a, <1>4, StepsAre DEF Emit, Idle
  <2>2. /\ stream'[t] = IF driver[t] \in Reading THEN stream[t] \o <<"event">> ELSE stream[t]
        /\ \A u \in Task \ {t} : stream'[u] = stream[u]
    BY <1>a, <2>1 DEF Yield
  <2>. QED
    BY <1>2, <2>1, <2>2
<1>5. CASE Decide(t) \/ ReturnCall(t) \/ EndOrchestrator(t)
  <2>1. orch[t] \in Running
    BY <1>5, StepsAre DEF Decide, EndOrchestrator, Idle, ReturnCall, CallsAreLive
  <2>2. emitted' = emitted /\ \A u \in Task \ {t} : orch'[u] = orch[u]
    BY <1>a, <1>5 DEF Decide, ReturnCall, EndOrchestrator
  <2>3. \/ orch'[t] \in Running /\ stream' = stream
        \/ orch'[t] \in Running /\ Yield(t, <<"hitl">>)
        \/ orch'[t] = "ended" /\ (Yield(t, <<"end">>) \/ Yield(t, <<"error", "end">>))
    BY <1>a, <1>5, StepsAre DEF Decide, ReturnCall, EndOrchestrator
  <2>4. ASSUME NEW w, Yield(t, w)
        PROVE  /\ stream'[t] = IF driver[t] \in Reading THEN stream[t] \o w ELSE stream[t]
               /\ \A u \in Task \ {t} : stream'[u] = stream[u]
    BY <1>a, <2>4 DEF Yield
  <2>5. CASE stream' = stream /\ orch'[t] \in Running
    <3>1. stream[t] \o <<>> = stream[t]
      BY <1>c
    <3>. QED
      BY <1>2, <2>1, <2>2, <2>5, <3>1
  <2>6. CASE orch'[t] \in Running /\ Yield(t, <<"hitl">>)
    BY <1>2, <2>1, <2>2, <2>4, <2>6
  <2>7. CASE orch'[t] = "ended" /\ Yield(t, <<"end">>)
    BY <1>2, <2>1, <2>2, <2>4, <2>7
  <2>8. CASE orch'[t] = "ended" /\ Yield(t, <<"error", "end">>)
    BY <1>2, <2>1, <2>2, <2>4, <2>8
  <2>. QED
    BY <2>3, <2>5, <2>6, <2>7, <2>8
<1>6. CASE LoseTail(t)
  <2>1. /\ orch[t] = "dead" /\ stream[t] # <<>> /\ stream'[t] = SubSeq(stream[t], 1, Len(stream[t]) - 1)
        /\ UNCHANGED <<orch, emitted>> /\ \A u \in Task \ {t} : stream'[u] = stream[u]
    BY <1>a, <1>6 DEF LoseTail, orchVars
  <2>2. \A i \in DOMAIN stream'[t] : i \in DOMAIN stream[t] /\ stream'[t][i] = stream[t][i]
    BY <1>c, <2>1
  <2>3. SilentUntilCalled(t)' /\ EndIsLast(t)' /\ NothingIsLost(t)'
    BY <1>d, <1>f, <2>1, <2>2 DEF Delivery, SilentUntilCalled, EndIsLast, NothingIsLost
  <2>4. OutcomeIsKnown(t)'
    BY <1>b, <1>d, <2>1 DEF Delivery, OutcomeIsKnown, Complete, Faulted
  <2>. QED
    BY <1>d, <2>1, <2>3, <2>4 DEF Delivery, Only, Untouched
<1>. QED
  BY <1>1, <1>3, <1>4, <1>5, <1>6 DEF OrchStep

LEMMA CallsAreLiveStep == Typed /\ CallsAreLive /\ [Next]_vars => CallsAreLive'
<1> SUFFICES ASSUME Typed, CallsAreLive, [Next]_vars PROVE CallsAreLive'
  OBVIOUS
<1>a. /\ orch \in [Task -> {"none", "ended", "dead"} \cup Running]
      /\ call \in [Task -> 0..Len(gates)]
  BY DEF Typed, OrchTypes
<1>1. CASE Elsewhere \/ UNCHANGED vars
  <2>1. UNCHANGED <<orch, call>>
    BY <1>1, OrchFrames DEF vars, orchVars
  <2>. QED
    BY <2>1 DEF CallsAreLive
<1>2. ASSUME NEW t \in Task, OrchStep(t) \/ GiveUp(t) PROVE CallsAreLive'
  <2>1. CASE StartOrchestrator(t) \/ Connect(t) \/ Emit(t) \/ Decide(t) \/ EndOrchestrator(t)
    BY <1>a, <2>1 DEF StartOrchestrator, Connect, Emit, Decide, EndOrchestrator, Idle, CallsAreLive
  <2>2. CASE RequestHitl(t) \/ ReturnCall(t) \/ GiveUp(t)
    BY <1>a, <2>2 DEF RequestHitl, ReturnCall, GiveUp, Idle, CallsAreLive
  <2>. QED
    BY <1>2, <2>1, <2>2 DEF OrchStep
<1>3. CASE Crash
  BY <1>a, <1>3, StepsAre DEF Crash, CallsAreLive
<1>. QED
  BY <1>1, <1>2, <1>3, NextByOrchestrator

LEMMA DeliveryStep ==
  ASSUME Typed, Unspawned, DeliveryInv, [Next]_vars
  PROVE  DeliveryInv'
<1>. DEFINE Kept == \A u \in Task : Delivery(u)'
<1>0. KillsAreKept' /\ KillsGrow /\ CallsAreLive'
  BY KillStep, CallsAreLiveStep DEF DeliveryInv
<1>a. /\ log \in [Task -> Seq(Kind)] /\ tx \in [Task -> {"none", "open", "dropped"}]
      /\ stopped \in [Task -> BOOLEAN] /\ target \in [Operator -> Task \cup {None}]
      /\ orch \in [Task -> {"none", "ended", "dead"} \cup Running]
  BY DEF Typed, HubTypes, OrchTypes
<1>1. ASSUME NEW t \in Task, Only(t), Delivery(t)' PROVE Kept
  <2>1. ASSUME NEW u \in Task, u # t PROVE Delivery(u)'
    <3>1. Untouched(u) /\ Delivery(u)
      BY <1>1, <2>1 DEF Only, DeliveryInv
    <3>. QED
      BY <3>1, <1>0, UntouchedKeeps DEF KillsGrow
  <2>. QED
    BY <1>1, <2>1
<1>2. ASSUME UNCHANGED <<driver, orch, emitted, stream, log, stopped, tx>> PROVE Kept
  <2>1. ASSUME NEW u \in Task PROVE Delivery(u)'
    <3>1. Untouched(u) /\ Delivery(u)
      BY <1>2 DEF Untouched, DeliveryInv
    <3>. QED
      BY <3>1, <1>0, UntouchedKeeps DEF KillsGrow
  <2>. QED
    BY <2>1
<1>3. ASSUME NEW t \in Task, DriverStep(t) \/ Spawn(t) PROVE Kept
  BY <1>0, <1>1, <1>3, DriverDelivers DEF DeliveryInv
<1>4. ASSUME NEW t \in Task, OrchStep(t) \/ LoseTail(t) PROVE Kept
  BY <1>0, <1>1, <1>4, OrchestratorDelivers DEF DeliveryInv
<1>5. ASSUME NEW t \in Task,
             \/ PrepareFails(t) \/ RegisterAbort(t) \/ Bind(t) \/ GiveUp(t) \/ PushMessage(t)
             \/ \E a \in {"allow", "deny"} : ResolveHitl(t, a)
      PROVE  UNCHANGED <<driver, orch, emitted, stream, log, stopped, tx>>
  BY <1>5 DEF PrepareFails, RegisterAbort, Bind, GiveUp, PushMessage, ResolveHitl, hubVars,
     driverVars, orchVars
<1>6. ASSUME NEW g, GateStep(g) PROVE UNCHANGED <<driver, orch, emitted, stream, log, stopped, tx>>
  BY <1>6 DEF GateStep, RunTool, Expire, DropCall, hubVars, driverVars, orchVars
<1>7. ASSUME UNCHANGED vars PROVE Kept
  BY <1>2, <1>7 DEF vars, hubVars, driverVars, orchVars
<1>8. ASSUME NEW t \in Task, Subscribe(t) \/ EchoMessage(t) \/ NewTask(t)
      PROVE  Kept
  <2>1. Delivery(t) /\ (Killed(t) => Killed(t)')
    BY <1>0 DEF DeliveryInv, KillsGrow
  <2>2. CASE Subscribe(t)
    <3>1. /\ tx'[t] = "open" /\ \A u \in Task \ {t} : tx'[u] = tx[u]
          /\ UNCHANGED <<driver, orch, emitted, stream, log, stopped>>
      BY <1>a, <2>2 DEF Subscribe, driverVars, orchVars
    <3>2. Delivery(t)'
      BY <2>1, <3>1 DEF Delivery, SilentUntilCalled, EndIsLast, NothingIsLost, OutcomeIsKnown,
         Complete, Faulted
    <3>3. Only(t)
      BY <3>1 DEF Only, Untouched
    <3>. QED
      BY <1>1, <3>2, <3>3
  <2>3. CASE EchoMessage(t)
    <3>1. UNCHANGED <<driver, orch, emitted, stream, stopped, tx>> /\ Publish(t, "chat")
      BY <2>3 DEF EchoMessage, driverVars, orchVars
    <3>2. Only(t) /\ Events(log'[t]) = Events(log[t]) /\ (Faulted(t) => Faulted(t)')
      <4>1. "chat" \in Kind
        BY DEF Kind
      <4>. QED
        BY <3>1, <4>1, LoggedWord DEF Only, Untouched
    <3>3. Delivery(t)'
      BY <2>1, <3>1, <3>2 DEF Delivery, SilentUntilCalled, EndIsLast, NothingIsLost,
         OutcomeIsKnown, Complete
    <3>. QED
      BY <1>1, <3>2, <3>3
  <2>4. CASE NewTask(t)
    <3>1. /\ tx'[t] = "open" /\ log'[t] = <<>> /\ stopped'[t] = FALSE /\ driver[t] = "none"
          /\ \A u \in Task \ {t} : tx'[u] = tx[u] /\ log'[u] = log[u] /\ stopped'[u] = stopped[u]
          /\ UNCHANGED <<driver, orch, emitted, stream>>
      BY <1>a, <2>4 DEF NewTask, orchVars, Unspawned
    <3>2. SilentUntilCalled(t)' /\ EndIsLast(t)'
      BY <2>1, <3>1, EventsOfEmpty DEF Delivery, SilentUntilCalled, EndIsLast
    <3>3. NothingIsLost(t)' /\ OutcomeIsKnown(t)'
      BY <3>1, StepsAre DEF NothingIsLost, OutcomeIsKnown
    <3>4. Only(t)
      BY <3>1 DEF Only, Untouched
    <3>. QED
      BY <1>1, <3>2, <3>3, <3>4 DEF Delivery
  <2>. QED
    BY <1>8, <2>2, <2>3, <2>4
<1>9. ASSUME NEW t \in Task, NEW o \in Operator, MarkStopped(o, t) PROVE Kept
  <2>1. /\ stopped'[t] = TRUE /\ \A u \in Task \ {t} : stopped'[u] = stopped[u]
        /\ target'[o] = t /\ UNCHANGED <<driver, orch, emitted, stream, log, tx>>
    BY <1>a, <1>9 DEF MarkStopped, orchVars
  <2>2. Killed(t)'
    BY <2>1 DEF Killed
  <2>3. Delivery(t)
    BY DEF DeliveryInv
  <2>4. Delivery(t)'
    BY <2>1, <2>2, <2>3 DEF Delivery, SilentUntilCalled, EndIsLast, NothingIsLost, OutcomeIsKnown,
       Complete, Faulted
  <2>5. Only(t)
    BY <2>1 DEF Only, Untouched
  <2>. QED
    BY <1>1, <2>4, <2>5
<1>10. ASSUME NEW o \in Operator, StopStep(o) PROVE Kept
  <2>1. PICK t \in Task : t = target[o] /\ Killed(t)
    BY <1>a, <1>10 DEF StopStep, PublishStop, CloseStopped, Typed, Connected, Killed
  <2>2. Delivery(t) /\ Killed(t)'
    BY <2>1, <1>0 DEF DeliveryInv, KillsGrow
  <2>3. CASE PublishStop(o)
    <3>1. UNCHANGED <<driver, orch, emitted, stream, stopped, tx>> /\ Publish(t, "killed")
      BY <2>1, <2>3 DEF PublishStop, driverVars, orchVars
    <3>2. Only(t) /\ Events(log'[t]) = Events(log[t]) /\ (Faulted(t) => Faulted(t)')
      <4>1. "killed" \in Kind
        BY DEF Kind
      <4>. QED
        BY <2>1, <3>1, <4>1, LoggedWord DEF Only, Untouched
    <3>3. Delivery(t)'
      BY <2>2, <3>1, <3>2 DEF Delivery, SilentUntilCalled, EndIsLast, NothingIsLost,
         OutcomeIsKnown, Complete
    <3>. QED
      BY <1>1, <2>1, <3>2, <3>3
  <2>4. CASE CloseStopped(o)
    <3>1. /\ \A u \in Task \ {t} : tx'[u] = tx[u]
          /\ UNCHANGED <<driver, orch, emitted, stream, log, stopped>>
      BY <1>a, <2>1, <2>4 DEF CloseStopped, driverVars, orchVars
    <3>2. Delivery(t)'
      BY <2>2, <3>1 DEF Delivery, SilentUntilCalled, EndIsLast, NothingIsLost, OutcomeIsKnown,
         Complete, Faulted
    <3>3. Only(t)
      BY <3>1 DEF Only, Untouched
    <3>. QED
      BY <1>1, <2>1, <3>2, <3>3
  <2>. QED
    BY <1>10, <2>3, <2>4 DEF StopStep
<1>11. ASSUME Crash PROVE Kept
  <2>1. /\ UNCHANGED <<driver, emitted, stream, log, stopped, tx>>
        /\ \A u \in Task : orch'[u] = IF orch[u] \in Running THEN "dead" ELSE orch[u]
    BY <1>11 DEF Crash, hubVars, driverVars
  <2>2. ASSUME NEW u \in Task PROVE Delivery(u)'
    <3>1. CASE orch[u] \notin Running
      <4>1. Untouched(u) /\ Delivery(u)
        BY <2>1, <3>1 DEF Untouched, DeliveryInv
      <4>. QED
        BY <4>1, <1>0, UntouchedKeeps DEF KillsGrow
    <3>2. CASE orch[u] \in Running
      <4>1. orch'[u] = "dead" /\ orch[u] # "ended" /\ orch[u] # "none" /\ Delivery(u)
        BY <2>1, <3>2, StepsAre DEF DeliveryInv
      <4>2. SilentUntilCalled(u)' /\ EndIsLast(u)' /\ NothingIsLost(u)'
        BY <2>1, <4>1 DEF Delivery, SilentUntilCalled, EndIsLast, NothingIsLost
      <4>3. OutcomeIsKnown(u)'
        BY <1>0, <2>1, <4>1 DEF Delivery, OutcomeIsKnown, Complete, Faulted, KillsGrow
      <4>. QED
        BY <4>2, <4>3 DEF Delivery
    <3>. QED
      BY <3>1, <3>2
  <2>. QED
    BY <2>2
<1>. HIDE DEF Kept
<1>12. Kept
  BY <1>2, <1>3, <1>4, <1>5, <1>6, <1>7, <1>8, <1>9, <1>10, <1>11 DEF Next, HandlerStep
<1>. QED
  BY <1>0, <1>12 DEF DeliveryInv, Kept

\* A stream that closed without an error and without a kill request is that of an
\* orchestrator that ended, and every event it yielded was published.
THEOREM ClosedStreamsAreComplete == Spec => []ClosedMeansComplete
<1>1. Init => DeliveryInv
  <2> SUFFICES ASSUME Init PROVE DeliveryInv
    OBVIOUS
  <2>1. KillsAreKept /\ CallsAreLive
    BY DEF Init, KillsAreKept, CallsAreLive
  <2>2. ASSUME NEW t \in Task PROVE Delivery(t)
    BY EventsOfEmpty, StepsAre DEF Init, Delivery, SilentUntilCalled, EndIsLast, NothingIsLost,
       OutcomeIsKnown
  <2>. QED
    BY <2>1, <2>2 DEF DeliveryInv
<1>2. DeliveryInv => ClosedMeansComplete
  BY DEF DeliveryInv, Delivery, OutcomeIsKnown, ClosedMeansComplete, Complete, Count, Events, Killed
<1>. QED
  BY <1>1, <1>2, DeliveryStep, TypedAlways, UnspawnedAlways, PTL DEF Spec
=============================================================================
