------------------------------- MODULE SquadHub -------------------------------
(***************************************************************************)
(* Live squads of the web agent (forge-cli/src/squad_agent.rs): the hub of *)
(* tasks, the driver that runs one task, the kill switch, and what they    *)
(* share: one core socket and one squad process.                           *)
(*                                                                         *)
(* A driver serves the task's callbacks on the socket, leases the process, *)
(* starts the Python orchestrator in it and publishes the events that it   *)
(* streams.  The orchestrator calls back for permissions and tools, which  *)
(* wait at a gate for a human.  The kill switch aborts the driver; the     *)
(* orchestrator is not told.                                               *)
(*                                                                         *)
(* Events are kinds: what the orchestrator says ("event"), its notice of   *)
(* the plan gate ("hitl"), its error, the driver's failure, the kill       *)
(* switch's notice, a user's chat.                                         *)
(***************************************************************************)
EXTENDS Naturals, Sequences, FiniteSets

CONSTANTS
  Task, None,
  Operator,     \* requests of the kill switch, one each
  Acquire,      \* how the pool's acquire may end: "lease", "error", "panic"
  Early,        \* bound: ids somebody subscribes to before they exist
  MaxEvents,    \* bound: events of one orchestrator
  MaxGates,     \* bound: gates of a behaviour
  MaxMessages   \* bound: messages of the user per task

ASSUME HubAssumption ==
  /\ None \notin Task /\ Early \subseteq Task
  /\ Acquire \subseteq {"lease", "error", "panic"}
  /\ MaxEvents \in Nat /\ MaxGates \in Nat /\ MaxMessages \in Nat

VARIABLES
  \* SquadTaskState; tx is "none" while the hub has no such task
  log, tx, pending, inbox, stopped, abort,
  handler,    \* run_squad_handler's step for each task
  driver,     \* run_squad_task's step for each task
  aborted,    \* the driver's abort() was called
  stop, target,    \* each kill-switch request's step and task
  core, owner,     \* each task's core server, and whose the socket path is
  lease,      \* the task that leases the process
  stream,     \* events on their way from orchestrator to driver
  orch, emitted,   \* the orchestrator's step and its events so far
  conn,       \* whose core server its channel is connected to
  call,       \* the gate it waits at, or 0
  gates       \* every gate so far

hubVars    == <<log, tx, pending, inbox, stopped, abort>>
driverVars == <<handler, driver, aborted, core, owner, lease>>
stopVars   == <<stop, target>>
orchVars   == <<orch, emitted, conn, call>>
vars == <<hubVars, driverVars, stopVars, orchVars, stream, gates>>

Kind == {"event", "hitl", "error", "failure", "killed", "chat"}

\* Where the driver awaits: only there does an abort take effect.
Awaiting == {"binding", "acquiring", "calling", "receiving"}
Reading  == {"calling", "checking", "receiving", "publishing"}
Over     == {"ended", "aborted", "panicked"}
Running  == {"planning", "asking", "executing"}

\* A gate: whose orchestrator asks, in which task's state, for what, and the
\* answer.  A tool that is allowed runs.
Gate == [by : Task, at : Task, kind : {"plan", "tool"},
         status : {"waiting", "allow", "deny", "expired", "abandoned", "ran"}]

Init ==
  /\ log = [t \in Task |-> <<>>]
  /\ tx = [t \in Task |-> "none"]
  /\ pending = [t \in Task |-> 0]
  /\ inbox = [t \in Task |-> 0]
  /\ stopped = [t \in Task |-> FALSE]
  /\ abort = [t \in Task |-> FALSE]
  /\ handler = [t \in Task |-> "idle"]
  /\ driver = [t \in Task |-> "none"]
  /\ aborted = [t \in Task |-> FALSE]
  /\ stop = [o \in Operator |-> "idle"]
  /\ target = [o \in Operator |-> None]
  /\ core = [t \in Task |-> "none"]
  /\ owner = None
  /\ lease = None
  /\ stream = [t \in Task |-> <<>>]
  /\ orch = [t \in Task |-> "none"]
  /\ emitted = [t \in Task |-> 0]
  /\ conn = [t \in Task |-> None]
  /\ call = [t \in Task |-> 0]
  /\ gates = <<>>

Count(kind, t) == Cardinality({i \in DOMAIN log[t] : log[t][i] = kind})

Publish(t, kind) == log' = [log EXCEPT ![t] = Append(@, kind)]

DriverGoes(t, from, to) ==
  /\ driver[t] = from
  /\ driver' = [driver EXCEPT ![t] = to]

\* A gate that is still waited for gets an answer; the receiver of another is gone.
Answered(g, a) ==
  IF g # 0 /\ gates[g].status = "waiting" THEN [gates EXCEPT ![g].status = a] ELSE gates

\* run_squad_task_inner returns: the lease goes back, and nobody reads the stream.
LeaveInner(t) ==
  /\ lease' = IF lease = t THEN None ELSE lease
  /\ stream' = [stream EXCEPT ![t] = <<>>]

\* core_task.abort(), on the paths that reach it: the socket file stays, refused.
StopCore(t) ==
  /\ core' = [core EXCEPT ![t] = "ended"]
  /\ owner' = IF owner = t THEN None ELSE owner

-----------------------------------------------------------------------------
(* Faulty variants, one plausible slip each; no specification uses them.      *)

\* The number of the pending gate is one ahead.
RequestHitl_Ahead(t) ==
  LET g == Len(gates) + 1
  IN /\ orch[t] \in {"asking", "executing"} /\ call[t] = 0 /\ g <= MaxGates
     /\ gates' = Append(gates, [by |-> t, at |-> conn[t], kind |-> "tool", status |-> "waiting"])
     /\ pending' = [pending EXCEPT ![conn[t]] = g + 1]
     /\ call' = [call EXCEPT ![t] = g]
     /\ UNCHANGED <<log, tx, inbox, stopped, abort, driverVars, stopVars,
                    orch, emitted, conn, stream>>

\* The responder that is replaced lives on.
RequestHitl_KeepsOld(t) ==
  LET g == Len(gates) + 1
  IN /\ orch[t] \in {"asking", "executing"} /\ call[t] = 0 /\ g <= MaxGates
     /\ gates' = Append(gates, [by |-> t, at |-> conn[t], kind |-> "tool", status |-> "waiting"])
     /\ pending' = [pending EXCEPT ![conn[t]] = g]
     /\ call' = [call EXCEPT ![t] = g]
     /\ UNCHANGED <<log, tx, inbox, stopped, abort, driverVars, stopVars,
                    orch, emitted, conn, stream>>

\* register_abort does not look whether the task was stopped before.
RegisterAbort_Unchecked(t) ==
  /\ handler[t] = "spawned"
  /\ handler' = [handler EXCEPT ![t] = "done"]
  /\ abort' = [abort EXCEPT ![t] = TRUE]
  /\ UNCHANGED <<log, tx, pending, inbox, stopped, driver, aborted, core, owner, lease,
                 stopVars, orchVars, stream, gates>>

\* A broken stream is taken for its end.
Receive_BreakIsEnd(t) ==
  /\ \/ /\ stream[t] # <<>> /\ Head(stream[t]) # "end"
        /\ DriverGoes(t, "receiving", "publishing")
        /\ UNCHANGED <<core, owner, lease, stream>>
     \/ /\ IF stream[t] = <<>> THEN orch[t] = "dead" ELSE Head(stream[t]) = "end"
        /\ DriverGoes(t, "receiving", "succeeded")
        /\ StopCore(t) /\ LeaveInner(t)
  /\ UNCHANGED <<hubVars, handler, aborted, stopVars, orchVars, gates>>

\* The kill switch leaves the pending gate to its timeout.
MarkStopped_LeavesGate(o, t) ==
  /\ stop[o] = "idle" /\ tx[t] # "none"
  /\ stop' = [stop EXCEPT ![o] = "marked"]
  /\ target' = [target EXCEPT ![o] = t]
  /\ stopped' = [stopped EXCEPT ![t] = TRUE]
  /\ aborted' = [aborted EXCEPT ![t] = @ \/ abort[t]]
  /\ abort' = [abort EXCEPT ![t] = FALSE]
  /\ UNCHANGED <<log, tx, pending, inbox, handler, driver, core, owner, lease, orchVars,
                 stream, gates>>

\* A caller enters the process that another still uses.
AcquireLease_Unchecked(t) ==
  /\ "lease" \in Acquire
  /\ DriverGoes(t, "acquiring", "calling")
  /\ lease' = t
  /\ UNCHANGED <<hubVars, handler, aborted, core, owner, stopVars, orchVars, stream, gates>>

\* The error path returns before finish_task.
JudgeOutcome_NoClose(t) ==
  /\ \/ DriverGoes(t, "succeeded", "closing")
     \/ DriverGoes(t, "failed", IF stopped[t] THEN "ended" ELSE "reporting")
     \/ DriverGoes(t, "failed", "ended")
  /\ UNCHANGED <<hubVars, handler, aborted, core, owner, lease, stopVars, orchVars, stream, gates>>

-----------------------------------------------------------------------------
(* run_squad_handler *)

\* subscribe makes the state of an id nobody created; ids are consecutive.
Subscribe(t) ==
  /\ tx[t] = "none" /\ t \in Early
  /\ tx' = [tx EXCEPT ![t] = "open"]
  /\ UNCHANGED <<log, pending, inbox, stopped, abort, driverVars, stopVars, orchVars, stream, gates>>

\* A new id, whose state overwrites what a subscriber made.
NewTask(t) ==
  /\ handler[t] = "idle"
  /\ handler' = [handler EXCEPT ![t] = "created"]
  /\ tx' = [tx EXCEPT ![t] = "open"]
  /\ log' = [log EXCEPT ![t] = <<>>]
  /\ inbox' = [inbox EXCEPT ![t] = 0]
  /\ pending' = [pending EXCEPT ![t] = 0]
  /\ stopped' = [stopped EXCEPT ![t] = FALSE]
  /\ abort' = [abort EXCEPT ![t] = FALSE]
  /\ UNCHANGED <<driver, aborted, core, owner, lease, stopVars, orchVars, stream, gates>>

\* No provider: 503, and the state stays.
PrepareFails(t) ==
  /\ handler[t] = "created"
  /\ handler' = [handler EXCEPT ![t] = "refused"]
  /\ UNCHANGED <<hubVars, driver, aborted, core, owner, lease, stopVars, orchVars, stream, gates>>

Spawn(t) ==
  /\ handler[t] = "created"
  /\ handler' = [handler EXCEPT ![t] = "spawned"]
  /\ DriverGoes(t, "none", "binding")
  /\ core' = [core EXCEPT ![t] = "starting"]
  /\ UNCHANGED <<hubVars, aborted, owner, lease, stopVars, orchVars, stream, gates>>

\* A task stopped before its handle is registered is aborted here.
RegisterAbort(t) ==
  /\ handler[t] = "spawned"
  /\ handler' = [handler EXCEPT ![t] = "done"]
  /\ \/ /\ stopped[t]
        /\ aborted' = [aborted EXCEPT ![t] = TRUE]
        /\ UNCHANGED abort
     \/ /\ ~stopped[t]
        /\ abort' = [abort EXCEPT ![t] = TRUE]
        /\ UNCHANGED aborted
  /\ UNCHANGED <<log, tx, pending, inbox, stopped, driver, core, owner, lease,
                 stopVars, orchVars, stream, gates>>

-----------------------------------------------------------------------------
(* run_squad_task *)

\* serve_core, a task of its own: it removes the socket file and binds it anew.
Bind(t) ==
  /\ core[t] = "starting"
  /\ core' = [core EXCEPT ![t] = "serving"]
  /\ owner' = t
  /\ UNCHANGED <<hubVars, handler, driver, aborted, lease, stopVars, orchVars, stream, gates>>

\* The socket file exists, were it another task's, or two seconds passed; then
\* /verify runs.
Verify(t) ==
  /\ \/ DriverGoes(t, "binding", "acquiring")
     \/ DriverGoes(t, "binding", "failed")
  /\ UNCHANGED <<hubVars, handler, aborted, core, owner, lease, stopVars, orchVars, stream, gates>>

\* pool.acquire, of a pool of one.
AcquireLease(t) ==
  /\ \/ /\ "lease" \in Acquire /\ lease = None
        /\ DriverGoes(t, "acquiring", "calling")
        /\ lease' = t
     \/ /\ "error" \in Acquire
        /\ DriverGoes(t, "acquiring", "failed")
        /\ UNCHANGED lease
     \/ /\ "panic" \in Acquire
        /\ DriverGoes(t, "acquiring", "panicked")
        /\ UNCHANGED lease
  /\ UNCHANGED <<hubVars, handler, aborted, core, owner, stopVars, orchVars, stream, gates>>

\* ExecuteTask reaches the process, which starts an orchestrator.
StartOrchestrator(t) ==
  /\ driver[t] = "calling"
  /\ orch[t] = "none"
  /\ orch' = [orch EXCEPT ![t] = "planning"]
  /\ UNCHANGED <<hubVars, driverVars, stopVars, emitted, conn, call, stream, gates>>

\* execute_task returns with the first event, or with an error.
ExecuteTask(t) ==
  /\ \/ /\ stream[t] # <<>>
        /\ DriverGoes(t, "calling", "checking")
        /\ UNCHANGED <<lease, stream>>
     \/ /\ orch[t] \in {"none", "dead"} /\ stream[t] = <<>>
        /\ DriverGoes(t, "calling", "failed")
        /\ LeaveInner(t)
  /\ UNCHANGED <<hubVars, handler, aborted, core, owner, stopVars, orchVars, gates>>

\* The loop's is_stopped.
CheckStopped(t) ==
  /\ \/ /\ stopped[t]
        /\ DriverGoes(t, "checking", "failed")
        /\ LeaveInner(t)
     \/ /\ ~stopped[t]
        /\ DriverGoes(t, "checking", "receiving")
        /\ UNCHANGED <<lease, stream>>
  /\ UNCHANGED <<hubVars, handler, aborted, core, owner, stopVars, orchVars, gates>>

\* stream.message().await: an event, the end of the stream, or its break.
Receive(t) ==
  /\ \/ /\ stream[t] # <<>> /\ Head(stream[t]) # "end"
        /\ DriverGoes(t, "receiving", "publishing")
        /\ UNCHANGED <<core, owner, lease, stream>>
     \/ /\ stream[t] # <<>> /\ Head(stream[t]) = "end"
        /\ DriverGoes(t, "receiving", "succeeded")
        /\ StopCore(t) /\ LeaveInner(t)
     \/ /\ stream[t] = <<>> /\ orch[t] = "dead"
        /\ DriverGoes(t, "receiving", "failed")
        /\ StopCore(t) /\ LeaveInner(t)
  /\ UNCHANGED <<hubVars, handler, aborted, stopVars, orchVars, gates>>

PublishEvent(t) ==
  /\ driver[t] = "publishing"
  /\ Publish(t, Head(stream[t]))
  /\ \/ /\ Head(stream[t]) # "error"
        /\ DriverGoes(t, "publishing", "checking")
        /\ stream' = [stream EXCEPT ![t] = Tail(@)]
        /\ UNCHANGED <<core, owner, lease>>
     \/ /\ Head(stream[t]) = "error"
        /\ DriverGoes(t, "publishing", "failed")
        /\ StopCore(t) /\ LeaveInner(t)
  /\ UNCHANGED <<tx, pending, inbox, stopped, abort, handler, aborted, stopVars, orchVars, gates>>

\* An error is not reported again if the kill switch did.
JudgeOutcome(t) ==
  /\ \/ DriverGoes(t, "succeeded", "closing")
     \/ DriverGoes(t, "failed", IF stopped[t] THEN "closing" ELSE "reporting")
  /\ UNCHANGED <<hubVars, handler, aborted, core, owner, lease, stopVars, orchVars, stream, gates>>

ReportFailure(t) ==
  /\ DriverGoes(t, "reporting", "closing")
  /\ Publish(t, "failure")
  /\ UNCHANGED <<tx, pending, inbox, stopped, abort, handler, aborted, core, owner, lease,
                 stopVars, orchVars, stream, gates>>

\* finish_task
Close(t) ==
  /\ DriverGoes(t, "closing", "ended")
  /\ tx' = [tx EXCEPT ![t] = "dropped"]
  /\ UNCHANGED <<log, pending, inbox, stopped, abort, handler, aborted, core, owner, lease,
                 stopVars, orchVars, stream, gates>>

\* The abort takes effect: the driver is dropped with its lease and its stream,
\* while the core server, a task of its own, goes on.
Cancelled(t) ==
  /\ aborted[t] /\ driver[t] \in Awaiting
  /\ driver' = [driver EXCEPT ![t] = "aborted"]
  /\ LeaveInner(t)
  /\ UNCHANGED <<hubVars, handler, aborted, core, owner, stopVars, orchVars, gates>>

-----------------------------------------------------------------------------
(* The orchestrator, a task of the squad process *)

Idle(t, steps) == orch[t] \in steps /\ call[t] = 0

\* queue.put, towards a driver that may have left.
Yield(t, events) ==
  stream' = IF driver[t] \in Reading THEN [stream EXCEPT ![t] = @ \o events] ELSE stream

\* The first Generate connects the channel to whoever serves the path.
Connect(t) ==
  /\ Idle(t, {"planning"})
  /\ conn[t] = None /\ owner # None
  /\ conn' = [conn EXCEPT ![t] = owner]
  /\ UNCHANGED <<hubVars, driverVars, stopVars, orch, emitted, call, stream, gates>>

Emit(t) ==
  /\ Idle(t, {"planning", "executing"})
  /\ conn[t] # None /\ emitted[t] < MaxEvents
  /\ emitted' = [emitted EXCEPT ![t] = @ + 1]
  /\ Yield(t, <<"event">>)
  /\ UNCHANGED <<hubVars, driverVars, stopVars, orch, conn, call, gates>>

\* After the consensus: a weak one is announced before the plan gate.
Decide(t) ==
  /\ Idle(t, {"planning"}) /\ conn[t] # None
  /\ \/ /\ orch' = [orch EXCEPT ![t] = "executing"]
        /\ UNCHANGED stream
     \/ /\ orch' = [orch EXCEPT ![t] = "asking"]
        /\ Yield(t, <<"hitl">>)
  /\ UNCHANGED <<hubVars, driverVars, stopVars, emitted, conn, call, gates>>

\* RequestPermission, or RunTool of a tool under Ask: request_hitl replaces the
\* pending gate of the task whose backend it reached, and drops its responder.
RequestHitl(t) ==
  LET g == Len(gates) + 1
      h == conn[t]
      k == IF orch[t] = "asking" THEN "plan" ELSE "tool"
  IN /\ Idle(t, {"asking", "executing"})
     /\ g <= MaxGates
     /\ gates' = Append(Answered(pending[h], "deny"),
                        [by |-> t, at |-> h, kind |-> k, status |-> "waiting"])
     /\ pending' = [pending EXCEPT ![h] = g]
     /\ call' = [call EXCEPT ![t] = g]
     /\ UNCHANGED <<log, tx, inbox, stopped, abort, driverVars, stopVars,
                    orch, emitted, conn, stream>>

\* The tool of an allowed gate runs, even if its caller gave up.
RunTool(g) ==
  /\ g \in DOMAIN gates
  /\ gates[g].kind = "tool" /\ gates[g].status = "allow"
  /\ gates' = [gates EXCEPT ![g].status = "ran"]
  /\ UNCHANGED <<hubVars, driverVars, stopVars, orchVars, stream>>

\* The answer reaches the orchestrator: a rejected plan ends it.
ReturnCall(t) ==
  LET g == call[t]
  IN /\ g # 0
     /\ \/ gates[g].status \in {"deny", "expired", "ran"}
        \/ gates[g].kind = "plan" /\ gates[g].status = "allow"
     /\ call' = [call EXCEPT ![t] = 0]
     /\ \/ /\ gates[g].kind = "plan" /\ gates[g].status # "allow"
           /\ orch' = [orch EXCEPT ![t] = "ended"]
           /\ Yield(t, <<"end">>)
        \/ /\ ~(gates[g].kind = "plan" /\ gates[g].status # "allow")
           /\ orch' = [orch EXCEPT ![t] = "executing"]
           /\ UNCHANGED stream
     /\ UNCHANGED <<hubVars, driverVars, stopVars, emitted, conn, gates>>

\* The developer's wait_for cancels the call it waits at.
GiveUp(t) ==
  /\ call[t] # 0 /\ gates[call[t]].kind = "tool"
  /\ call' = [call EXCEPT ![t] = 0]
  /\ UNCHANGED <<hubVars, driverVars, stopVars, orch, emitted, conn, stream, gates>>

EndOrchestrator(t) ==
  /\ Idle(t, Running)
  /\ orch' = [orch EXCEPT ![t] = "ended"]
  /\ \/ orch[t] = "executing" /\ Yield(t, <<"end">>)
     \/ Yield(t, <<"error", "end">>)
  /\ UNCHANGED <<hubVars, driverVars, stopVars, emitted, conn, call, gates>>

\* External: the process dies, and with it every orchestrator in it.
Crash ==
  /\ \E t \in Task : orch[t] \in Running
  /\ orch' = [t \in Task |-> IF orch[t] \in Running THEN "dead" ELSE orch[t]]
  /\ call' = [t \in Task |-> IF orch[t] \in Running THEN 0 ELSE call[t]]
  /\ UNCHANGED <<hubVars, driverVars, stopVars, emitted, conn, stream, gates>>

\* External: what a dead process had not sent is lost.
LoseTail(t) ==
  /\ orch[t] = "dead" /\ stream[t] # <<>> /\ driver[t] # "publishing"
  /\ stream' = [stream EXCEPT ![t] = SubSeq(@, 1, Len(@) - 1)]
  /\ UNCHANGED <<hubVars, driverVars, stopVars, orchVars, gates>>

-----------------------------------------------------------------------------
(* Gates, and those who answer *)

\* tokio's timeout fires; the pending gate stays.
Expire(g) ==
  /\ g \in DOMAIN gates /\ gates[g].status = "waiting"
  /\ gates' = Answered(g, "expired")
  /\ UNCHANGED <<hubVars, driverVars, stopVars, orchVars, stream>>

\* The call was cancelled or its process died: the server drops its handler.
DropCall(g) ==
  /\ g \in DOMAIN gates /\ gates[g].status \in {"waiting", "allow"}
  /\ call[gates[g].by] # g
  /\ gates' = [gates EXCEPT ![g].status = "abandoned"]
  /\ UNCHANGED <<hubVars, driverVars, stopVars, orchVars, stream>>

\* resolve_hitl: it names a task, never a gate.
ResolveHitl(t, a) ==
  /\ pending[t] # 0
  /\ pending' = [pending EXCEPT ![t] = 0]
  /\ gates' = Answered(pending[t], a)
  /\ UNCHANGED <<log, tx, inbox, stopped, abort, driverVars, stopVars, orchVars, stream>>

\* push_user_message, in two critical sections; nothing in the program reads inbox.
PushMessage(t) ==
  /\ tx[t] # "none" /\ inbox[t] < MaxMessages
  /\ inbox' = [inbox EXCEPT ![t] = @ + 1]
  /\ UNCHANGED <<log, tx, pending, stopped, abort, driverVars, stopVars, orchVars, stream, gates>>

EchoMessage(t) ==
  /\ Count("chat", t) < inbox[t]
  /\ Publish(t, "chat")
  /\ UNCHANGED <<tx, pending, inbox, stopped, abort, driverVars, stopVars, orchVars, stream, gates>>

\* emergency_stop, in three critical sections: mark and abort, publish, close.
MarkStopped(o, t) ==
  /\ stop[o] = "idle" /\ tx[t] # "none"
  /\ stop' = [stop EXCEPT ![o] = "marked"]
  /\ target' = [target EXCEPT ![o] = t]
  /\ stopped' = [stopped EXCEPT ![t] = TRUE]
  /\ aborted' = [aborted EXCEPT ![t] = @ \/ abort[t]]
  /\ abort' = [abort EXCEPT ![t] = FALSE]
  /\ pending' = [pending EXCEPT ![t] = 0]
  /\ gates' = Answered(pending[t], "deny")
  /\ UNCHANGED <<log, tx, inbox, handler, driver, core, owner, lease, orchVars, stream>>

PublishStop(o) ==
  /\ stop[o] = "marked"
  /\ stop' = [stop EXCEPT ![o] = "published"]
  /\ Publish(target[o], "killed")
  /\ UNCHANGED <<tx, pending, inbox, stopped, abort, driverVars, target, orchVars, stream, gates>>

CloseStopped(o) ==
  /\ stop[o] = "published"
  /\ stop' = [stop EXCEPT ![o] = "done"]
  /\ tx' = [tx EXCEPT ![target[o]] = "dropped"]
  /\ UNCHANGED <<log, pending, inbox, stopped, abort, driverVars, target, orchVars, stream, gates>>

-----------------------------------------------------------------------------
DriverStep(t) ==
  \/ Verify(t) \/ AcquireLease(t) \/ ExecuteTask(t) \/ CheckStopped(t) \/ Receive(t)
  \/ PublishEvent(t) \/ JudgeOutcome(t) \/ ReportFailure(t) \/ Close(t) \/ Cancelled(t)

HandlerStep(t) == Spawn(t) \/ PrepareFails(t) \/ RegisterAbort(t)

OrchStep(t) ==
  \/ StartOrchestrator(t) \/ Connect(t) \/ Emit(t) \/ Decide(t) \/ RequestHitl(t)
  \/ ReturnCall(t) \/ EndOrchestrator(t)

GateStep(g) == RunTool(g) \/ Expire(g) \/ DropCall(g)

StopStep(o) == PublishStop(o) \/ CloseStopped(o)

Next ==
  \/ \E t \in Task :
       \/ Subscribe(t) \/ NewTask(t) \/ HandlerStep(t) \/ Bind(t) \/ DriverStep(t)
       \/ OrchStep(t) \/ GiveUp(t) \/ LoseTail(t) \/ PushMessage(t) \/ EchoMessage(t)
       \/ \E a \in {"allow", "deny"} : ResolveHitl(t, a)
       \/ \E o \in Operator : MarkStopped(o, t)
  \/ \E o \in Operator : StopStep(o)
  \/ \E g \in 1..MaxGates : GateStep(g)
  \/ Crash

Spec == Init /\ [][Next]_vars

\* Threads are scheduled, calls of the orchestrator end (its steps are bounded, its
\* gates time out) and the process answers.
FairSpec ==
  /\ Spec
  /\ \A t \in Task :
       WF_vars(HandlerStep(t)) /\ WF_vars(Bind(t)) /\ WF_vars(DriverStep(t)) /\ WF_vars(OrchStep(t))
  /\ \A o \in Operator : WF_vars(StopStep(o))
  /\ \A g \in 1..MaxGates : WF_vars(GateStep(g))

\* The same without a word on orchestrators, gates and the process.
StopSpec ==
  /\ Spec
  /\ \A t \in Task : WF_vars(HandlerStep(t)) /\ WF_vars(DriverStep(t))
  /\ \A o \in Operator : WF_vars(StopStep(o))

-----------------------------------------------------------------------------
TypeOK ==
  /\ log \in [Task -> Seq(Kind)]
  /\ tx \in [Task -> {"none", "open", "dropped"}]
  /\ pending \in [Task -> 0..Len(gates)]
  /\ inbox \in [Task -> 0..MaxMessages]
  /\ stopped \in [Task -> BOOLEAN] /\ abort \in [Task -> BOOLEAN] /\ aborted \in [Task -> BOOLEAN]
  /\ handler \in [Task -> {"idle", "created", "refused", "spawned", "done"}]
  /\ driver \in [Task -> {"none", "succeeded", "failed", "reporting", "closing"}
                           \cup Awaiting \cup Reading \cup Over]
  /\ stop \in [Operator -> {"idle", "marked", "published", "done"}]
  /\ target \in [Operator -> Task \cup {None}]
  /\ core \in [Task -> {"none", "starting", "serving", "ended"}]
  /\ owner \in Task \cup {None} /\ lease \in Task \cup {None}
  /\ stream \in [Task -> Seq({"event", "hitl", "error", "end"})]
  /\ orch \in [Task -> {"none", "ended", "dead"} \cup Running]
  /\ emitted \in [Task -> 0..MaxEvents]
  /\ conn \in [Task -> Task \cup {None}]
  /\ call \in [Task -> 0..Len(gates)]
  /\ gates \in Seq(Gate) /\ Len(gates) <= MaxGates

\* A gate that still waits is the one its task has pending, so that an answer or a
\* stop reaches it.
WaitingIsPending ==
  \A g \in DOMAIN gates : gates[g].status = "waiting" => pending[gates[g].at] = g

\* The process is leased by one driver at most, on every way out of
\* run_squad_task_inner the lease goes back.
LeaseFollowsDriver == \A t \in Task : driver[t] \in Reading <=> lease = t

\* Whenever it is stopped, a driver is told: register_abort and emergency_stop do
\* not miss each other.
StopReachesDriver ==
  \A t \in Task : stopped[t] /\ handler[t] = "done" => aborted[t]

\* A stream that closes with no error in it and no kill request was that of an
\* orchestrator that ended, and it carried every event.
Faulted(t) == \E i \in DOMAIN log[t] : log[t][i] \in {"error", "failure"}
ClosedMeansComplete == \A t \in Task :
  tx[t] = "dropped" /\ ~Faulted(t) /\ (\A o \in Operator : target[o] # t)
    => orch[t] = "ended" /\ Count("event", t) = emitted[t]

\* The kill switch leaves no gate of the task open.
StopDeniesGates == [][
  \A t \in Task : stopped'[t] /\ ~stopped[t] =>
    \A g \in DOMAIN gates' : gates'[g].at = t => gates'[g].status # "waiting"]_vars

\* A stopped driver ends, whatever its orchestrator, the gates and the pool do.
StopEndsDriver == \A t \in Task :
  stopped[t] /\ driver[t] # "none" ~> driver[t] \in Over

\* The stream of every accepted task closes.
EveryTaskCloses == \A t \in Task : handler[t] = "done" ~> tx[t] = "dropped"

-----------------------------------------------------------------------------
(* The inductive strengthening of ClosedMeansComplete. *)

Events(s) == Cardinality({i \in DOMAIN s : s[i] = "event"})
Killed(t) == \E o \in Operator : target[o] = t
Complete(t) == orch[t] = "ended" /\ Events(log[t]) = emitted[t]

\* An orchestrator starts when its driver calls it, and sent nothing before.
SilentUntilCalled(t) ==
  /\ driver[t] \in {"none", "binding", "acquiring"} => orch[t] = "none"
  /\ orch[t] = "none" => emitted[t] = 0 /\ stream[t] = <<>> /\ Events(log[t]) = 0

\* The end of a stream is the last of it, from an orchestrator that ended.
EndIsLast(t) == \A i \in DOMAIN stream[t] :
  stream[t][i] = "end" => orch[t] = "ended" /\ i = Len(stream[t])

\* While a driver reads from a live process, every event is published or in the stream.
NothingIsLost(t) ==
  driver[t] \in Reading /\ orch[t] # "dead" => Events(log[t]) + Events(stream[t]) = emitted[t]

\* What a driver that no longer reads knows of the run, and who closes a stream.
OutcomeIsKnown(t) ==
  /\ driver[t] = "succeeded" => Complete(t)
  /\ driver[t] \in {"closing", "ended"} => Faulted(t) \/ Killed(t) \/ Complete(t)
  /\ stopped[t] => Killed(t)
  /\ tx[t] = "dropped" => driver[t] = "ended" \/ Killed(t)

Delivery(t) ==
  SilentUntilCalled(t) /\ EndIsLast(t) /\ NothingIsLost(t) /\ OutcomeIsKnown(t)

\* A kill request names its task when it is marked, once.
KillsAreKept == \A o \in Operator : stop[o] = "idle" => target[o] = None

\* Only an orchestrator past its planning waits for an answer.
CallsAreLive == \A t \in Task : call[t] # 0 => orch[t] \in {"asking", "executing"}

DeliveryInv == KillsAreKept /\ CallsAreLive /\ \A t \in Task : Delivery(t)

-----------------------------------------------------------------------------
(* Refinement: drivers use the process as a pool of one lets them. *)

Leases == [t \in Task |-> IF lease = t THEN {0} ELSE {}]

\* Whether the process answers is the pool's to see to; who leases it, it answers.
Lease == INSTANCE ProcessLease
  WITH Client <- Task, Process <- {0}, lease <- Leases, answering <- {0}

\* What the pool promises of its leases is all that drivers need of it: no driver takes
\* a process that another has, and only the one that has it gives it back.
KeepsToLease == Lease!Spec
=============================================================================
