----------------------------- MODULE SessionHub -----------------------------
(***************************************************************************)
(* The web agent's session hub (crates/forge-cli/src/web_agent.rs).        *)
(*                                                                         *)
(* An HTTP message runs as one blocking task on its session.  A tool whose *)
(* policy is Ask publishes a permission request and blocks the task until  *)
(* a browser answers over HTTP or the timeout denies.  Browsers follow a   *)
(* session through SSE: a snapshot of its log, then a broadcast channel    *)
(* that drops its oldest events when a reader lags.                        *)
(*                                                                         *)
(* The hub's mutex makes each critical section one action; everything a    *)
(* handler or a task does between two critical sections is a separate one. *)
(***************************************************************************)
EXTENDS Naturals, Sequences, FiniteSets

CONSTANTS
  Session,      \* session ids a browser may name in a URL
  Message,      \* POSTs of a message, each handled once
  Reader,       \* SSE clients
  None,         \* no session
  MaxSessions,  \* FORGE_MAX_SESSIONS
  Capacity,     \* slots of the broadcast channel (256 in the code)
  MaxRequests,  \* bound: permission requests in one behaviour
  MaxLog        \* bound: log length up to which a turn emits progress events

ASSUME HubAssumption ==
  /\ None \notin Session
  /\ MaxSessions \in Nat
  /\ Capacity \in Nat \ {0}
  /\ MaxRequests \in Nat
  /\ MaxLog \in Nat

VARIABLES
  \* SessionHub, behind its mutex
  live,         \* sessions present in the map
  log,          \* events published so far, per session
  pending,      \* id of the pending permission request, 0 when there is none
  busy,         \* a message is being processed
  nextId,       \* next_request_id
  \* one HTTP message and the blocking task it becomes
  pc, at, req, chan, outcome,
  \* what the outside sees of each request
  reply,        \* answer the hub acknowledged with 200
  verdict,      \* what request_permission returned to the loop
  \* SSE readers
  conn, cursor, seen

hubVars    == <<live, log, pending, busy, nextId>>
taskVars   == <<pc, at, req, chan, outcome>>
readerVars == <<conn, cursor, seen>>
vars == <<hubVars, taskVars, reply, verdict, readerVars>>

RequestId == 1..MaxRequests
Answer    == {"allow", "deny"}

\* Steps of a message, in the order the handler and the task take them.
Waiting == {"registered", "waiting", "answered"}
Active  == Waiting \cup {"preparing", "opening", "running", "settled",
                         "error", "releasing"}
Ended   == {"refused429", "refused409", "failed", "ended"}

\* SessionEvent: TextDelta, TurnCompleted, ToolFinished and the tool events of
\* rule-decided calls are all "progress"; req is 0 unless the event belongs to
\* a permission request.  msg is the turn that published it.
EventKind == {"progress", "request", "started", "denied", "done", "error"}
Event == [kind : EventKind, msg : Message, req : Nat]

-----------------------------------------------------------------------------
Init ==
  /\ live = {}
  /\ log = [s \in Session |-> <<>>]
  /\ pending = [s \in Session |-> 0]
  /\ busy = [s \in Session |-> FALSE]
  /\ nextId = 1
  /\ pc = [m \in Message |-> "idle"]
  /\ at = [m \in Message |-> None]
  /\ req = [m \in Message |-> 0]
  /\ chan = [m \in Message |-> "empty"]
  /\ outcome = [m \in Message |-> "none"]
  /\ reply = [i \in RequestId |-> "none"]
  /\ verdict = [i \in RequestId |-> "none"]
  /\ conn = [r \in Reader |-> None]
  /\ cursor = [r \in Reader |-> 0]
  /\ seen = [r \in Reader |-> {}]

\* publish: append to the log and broadcast; readers follow the log by cursor.
Publish(m, kind, id) ==
  log' = [log EXCEPT ![at[m]] = Append(@, [kind |-> kind, msg |-> m, req |-> id])]

Goto(m, from, to) ==
  /\ pc[m] = from
  /\ pc' = [pc EXCEPT ![m] = to]

-----------------------------------------------------------------------------
(* Faulty variants of the operations below, one plausible slip each.  They    *)
(* show that the properties can fail; no specification uses them.             *)

\* No busy check.
TryStart_Unguarded(m) ==
  /\ Goto(m, "admitted", "preparing")
  /\ busy' = [busy EXCEPT ![at[m]] = TRUE]
  /\ UNCHANGED <<live, log, pending, nextId, at, req, chan, outcome, reply,
                 verdict, readerVars>>

\* The error arm frees the session before it publishes Error.
TaskFails_FreesFirst(m) ==
  /\ pc[m] \in {"opening", "running"}
  /\ pc' = [pc EXCEPT ![m] = "error"]
  /\ busy' = [busy EXCEPT ![at[m]] = FALSE]
  /\ UNCHANGED <<live, log, pending, nextId, at, req, chan, outcome, reply,
                 verdict, readerVars>>

\* The request id is read, not incremented.
Register_ReusesId(m) ==
  /\ Goto(m, "running", "registered")
  /\ nextId <= MaxRequests
  /\ req' = [req EXCEPT ![m] = nextId]
  /\ chan' = [chan EXCEPT ![m] = "empty"]
  /\ pending' = [pending EXCEPT ![at[m]] = nextId]
  /\ UNCHANGED <<live, log, busy, nextId, at, outcome, reply, verdict, readerVars>>

\* The timeout yields what the channel holds.
Expire_NoDefault(m) ==
  /\ Goto(m, "waiting", "answered")
  /\ outcome' = [outcome EXCEPT ![m] = chan[m]]
  /\ UNCHANGED <<hubVars, at, req, chan, reply, verdict, readerVars>>

\* unwrap_or(true).
Expire_Allows(m) ==
  /\ Goto(m, "waiting", "answered")
  /\ chan[m] = "empty"
  /\ outcome' = [outcome EXCEPT ![m] = "allow"]
  /\ UNCHANGED <<hubVars, at, req, chan, reply, verdict, readerVars>>

\* recv instead of recv_timeout.
Expire_Never(m) == FALSE /\ UNCHANGED vars

\* The request stays pending after the timeout.
ClearPending_Forgotten(m) ==
  /\ Goto(m, "answered", "settled")
  /\ verdict' = [verdict EXCEPT ![req[m]] = outcome[m]]
  /\ UNCHANGED <<hubVars, at, req, chan, outcome, reply, readerVars>>

\* The pending request of every session is dropped.
ClearPending_Everywhere(m) ==
  /\ Goto(m, "answered", "settled")
  /\ pending' = [s \in Session |-> 0]
  /\ verdict' = [verdict EXCEPT ![req[m]] = outcome[m]]
  /\ UNCHANGED <<live, log, busy, nextId, at, req, chan, outcome, reply, readerVars>>

-----------------------------------------------------------------------------
(* send_message_handler *)

\* ensure_session: create on first use, refuse (429) above the cap.
EnsureSession(m, s) ==
  /\ at' = [at EXCEPT ![m] = s]
  /\ \/ /\ s \in live \/ Cardinality(live) < MaxSessions
        /\ live' = live \cup {s}
        /\ Goto(m, "idle", "admitted")
     \/ /\ s \notin live /\ Cardinality(live) >= MaxSessions
        /\ Goto(m, "idle", "refused429")
        /\ UNCHANGED live
  /\ UNCHANGED <<log, pending, busy, nextId, req, chan, outcome, reply, verdict,
                 readerVars>>

\* try_start: one message at a time, the second one gets 409.
TryStart(m) ==
  /\ \/ /\ Goto(m, "admitted", "preparing")
        /\ ~busy[at[m]]
        /\ busy' = [busy EXCEPT ![at[m]] = TRUE]
     \/ /\ Goto(m, "admitted", "refused409")
        /\ busy[at[m]]
        /\ UNCHANGED busy
  /\ UNCHANGED <<live, log, pending, nextId, at, req, chan, outcome, reply,
                 verdict, readerVars>>

\* No working directory or no provider: 500/503, the session is freed.
PrepareFails(m) ==
  /\ Goto(m, "preparing", "failed")
  /\ busy' = [busy EXCEPT ![at[m]] = FALSE]
  /\ UNCHANGED <<live, log, pending, nextId, at, req, chan, outcome, reply,
                 verdict, readerVars>>

\* 202: the message becomes a spawn_blocking task.
Spawn(m) ==
  /\ Goto(m, "preparing", "opening")
  /\ UNCHANGED <<hubVars, at, req, chan, outcome, reply, verdict, readerVars>>

-----------------------------------------------------------------------------
(* spawn_message_task and spawn_session_task *)

\* Ledger, durable history and loop are ready.
Open(m) ==
  /\ Goto(m, "opening", "running")
  /\ UNCHANGED <<hubVars, at, req, chan, outcome, reply, verdict, readerVars>>

\* Any `?` of the task's closure: opening fails, or the loop returns Err
\* (provider error, MaxSteps).
TaskFails(m) ==
  /\ pc[m] \in {"opening", "running"}
  /\ pc' = [pc EXCEPT ![m] = "error"]
  /\ UNCHANGED <<hubVars, at, req, chan, outcome, reply, verdict, readerVars>>

\* on_event for an event that no permission request caused.
Emit(m) ==
  /\ pc[m] = "running"
  /\ Len(log[at[m]]) < MaxLog
  /\ Publish(m, "progress", 0)
  /\ UNCHANGED <<live, pending, busy, nextId, taskVars, reply, verdict, readerVars>>

\* request_permission, first critical section: a fresh id becomes pending.
Register(m) ==
  /\ Goto(m, "running", "registered")
  /\ nextId <= MaxRequests
  /\ nextId' = nextId + 1
  /\ req' = [req EXCEPT ![m] = nextId]
  /\ chan' = [chan EXCEPT ![m] = "empty"]
  /\ pending' = [pending EXCEPT ![at[m]] = nextId]
  /\ UNCHANGED <<live, log, busy, at, outcome, reply, verdict, readerVars>>

\* Second critical section: the request reaches the log and the readers.
PublishRequest(m) ==
  /\ Goto(m, "registered", "waiting")
  /\ Publish(m, "request", req[m])
  /\ UNCHANGED <<live, pending, busy, nextId, at, req, chan, outcome, reply,
                 verdict, readerVars>>

\* recv_timeout yields the answer ...
Receive(m) ==
  /\ Goto(m, "waiting", "answered")
  /\ chan[m] # "empty"
  /\ outcome' = [outcome EXCEPT ![m] = chan[m]]
  /\ UNCHANGED <<hubVars, at, req, chan, reply, verdict, readerVars>>

\* ... or expires on an empty channel, which denies.  The responder is still
\* registered until ClearPending.
Expire(m) ==
  /\ Goto(m, "waiting", "answered")
  /\ chan[m] = "empty"
  /\ outcome' = [outcome EXCEPT ![m] = "deny"]
  /\ UNCHANGED <<hubVars, at, req, chan, reply, verdict, readerVars>>

\* Last critical section: whatever is pending on the session is dropped.
ClearPending(m) ==
  /\ Goto(m, "answered", "settled")
  /\ pending' = [pending EXCEPT ![at[m]] = 0]
  /\ verdict' = [verdict EXCEPT ![req[m]] = outcome[m]]
  /\ UNCHANGED <<live, log, busy, nextId, at, req, chan, outcome, reply, readerVars>>

\* run_tool on return from the resolver: ToolDenied, or ToolStarted and the tool.
Settle(m) ==
  /\ Goto(m, "settled", "running")
  /\ Publish(m, IF outcome[m] = "allow" THEN "started" ELSE "denied", req[m])
  /\ UNCHANGED <<live, pending, busy, nextId, at, req, chan, outcome, reply,
                 verdict, readerVars>>

\* finish_task_ok publishes Done, the error arm publishes Error; both free the
\* session only afterwards, in a critical section of its own.
PublishDone(m) ==
  /\ Goto(m, "running", "releasing")
  /\ Publish(m, "done", 0)
  /\ UNCHANGED <<live, pending, busy, nextId, at, req, chan, outcome, reply,
                 verdict, readerVars>>

PublishError(m) ==
  /\ Goto(m, "error", "releasing")
  /\ Publish(m, "error", 0)
  /\ UNCHANGED <<live, pending, busy, nextId, at, req, chan, outcome, reply,
                 verdict, readerVars>>

FinishBusy(m) ==
  /\ Goto(m, "releasing", "ended")
  /\ busy' = [busy EXCEPT ![at[m]] = FALSE]
  /\ UNCHANGED <<live, log, pending, nextId, at, req, chan, outcome, reply,
                 verdict, readerVars>>

-----------------------------------------------------------------------------
(* resolve_permission and the SSE stream *)

\* The responder of request id feeds the task that waits for it; once that task
\* has dropped its receiver the send has no effect.
Send(id, a) ==
  [m \in Message |-> IF pc[m] \in Waiting /\ req[m] = id THEN a ELSE chan[m]]

\* Faulty: the responder is not taken.
ResolvePermission_KeepsPending(s, id, a) ==
  /\ pending[s] = id
  /\ chan' = Send(id, a)
  /\ reply' = [reply EXCEPT ![id] = a]
  /\ UNCHANGED <<hubVars, pc, at, req, outcome, verdict, readerVars>>

\* Faulty: request_id is not compared.
ResolvePermission_AnyId(s, id, a) ==
  /\ pending[s] # 0
  /\ pending' = [pending EXCEPT ![s] = 0]
  /\ chan' = Send(pending[s], a)
  /\ reply' = [reply EXCEPT ![id] = a]
  /\ UNCHANGED <<live, log, busy, nextId, pc, at, req, outcome, verdict, readerVars>>

\* Any client may post any id; one that does not match is 404 and changes nothing.
ResolvePermission(s, id, a) ==
  /\ pending[s] = id
  /\ pending' = [pending EXCEPT ![s] = 0]
  /\ chan' = Send(id, a)
  /\ reply' = [reply EXCEPT ![id] = a]
  /\ UNCHANGED <<live, log, busy, nextId, pc, at, req, outcome, verdict, readerVars>>

\* PermissionRequested is the only event that carries a request_id to a browser.
RequestsIn(s, indices) ==
  {log[s][i].req : i \in {j \in indices : log[s][j].kind = "request"}}

\* Faulty: the receiver is taken without the snapshot.
Subscribe_NoSnapshot(r, s) ==
  /\ live' = live \cup {s}
  /\ conn' = [conn EXCEPT ![r] = s]
  /\ cursor' = [cursor EXCEPT ![r] = Len(log[s])]
  /\ UNCHANGED <<log, pending, busy, nextId, taskVars, reply, verdict, seen>>

\* subscribe: creates the session if it is new, and takes snapshot and receiver
\* under one lock.
Subscribe(r, s) ==
  /\ live' = live \cup {s}
  /\ conn' = [conn EXCEPT ![r] = s]
  /\ cursor' = [cursor EXCEPT ![r] = Len(log[s])]
  /\ seen' = [seen EXCEPT ![r] = @ \cup RequestsIn(s, DOMAIN log[s])]
  /\ UNCHANGED <<log, pending, busy, nextId, taskVars, reply, verdict>>

\* First log index the broadcast channel still holds for reader r: a reader
\* more than Capacity behind gets Lagged, which sse_handler filters out.
Oldest(r) ==
  LET behind == Len(log[conn[r]]) - cursor[r]
  IN  IF behind > Capacity THEN Len(log[conn[r]]) - Capacity + 1 ELSE cursor[r] + 1

Deliver(r) ==
  /\ conn[r] # None
  /\ cursor[r] < Len(log[conn[r]])
  /\ cursor' = [cursor EXCEPT ![r] = Oldest(r)]
  /\ seen' = [seen EXCEPT ![r] = @ \cup RequestsIn(conn[r], {Oldest(r)})]
  /\ UNCHANGED <<hubVars, taskVars, reply, verdict, conn>>

Disconnect(r) ==
  /\ conn[r] # None
  /\ conn' = [conn EXCEPT ![r] = None]
  /\ cursor' = [cursor EXCEPT ![r] = 0]
  /\ UNCHANGED <<hubVars, taskVars, reply, verdict, seen>>

-----------------------------------------------------------------------------
\* What the task of m does by itself once it is admitted.
TaskStep(m) ==
  \/ TryStart(m) \/ PrepareFails(m) \/ Spawn(m) \/ Open(m) \/ TaskFails(m)
  \/ Emit(m) \/ Register(m) \/ PublishRequest(m) \/ Receive(m) \/ Expire(m)
  \/ ClearPending(m) \/ Settle(m) \/ PublishDone(m) \/ PublishError(m)
  \/ FinishBusy(m)

Next ==
  \/ \E m \in Message, s \in Session : EnsureSession(m, s)
  \/ \E m \in Message : TaskStep(m)
  \/ \E s \in Session, id \in RequestId, a \in Answer : ResolvePermission(s, id, a)
  \/ \E r \in Reader, s \in Session : conn[r] = None /\ Subscribe(r, s)
  \/ \E r \in Reader : Deliver(r) \/ Disconnect(r)

Spec == Init /\ [][Next]_vars

\* The runtime keeps scheduling a spawned task, and recv_timeout returns.
FairSpec == Spec /\ \A m \in Message : WF_vars(TaskStep(m))

-----------------------------------------------------------------------------
TypeOK ==
  /\ live \subseteq Session
  /\ log \in [Session -> Seq(Event)]
  /\ pending \in [Session -> Nat]
  /\ busy \in [Session -> BOOLEAN]
  /\ nextId \in 1..(MaxRequests + 1)
  /\ pc \in [Message -> {"idle", "admitted"} \cup Active \cup Ended]
  /\ at \in [Message -> Session \cup {None}]
  /\ req \in [Message -> Nat]
  /\ chan \in [Message -> {"empty"} \cup Answer]
  /\ outcome \in [Message -> {"none"} \cup Answer]
  /\ reply \in [RequestId -> {"none"} \cup Answer]
  /\ verdict \in [RequestId -> {"none"} \cup Answer]
  /\ conn \in [Reader -> Session \cup {None}]
  /\ cursor \in [Reader -> Nat]
  /\ seen \in [Reader -> SUBSET Nat]

\* ADR 0018: a session is a single actor.  However many messages race for it,
\* one at most is being processed, and the session is busy exactly then.
SingleActor ==
  /\ \A m, n \in Message :
       pc[m] \in Active /\ pc[n] \in Active /\ at[m] = at[n] => m = n
  /\ \A s \in Session : busy[s] <=> \E m \in Message : pc[m] \in Active /\ at[m] = s

\* ADR 0018: a second message never interleaves its events with those of the
\* first, and a turn publishes nothing after its Done or Error.
TurnsAreWhole ==
  \A s \in Session : \A i, j \in DOMAIN log[s] : i < j =>
    /\ log[s][i].kind \in {"done", "error"} => log[s][j].msg # log[s][i].msg
    /\ log[s][i].msg = log[s][j].msg =>
         \A k \in i..j : log[s][k].msg = log[s][i].msg

\* ADR 0018, both halves: neither the turns that run nor the events they leave mix.
TurnsStayApart == SingleActor /\ TurnsAreWhole

\* A request is pending only while its own task waits for it, and a task that
\* waits on an empty channel can still be answered: ClearPending, which drops
\* whatever is pending, never drops another task's responder.
PendingIsAwaited ==
  /\ \A s \in Session : pending[s] # 0 =>
       \E m \in Message : pc[m] \in Waiting /\ at[m] = s /\ req[m] = pending[s]
  /\ \A m \in Message :
       pc[m] \in {"registered", "waiting"} /\ chan[m] = "empty" =>
         pending[at[m]] = req[m]

\* ADR 0017, fail-closed: a tool whose policy is Ask starts only when a browser
\* allowed that very request, whatever timeouts and late answers race.
FailClosed ==
  \A s \in Session : \A i \in DOMAIN log[s] :
    log[s][i].kind = "started" =>
      verdict[log[s][i].req] = "allow" /\ reply[log[s][i].req] = "allow"

\* ADR 0016: a connected browser cannot lose a pending request.  Either it has
\* seen it or the request is still ahead of it in the log and in the channel,
\* because a task that waits publishes nothing that could push it out.
PendingReachesReader ==
  \A r \in Reader : conn[r] # None /\ pending[conn[r]] # 0 =>
    LET s == conn[r]
        published == {i \in DOMAIN log[s] :
                        log[s][i].kind = "request" /\ log[s][i].req = pending[s]}
    IN  pending[s] \in seen[r] \/ \A i \in published : i >= Oldest(r)

\* A pending request can be answered until its task is done with it: its responder is
\* the one its task waits on, and every connected browser has it or is yet to get it.
PendingIsAnswerable == PendingIsAwaited /\ PendingReachesReader

\* The hub acknowledges one answer per request, and request_permission returns
\* one result: neither is ever revised.
AnsweredOnce ==
  [][\A i \in RequestId :
       /\ reply[i] # "none" => reply'[i] = reply[i]
       /\ verdict[i] # "none" => verdict'[i] = verdict[i] /\ reply'[i] = reply[i]]_vars

\* finish_busy runs at the end of every task, success or error: an accepted
\* message ends, whether or not a browser ever answers its requests.
EveryTurnEnds == \A m \in Message : pc[m] \in Active ~> pc[m] \in Ended

\* ADR 0017: a request is decided even if nobody answers it.
EveryRequestSettles == \A m \in Message : pc[m] \in Waiting ~> pc[m] = "settled"

\* Neither a turn nor a request in it waits for ever, whoever is silent.
TurnsAndRequestsEnd == EveryTurnEnds /\ EveryRequestSettles

-----------------------------------------------------------------------------
(* The inductive strengthening of the invariants. *)

\* A message that reached the hub names a session.
Located == \A m \in Message : pc[m] # "idle" => at[m] \in Session

\* Request ids are handed out once: nothing is known of the ids still to come,
\* and two waiting tasks never share one.
FreshIds ==
  /\ \A m \in Message : pc[m] \in Waiting \cup {"settled"} =>
       req[m] \in RequestId /\ req[m] < nextId
  /\ \A i \in RequestId : i >= nextId => reply[i] = "none" /\ verdict[i] = "none"
  /\ \A m, n \in Message :
       pc[m] \in Waiting /\ pc[n] \in Waiting /\ req[m] = req[n] => m = n

\* A waiting task is either unanswered and pending, or answered, no longer
\* pending, and its channel holds the acknowledged answer.
WaitingState ==
  \A m \in Message : pc[m] \in Waiting =>
    /\ verdict[req[m]] = "none"
    /\ \/ pending[at[m]] = req[m] /\ chan[m] = "empty" /\ reply[req[m]] = "none"
       \/ pending[at[m]] = 0 /\ chan[m] \in Answer /\ reply[req[m]] = chan[m]

\* The outcome a task carries away allows only what was acknowledged.
OutcomeState ==
  \A m \in Message : pc[m] \in {"answered", "settled"} =>
    /\ outcome[m] \in Answer
    /\ outcome[m] = "allow" => reply[req[m]] = "allow"
    /\ pc[m] = "settled" => verdict[req[m]] = outcome[m]

\* A tool that started after a request names a request of this behaviour.
StartedKnown ==
  \A s \in Session : \A i \in DOMAIN log[s] :
    log[s][i].kind = "started" => log[s][i].req \in RequestId

\* A turn publishes only once it is active, its events end the log while it is,
\* and no Done or Error precedes its last step.
TurnShape ==
  \A s \in Session : \A i \in DOMAIN log[s] :
    LET m == log[s][i].msg IN
    /\ pc[m] \notin {"idle", "admitted"} /\ at[m] = s
    /\ pc[m] \in Active =>
         /\ log[s][Len(log[s])].msg = m
         /\ pc[m] # "releasing" => log[s][i].kind \notin {"done", "error"}

\* Each request is published once: its event is in no log before, and while its task
\* waits it is the last of the session's log.
RequestEvents ==
  \A s \in Session : \A i \in DOMAIN log[s] : log[s][i].kind = "request" =>
    /\ log[s][i].req < nextId
    /\ \A m \in Message : pc[m] \in Waiting /\ req[m] = log[s][i].req =>
         pc[m] # "registered" /\ at[m] = s /\ i = Len(log[s])

\* A reader is inside the log it follows, and has seen the request at its cursor.
ReaderPlace ==
  \A r \in Reader : conn[r] # None =>
    LET l == log[conn[r]] IN
    /\ cursor[r] <= Len(l)
    /\ cursor[r] > 0 /\ l[cursor[r]].kind = "request" => l[cursor[r]].req \in seen[r]

BridgeInv ==
  /\ TypeOK /\ Located /\ FreshIds /\ WaitingState /\ OutcomeState
  /\ SingleActor /\ PendingIsAwaited

HubInv ==
  /\ BridgeInv /\ StartedKnown /\ FailClosed /\ TurnShape /\ TurnsAreWhole
  /\ RequestEvents /\ ReaderPlace /\ PendingReachesReader

-----------------------------------------------------------------------------
\* The hub implements the permission contract.
OpenRequests ==
  [s \in Session |-> {req[m] : m \in {n \in Message : pc[n] \in Waiting /\ at[n] = s}}]

Contract == INSTANCE PermissionContract WITH Request <- RequestId, open <- OpenRequests

ImplementsContract == Contract!FairSpec
=============================================================================
