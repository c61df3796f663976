-------------------------- MODULE SessionHub_proofs --------------------------
(***************************************************************************)
(* Proofs about SessionHub for any sets of sessions, messages and readers. *)
(***************************************************************************)
EXTENDS SessionHub, TLAPS

\* The events of a well-typed log: each has the fields of Event.
LEMMA LogEntry ==
  ASSUME NEW l \in Seq(Event), NEW i \in DOMAIN l
  PROVE  l[i] \in Event /\ l[i].req \in Nat /\ l[i].msg \in Message /\ l[i].kind \in EventKind
<1>1. l[i] \in Event
  OBVIOUS
<1>. QED
  BY <1>1 DEF Event

LEMMA TypeInitially == Init => TypeOK
BY HubAssumption DEF Init, TypeOK, RequestId

LEMMA TypeStep == TypeOK /\ [Next]_vars => TypeOK'
<1> SUFFICES ASSUME TypeOK, [Next]_vars PROVE TypeOK'
  OBVIOUS
<1> USE HubAssumption DEF TypeOK, hubVars, taskVars, readerVars, vars, Goto,
        Waiting, Active, Ended, Answer
<1>1. ASSUME NEW m \in Message, NEW s \in Session, EnsureSession(m, s) PROVE TypeOK'
  BY <1>1 DEF EnsureSession
<1>2. ASSUME NEW m \in Message, TryStart(m) PROVE TypeOK'
  BY <1>2 DEF TryStart
<1>3. ASSUME NEW m \in Message,
             PrepareFails(m) \/ Spawn(m) \/ Open(m) \/ TaskFails(m) \/ FinishBusy(m)
      PROVE TypeOK'
  <2>1. CASE PrepareFails(m) \/ Spawn(m)
    BY <2>1 DEF PrepareFails, Spawn
  <2>2. CASE Open(m) \/ TaskFails(m)
    BY <2>2 DEF Open, TaskFails
  <2>3. CASE FinishBusy(m)
    BY <2>3 DEF FinishBusy
  <2>. QED
    BY <1>3, <2>1, <2>2, <2>3
<1>4. ASSUME NEW m \in Message,
             \/ Emit(m) \/ PublishRequest(m) \/ Settle(m)
             \/ PublishDone(m) \/ PublishError(m)
      PROVE TypeOK'
  <2>1. PICK e \in Event : log' = [log EXCEPT ![at[m]] = Append(@, e)]
    <3>1. \A k \in EventKind, i \in Nat : [kind |-> k, msg |-> m, req |-> i] \in Event
      BY DEF Event
    <3>2. req[m] \in Nat
      OBVIOUS
    <3>3. {"progress", "request", "started", "denied", "done", "error"} = EventKind
      BY DEF EventKind
    <3>. QED
      BY <1>4, <3>1, <3>2, <3>3
      DEF Emit, PublishRequest, Settle, PublishDone, PublishError, Publish
  <2>2. log' \in [Session -> Seq(Event)]
    <3>1. ASSUME NEW s \in Session PROVE log'[s] \in Seq(Event)
      <4>1. log[s] \in Seq(Event)
        OBVIOUS
      <4>2. Append(log[s], e) \in Seq(Event)
        BY <4>1
      <4>. QED
        BY <2>1, <4>1, <4>2
    <3>. QED
      BY <2>1, <3>1
  <2>3. pc' \in [Message -> {"idle", "admitted"} \cup Active \cup Ended]
    BY ZenonT(60), <1>4 DEF Emit, PublishRequest, Settle, PublishDone, PublishError
  <2>4. CASE Emit(m) \/ PublishRequest(m)
    BY <2>2, <2>3, <2>4 DEF Emit, PublishRequest
  <2>5. CASE Settle(m)
    BY <2>2, <2>3, <2>5 DEF Settle
  <2>6. CASE PublishDone(m) \/ PublishError(m)
    BY <2>2, <2>3, <2>6 DEF PublishDone, PublishError
  <2>. QED
    BY <1>4, <2>4, <2>5, <2>6
<1>5. ASSUME NEW m \in Message, Register(m) PROVE TypeOK'
  <2>1. nextId \in Nat /\ nextId' \in 1..(MaxRequests + 1)
    BY <1>5 DEF Register
  <2>. QED
    BY <1>5, <2>1 DEF Register
<1>6. ASSUME NEW m \in Message, Receive(m) PROVE TypeOK'
  BY <1>6 DEF Receive
<1>7. ASSUME NEW m \in Message, Expire(m) PROVE TypeOK'
  BY <1>7 DEF Expire
<1>8. ASSUME NEW m \in Message, ClearPending(m) PROVE TypeOK'
  BY <1>8 DEF ClearPending
<1>9. ASSUME NEW s \in Session, NEW id \in RequestId,
             NEW a \in Answer, ResolvePermission(s, id, a)
      PROVE TypeOK'
  BY <1>9 DEF ResolvePermission, Send
<1>10. ASSUME NEW r \in Reader, NEW s \in Session, Subscribe(r, s) PROVE TypeOK'
  <2>1. RequestsIn(s, DOMAIN log[s]) \subseteq Nat
    BY LogEntry DEF RequestsIn
  <2>2. Len(log[s]) \in Nat
    OBVIOUS
  <2>. QED
    BY <1>10, <2>1, <2>2 DEF Subscribe
<1>11. ASSUME NEW r \in Reader, Deliver(r) PROVE TypeOK'
  <2>1. conn[r] \in Session /\ log[conn[r]] \in Seq(Event)
    BY <1>11 DEF Deliver
  <2>2. Oldest(r) \in DOMAIN log[conn[r]]
    <3>. DEFINE n == Len(log[conn[r]])
    <3>1. n \in Nat /\ cursor[r] \in Nat /\ cursor[r] < n
      BY <1>11, <2>1 DEF Deliver
    <3>2. Oldest(r) \in 1..n
      BY <3>1 DEF Oldest
    <3>. QED
      BY <2>1, <3>2
  <2>3. RequestsIn(conn[r], {Oldest(r)}) \subseteq Nat
    BY <2>1, <2>2, LogEntry DEF RequestsIn
  <2>4. Oldest(r) \in Nat
    BY <2>1, <2>2
  <2>. QED
    BY <1>11, <2>3, <2>4 DEF Deliver
<1>12. ASSUME NEW r \in Reader, Disconnect(r) PROVE TypeOK'
  BY <1>12 DEF Disconnect
<1>13. CASE UNCHANGED vars
  BY <1>13
<1> HIDE DEF TypeOK, hubVars, taskVars, readerVars, vars, Goto, Waiting, Active, Ended, Answer
<1>. QED
  BY <1>1, <1>2, <1>3, <1>4, <1>5, <1>6, <1>7, <1>8, <1>9, <1>10, <1>11, <1>12,
     <1>13 DEF Next, TaskStep

\* Every variable has its type in every reachable state of the hub.
THEOREM TypeCorrect == Spec => []TypeOK
BY TypeInitially, TypeStep, PTL DEF Spec


-----------------------------------------------------------------------------
(* The bridge between a waiting task and the browsers. *)

\* Phases of request_permission and of the step that follows it.
Phase == {"registered", "waiting", "answered", "settled"}

\* A step that changes nothing of the requests keeps the facts about them.
LEMMA RequestFrame ==
  ASSUME FreshIds, WaitingState, OutcomeState, PendingIsAwaited,
         UNCHANGED <<pending, nextId, req, chan, outcome, reply, verdict>>,
         \A n \in Message : pc'[n] # pc[n] => pc[n] \notin Phase /\ pc'[n] \notin Phase,
         \A n \in Message : pc[n] \in Phase => at'[n] = at[n]
  PROVE  FreshIds' /\ WaitingState' /\ OutcomeState' /\ PendingIsAwaited'
<1>1. \A n \in Message : /\ pc'[n] \in Waiting <=> pc[n] \in Waiting
                         /\ pc'[n] \in Waiting => pc'[n] = pc[n] /\ at'[n] = at[n]
                         /\ pc'[n] = "settled" <=> pc[n] = "settled"
                         /\ pc'[n] = "answered" <=> pc[n] = "answered"
  BY DEF Phase, Waiting
<1>2. FreshIds'
  BY <1>1 DEF FreshIds
<1>3. WaitingState'
  BY <1>1 DEF WaitingState
<1>4. OutcomeState'
  BY <1>1 DEF OutcomeState
<1>5. PendingIsAwaited'
  BY <1>1 DEF PendingIsAwaited, Waiting
<1>. QED
  BY <1>2, <1>3, <1>4, <1>5

\* The steps of handlers, tasks and readers that leave requests alone.
LEMMA OtherSteps ==
  ASSUME TypeOK, FreshIds, WaitingState, OutcomeState, PendingIsAwaited,
         \/ \E m \in Message, s \in Session : EnsureSession(m, s)
         \/ \E m \in Message :
              \/ TryStart(m) \/ PrepareFails(m) \/ Spawn(m) \/ Open(m) \/ TaskFails(m)
              \/ Emit(m) \/ PublishDone(m) \/ PublishError(m) \/ FinishBusy(m)
         \/ \E r \in Reader, s \in Session : Subscribe(r, s)
         \/ \E r \in Reader : Deliver(r) \/ Disconnect(r)
         \/ UNCHANGED vars
  PROVE  FreshIds' /\ WaitingState' /\ OutcomeState' /\ PendingIsAwaited'
<1>. DEFINE Same == UNCHANGED <<pending, nextId, req, chan, outcome, reply, verdict>>
            Moves == /\ \A n \in Message : pc'[n] # pc[n] => pc[n] \notin Phase /\ pc'[n] \notin Phase
                     /\ \A n \in Message : pc[n] \in Phase => at'[n] = at[n]
<1>1. CASE \E m \in Message, s \in Session : EnsureSession(m, s)
  BY <1>1, RequestFrame DEF EnsureSession, Goto, Phase, TypeOK
<1>2. CASE \E m \in Message :
             TryStart(m) \/ PrepareFails(m) \/ Spawn(m) \/ Open(m) \/ TaskFails(m)
  <2>1. Same
    BY <1>2 DEF TryStart, PrepareFails, Spawn, Open, TaskFails, hubVars
  <2>2. Moves
    BY <1>2 DEF TryStart, PrepareFails, Spawn, Open, TaskFails, Goto, Phase, TypeOK
  <2>. QED
    BY <2>1, <2>2, RequestFrame
<1>3. CASE \E m \in Message : Emit(m) \/ PublishDone(m) \/ PublishError(m) \/ FinishBusy(m)
  <2>1. Same
    BY <1>3 DEF Emit, PublishDone, PublishError, FinishBusy, taskVars
  <2>2. Moves
    BY <1>3 DEF Emit, PublishDone, PublishError, FinishBusy, taskVars, Goto, Phase, TypeOK
  <2>. QED
    BY <2>1, <2>2, RequestFrame
<1>4. CASE \/ \E r \in Reader, s \in Session : Subscribe(r, s)
           \/ \E r \in Reader : Deliver(r) \/ Disconnect(r)
           \/ UNCHANGED vars
  <2>1. Same /\ UNCHANGED <<pc, at>>
    BY <1>4 DEF Subscribe, Deliver, Disconnect, vars, hubVars, taskVars
  <2>. QED
    BY <2>1, RequestFrame
<1>. QED
  BY <1>1, <1>2, <1>3, <1>4

LEMMA RegisterRequests ==
  ASSUME TypeOK, Located, SingleActor, FreshIds, WaitingState, OutcomeState, PendingIsAwaited,
         NEW m \in Message, Register(m)
  PROVE  FreshIds' /\ WaitingState' /\ OutcomeState' /\ PendingIsAwaited'
<1>1. /\ pc[m] = "running" /\ pc'[m] = "registered" /\ at' = at /\ at[m] \in Session
      /\ req'[m] = nextId /\ chan'[m] = "empty" /\ pending'[at[m]] = nextId
      /\ nextId \in RequestId /\ nextId' = nextId + 1 /\ nextId \in Nat /\ nextId # 0
      /\ outcome' = outcome /\ reply' = reply /\ verdict' = verdict
  BY DEF Register, Goto, TypeOK, Located, RequestId
<1>2. \A n \in Message : n # m => pc'[n] = pc[n] /\ req'[n] = req[n] /\ chan'[n] = chan[n]
  BY DEF Register, Goto, TypeOK
<1>3. \A s \in Session : s # at[m] => pending'[s] = pending[s]
  BY DEF Register, TypeOK
<1>4. \A n \in Message : n # m /\ pc[n] \in Waiting => at[n] \in Session /\ at[n] # at[m]
  BY <1>1 DEF SingleActor, Located, Active, Waiting
<1>5. reply[nextId] = "none" /\ verdict[nextId] = "none"
  BY <1>1 DEF FreshIds
<1>6. FreshIds'
  <2>1. \A n \in Message : pc'[n] \in Waiting \cup {"settled"} =>
          req'[n] \in RequestId /\ req'[n] < nextId'
    BY <1>1, <1>2 DEF FreshIds, RequestId
  <2>2. \A i \in RequestId : i >= nextId' => reply'[i] = "none" /\ verdict'[i] = "none"
    BY <1>1 DEF FreshIds, RequestId
  <2>3. \A n \in Message : n # m /\ pc'[n] \in Waiting => req'[n] # nextId
    BY <1>1, <1>2 DEF FreshIds, RequestId
  <2>4. ASSUME NEW n \in Message, NEW k \in Message, pc'[n] \in Waiting, pc'[k] \in Waiting,
               req'[n] = req'[k]
        PROVE n = k
    BY <1>1, <1>2, <2>3, <2>4 DEF FreshIds
  <2>. QED
    BY <2>1, <2>2, <2>4 DEF FreshIds
<1>7. WaitingState'
  <2>1. ASSUME NEW n \in Message, pc'[n] \in Waiting, n # m
        PROVE /\ verdict'[req'[n]] = "none"
              /\ \/ pending'[at'[n]] = req'[n] /\ chan'[n] = "empty" /\ reply'[req'[n]] = "none"
                 \/ pending'[at'[n]] = 0 /\ chan'[n] \in Answer /\ reply'[req'[n]] = chan'[n]
    BY <1>1, <1>2, <1>3, <1>4, <2>1 DEF WaitingState
  <2>. QED
    BY <1>1, <1>5, <2>1 DEF WaitingState
<1>8. OutcomeState'
  BY <1>1, <1>2 DEF OutcomeState
<1>9. PendingIsAwaited'
  <2>1. \A s \in Session : pending'[s] # 0 =>
          \E n \in Message : pc'[n] \in Waiting /\ at'[n] = s /\ req'[n] = pending'[s]
    <3>1. ASSUME NEW s \in Session, pending'[s] # 0, s # at[m]
          PROVE \E n \in Message : pc'[n] \in Waiting /\ at'[n] = s /\ req'[n] = pending'[s]
      BY <1>1, <1>2, <1>3, <3>1 DEF PendingIsAwaited, Waiting
    <3>. QED
      BY <1>1, <3>1 DEF Waiting
  <2>2. \A n \in Message : pc'[n] \in {"registered", "waiting"} /\ chan'[n] = "empty" =>
          pending'[at'[n]] = req'[n]
    BY <1>7 DEF WaitingState, Waiting, Answer
  <2>. QED
    BY <2>1, <2>2 DEF PendingIsAwaited
<1>. QED
  BY <1>6, <1>7, <1>8, <1>9

LEMMA ResolveRequests ==
  ASSUME TypeOK, Located, SingleActor, FreshIds, WaitingState, OutcomeState, PendingIsAwaited,
         NEW s \in Session, NEW id \in RequestId, NEW a \in Answer,
         ResolvePermission(s, id, a)
  PROVE  FreshIds' /\ WaitingState' /\ OutcomeState' /\ PendingIsAwaited'
<1>1. /\ pending[s] = id /\ pending'[s] = 0 /\ id # 0
      /\ \A t \in Session : t # s => pending'[t] = pending[t]
      /\ pc' = pc /\ at' = at /\ req' = req /\ nextId' = nextId
      /\ outcome' = outcome /\ verdict' = verdict
      /\ \A n \in Message : chan'[n] = IF pc[n] \in Waiting /\ req[n] = id THEN a ELSE chan[n]
      /\ reply'[id] = a
      /\ \A i \in RequestId : i # id => reply'[i] = reply[i]
  BY DEF ResolvePermission, Send, TypeOK, RequestId
<1>2. PICK m \in Message : pc[m] \in Waiting /\ at[m] = s /\ req[m] = id
  BY <1>1 DEF PendingIsAwaited
<1>3. \A n \in Message : n # m /\ pc[n] \in Waiting =>
        at[n] \in Session /\ at[n] # s /\ req[n] # id /\ req[n] \in RequestId
  BY <1>2 DEF SingleActor, Located, FreshIds, Active, Waiting
<1>4. id < nextId /\ verdict[id] = "none" /\ reply[id] = "none" /\ chan[m] = "empty"
  BY <1>1, <1>2 DEF FreshIds, WaitingState
<1>5. FreshIds'
  <2>1. \A i \in RequestId : i >= nextId' => reply'[i] = "none" /\ verdict'[i] = "none"
    BY <1>1, <1>4 DEF FreshIds, TypeOK, RequestId
  <2>. QED
    BY <1>1, <2>1 DEF FreshIds
<1>6. WaitingState'
  BY <1>1, <1>2, <1>3, <1>4 DEF WaitingState
<1>7. OutcomeState'
  <2>1. ASSUME NEW n \in Message, pc[n] \in {"answered", "settled"}, outcome[n] = "allow"
        PROVE  reply'[req'[n]] = "allow"
    <3>1. reply[req[n]] = "allow" /\ req[n] \in RequestId
      BY <2>1 DEF OutcomeState, FreshIds, Waiting
    <3>2. req[n] # id
      BY <1>4, <3>1
    <3>. QED
      BY <1>1, <3>1, <3>2
  <2>. QED
    BY <1>1, <2>1 DEF OutcomeState
<1>8. PendingIsAwaited'
  <2>1. \A t \in Session : pending'[t] # 0 =>
          \E n \in Message : pc'[n] \in Waiting /\ at'[n] = t /\ req'[n] = pending'[t]
    BY <1>1 DEF PendingIsAwaited
  <2>2. \A n \in Message : pc'[n] \in {"registered", "waiting"} /\ chan'[n] = "empty" =>
          pending'[at'[n]] = req'[n]
    BY <1>6 DEF WaitingState, Waiting, Answer
  <2>. QED
    BY <2>1, <2>2 DEF PendingIsAwaited
<1>. QED
  BY <1>5, <1>6, <1>7, <1>8

\* PublishRequest, Receive, Expire and Settle move one task along.
LEMMA ProgressRequests ==
  ASSUME TypeOK, FreshIds, WaitingState, OutcomeState, PendingIsAwaited,
         NEW m \in Message, PublishRequest(m) \/ Receive(m) \/ Expire(m) \/ Settle(m)
  PROVE  FreshIds' /\ WaitingState' /\ OutcomeState' /\ PendingIsAwaited'
<1>1. UNCHANGED <<pending, nextId, at, req, chan, reply, verdict>>
  BY DEF PublishRequest, Receive, Expire, Settle, hubVars
<1>2. \A n \in Message : n # m => pc'[n] = pc[n] /\ outcome'[n] = outcome[n]
  BY DEF PublishRequest, Receive, Expire, Settle, Goto, TypeOK
<1>3. \/ pc[m] = "registered" /\ pc'[m] = "waiting"
      \/ /\ pc[m] = "waiting" /\ pc'[m] = "answered"
         /\ \/ chan[m] # "empty" /\ outcome'[m] = chan[m]
            \/ outcome'[m] = "deny"
      \/ pc[m] = "settled" /\ pc'[m] = "running"
  BY DEF PublishRequest, Receive, Expire, Settle, Goto, TypeOK
<1>4. FreshIds'
  BY <1>1, <1>2, <1>3 DEF FreshIds, Waiting
<1>5. WaitingState'
  BY <1>1, <1>2, <1>3 DEF WaitingState, Waiting
<1>6. OutcomeState'
  <2>1. pc'[m] = "answered" =>
          outcome'[m] \in Answer /\ (outcome'[m] = "allow" => reply[req[m]] = "allow")
    BY <1>3 DEF WaitingState, Waiting, Answer
  <2>. QED
    BY <1>1, <1>2, <1>3, <2>1 DEF OutcomeState
<1>7. PendingIsAwaited'
  BY <1>1, <1>2, <1>3 DEF PendingIsAwaited, Waiting
<1>. QED
  BY <1>4, <1>5, <1>6, <1>7

LEMMA ClearRequests ==
  ASSUME TypeOK, Located, SingleActor, FreshIds, WaitingState, OutcomeState, PendingIsAwaited,
         NEW m \in Message, ClearPending(m)
  PROVE  FreshIds' /\ WaitingState' /\ OutcomeState' /\ PendingIsAwaited'
<1>1. /\ pc[m] = "answered" /\ pc'[m] = "settled" /\ at[m] \in Session
      /\ pending'[at[m]] = 0 /\ req[m] \in RequestId /\ verdict'[req[m]] = outcome[m]
      /\ UNCHANGED <<nextId, at, req, chan, outcome, reply>>
  BY DEF ClearPending, Goto, TypeOK, Located, FreshIds, Waiting
<1>2. \A n \in Message : n # m => pc'[n] = pc[n]
  BY DEF ClearPending, Goto, TypeOK
<1>3. /\ \A t \in Session : t # at[m] => pending'[t] = pending[t]
      /\ \A i \in RequestId : i # req[m] => verdict'[i] = verdict[i]
  BY DEF ClearPending, TypeOK
<1>4. \A n \in Message : n # m /\ pc[n] \in Waiting =>
        at[n] \in Session /\ at[n] # at[m] /\ req[n] # req[m] /\ req[n] \in RequestId
  BY <1>1 DEF SingleActor, Located, FreshIds, Active, Waiting
<1>5. verdict[req[m]] = "none" /\ req[m] < nextId
  BY <1>1 DEF WaitingState, FreshIds, Waiting
<1>6. FreshIds'
  <2>1. \A i \in RequestId : i >= nextId' => reply'[i] = "none" /\ verdict'[i] = "none"
    BY <1>1, <1>3, <1>5 DEF FreshIds, TypeOK, RequestId
  <2>. QED
    BY <1>1, <1>2, <2>1 DEF FreshIds, Waiting
<1>7. WaitingState'
  BY <1>1, <1>2, <1>3, <1>4 DEF WaitingState, Waiting
<1>8. OutcomeState'
  <2>1. ASSUME NEW n \in Message, n # m, pc[n] = "settled"
        PROVE  verdict'[req[n]] = outcome[n]
    <3>1. verdict[req[n]] = outcome[n] /\ outcome[n] \in Answer /\ req[n] \in RequestId
      BY <2>1 DEF OutcomeState, FreshIds
    <3>2. req[n] # req[m]
      BY <3>1, <1>5 DEF Answer
    <3>. QED
      BY <3>1, <3>2, <1>3
  <2>. QED
    BY <1>1, <1>2, <2>1 DEF OutcomeState
<1>9. PendingIsAwaited'
  <2>1. ASSUME NEW t \in Session, pending'[t] # 0
        PROVE  \E n \in Message : pc'[n] \in Waiting /\ at'[n] = t /\ req'[n] = pending'[t]
    <3>1. t # at[m] /\ pending'[t] = pending[t]
      BY <2>1, <1>1, <1>3
    <3>2. PICK n \in Message : pc[n] \in Waiting /\ at[n] = t /\ req[n] = pending[t]
      BY <2>1, <3>1 DEF PendingIsAwaited
    <3>. QED
      BY <1>1, <1>2, <3>1, <3>2
  <2>2. \A n \in Message : pc'[n] \in {"registered", "waiting"} /\ chan'[n] = "empty" =>
          pending'[at'[n]] = req'[n]
    BY <1>7 DEF WaitingState, Waiting, Answer
  <2>. QED
    BY <2>1, <2>2 DEF PendingIsAwaited
<1>. QED
  BY <1>6, <1>7, <1>8, <1>9

-----------------------------------------------------------------------------
\* A message keeps the session it was posted to.
LEMMA LocatedStep == TypeOK /\ Located /\ [Next]_vars => Located'
<1> SUFFICES ASSUME TypeOK, Located, [Next]_vars PROVE Located'
  OBVIOUS
<1>1. ASSUME NEW m \in Message, NEW s \in Session, EnsureSession(m, s) PROVE Located'
  BY <1>1 DEF EnsureSession, Goto, Located, TypeOK
<1>2. ASSUME NEW m \in Message, TaskStep(m) PROVE Located'
  <2>1. at' = at
    BY <1>2 DEF TaskStep, TryStart, PrepareFails, Spawn, Open, TaskFails, Emit, Register,
       PublishRequest, Receive, Expire, ClearPending, Settle, PublishDone, PublishError,
       FinishBusy, taskVars
  <2>2. pc[m] # "idle" /\ \A n \in Message : n # m => pc'[n] = pc[n]
    BY <1>2 DEF TaskStep, TryStart, PrepareFails, Spawn, Open, TaskFails, Emit, Register,
       PublishRequest, Receive, Expire, ClearPending, Settle, PublishDone, PublishError,
       FinishBusy, taskVars, Goto, TypeOK
  <2>. QED
    BY <2>1, <2>2 DEF Located
<1>3. CASE \/ \E s \in Session, id \in RequestId, a \in Answer : ResolvePermission(s, id, a)
           \/ \E r \in Reader, s \in Session : Subscribe(r, s)
           \/ \E r \in Reader : Deliver(r) \/ Disconnect(r)
           \/ UNCHANGED vars
  <2>1. UNCHANGED <<pc, at>>
    BY <1>3 DEF ResolvePermission, Subscribe, Deliver, Disconnect, vars, taskVars
  <2>. QED
    BY <2>1 DEF Located
<1>. QED
  BY <1>1, <1>2, <1>3 DEF Next

\* A step that neither starts nor ends a message's turn keeps the single actor.
LEMMA ActorFrame ==
  ASSUME SingleActor, busy' = busy,
         \A n \in Message : pc'[n] \in Active <=> pc[n] \in Active,
         \A n \in Message : pc[n] \in Active => at'[n] = at[n]
  PROVE  SingleActor'
BY DEF SingleActor

\* Only try_start makes a session busy, and only when it is free; only the end of
\* the turn that made it busy frees it.
LEMMA SingleActorStep == TypeOK /\ Located /\ SingleActor /\ [Next]_vars => SingleActor'
<1> SUFFICES ASSUME TypeOK, Located, SingleActor, [Next]_vars PROVE SingleActor'
  OBVIOUS
<1>1. ASSUME NEW m \in Message, NEW s \in Session, EnsureSession(m, s) PROVE SingleActor'
  BY <1>1, ActorFrame DEF EnsureSession, Goto, Active, Waiting, TypeOK
<1>2. ASSUME NEW m \in Message, TryStart(m) PROVE SingleActor'
  <2>1. at[m] \in Session /\ pc[m] \notin Active /\ at' = at
    BY <1>2 DEF TryStart, Goto, Located, Active, Waiting
  <2>2. CASE busy[at[m]]
    BY <1>2, <2>2, ActorFrame DEF TryStart, Goto, Active, Waiting, TypeOK
  <2>3. CASE ~busy[at[m]]
    <3>1. /\ \A n \in Message : n # m => pc'[n] = pc[n]
          /\ pc'[m] \in Active
      BY <1>2, <2>3 DEF TryStart, Goto, Active, Waiting, TypeOK
    <3>2. /\ busy'[at[m]]
          /\ \A s \in Session : s # at[m] => busy'[s] = busy[s]
      BY <1>2, <2>1, <2>3 DEF TryStart, Goto, TypeOK
    <3>3. \A n \in Message : pc[n] \in Active => at[n] # at[m]
      BY <2>1, <2>3 DEF SingleActor
    <3>4. \A s \in Session : busy'[s] <=> \E n \in Message : pc'[n] \in Active /\ at'[n] = s
      BY <2>1, <3>1, <3>2, <3>3 DEF SingleActor
    <3>. QED
      BY <2>1, <3>1, <3>3, <3>4 DEF SingleActor
  <2>. QED
    BY <2>2, <2>3
<1>3. ASSUME NEW m \in Message, PrepareFails(m) \/ FinishBusy(m) PROVE SingleActor'
  <2>1. /\ at[m] \in Session /\ at' = at /\ pc[m] \in Active /\ pc'[m] \notin Active
        /\ \A n \in Message : n # m => pc'[n] = pc[n]
    BY <1>3 DEF PrepareFails, FinishBusy, Goto, Located, Active, Waiting, TypeOK
  <2>2. /\ ~busy'[at[m]]
        /\ \A s \in Session : s # at[m] => busy'[s] = busy[s]
    BY <1>3, <2>1 DEF PrepareFails, FinishBusy, TypeOK
  <2>3. \A s \in Session : busy'[s] <=> \E n \in Message : pc'[n] \in Active /\ at'[n] = s
    BY <2>1, <2>2 DEF SingleActor
  <2>. QED
    BY <2>1, <2>3 DEF SingleActor
<1>4. ASSUME NEW m \in Message,
             \/ Spawn(m) \/ Open(m) \/ TaskFails(m) \/ Emit(m) \/ Register(m)
             \/ PublishRequest(m) \/ Receive(m) \/ Expire(m)
      PROVE SingleActor'
  <2>1. busy' = busy /\ at' = at
    BY <1>4 DEF Spawn, Open, TaskFails, Emit, Register, PublishRequest, Receive, Expire,
       hubVars, taskVars
  <2>2. \A n \in Message : pc'[n] \in Active <=> pc[n] \in Active
    BY <1>4 DEF Spawn, Open, TaskFails, Emit, Register, PublishRequest, Receive, Expire,
       taskVars, Goto, Active, Waiting, TypeOK
  <2>. QED
    BY <2>1, <2>2, ActorFrame
<1>5. ASSUME NEW m \in Message,
             ClearPending(m) \/ Settle(m) \/ PublishDone(m) \/ PublishError(m)
      PROVE SingleActor'
  <2>1. busy' = busy /\ at' = at
    BY <1>5 DEF ClearPending, Settle, PublishDone, PublishError
  <2>2. \A n \in Message : pc'[n] \in Active <=> pc[n] \in Active
    BY <1>5 DEF ClearPending, Settle, PublishDone, PublishError, Goto, Active, Waiting, TypeOK
  <2>. QED
    BY <2>1, <2>2, ActorFrame
<1>6. CASE \/ \E s \in Session, id \in RequestId, a \in Answer : ResolvePermission(s, id, a)
           \/ \E r \in Reader, s \in Session : Subscribe(r, s)
           \/ \E r \in Reader : Deliver(r) \/ Disconnect(r)
           \/ UNCHANGED vars
  <2>1. UNCHANGED <<pc, at, busy>>
    BY <1>6 DEF ResolvePermission, Subscribe, Deliver, Disconnect, vars, hubVars, taskVars
  <2>. QED
    BY <2>1, ActorFrame
<1>. QED
  BY <1>1, <1>2, <1>3, <1>4, <1>5, <1>6 DEF Next, TaskStep

LEMMA BridgeInitially == Init => BridgeInv
<1> SUFFICES ASSUME Init PROVE BridgeInv
  OBVIOUS
<1>1. TypeOK /\ Located /\ FreshIds /\ WaitingState /\ OutcomeState
  BY TypeInitially DEF Init, Located, FreshIds, WaitingState, OutcomeState, Waiting
<1>2. SingleActor /\ PendingIsAwaited
  BY DEF Init, SingleActor, PendingIsAwaited, Active, Waiting
<1>. QED
  BY <1>1, <1>2 DEF BridgeInv

LEMMA BridgeStep == BridgeInv /\ [Next]_vars => BridgeInv'
<1> SUFFICES ASSUME BridgeInv, [Next]_vars PROVE BridgeInv'
  OBVIOUS
<1>1. TypeOK' /\ Located' /\ SingleActor'
  BY TypeStep, LocatedStep, SingleActorStep DEF BridgeInv
<1>2. FreshIds' /\ WaitingState' /\ OutcomeState' /\ PendingIsAwaited'
  BY OtherSteps, RegisterRequests, ResolveRequests, ProgressRequests, ClearRequests
  DEF BridgeInv, Next, TaskStep
<1>. QED
  BY <1>1, <1>2 DEF BridgeInv

THEOREM Bridge == Spec => []BridgeInv
BY BridgeInitially, BridgeStep, PTL DEF Spec

\* ADR 0018: one turn at a time on a session, for any number of messages.
THEOREM OneTurnAtATime == Spec => []SingleActor
BY Bridge, PTL DEF BridgeInv

\* A pending request always has its task, and an unanswered task its request.
THEOREM PendingAlwaysAwaited == Spec => []PendingIsAwaited
BY Bridge, PTL DEF BridgeInv

-----------------------------------------------------------------------------
(* What is acknowledged or returned is never revised. *)

LEMMA AnswersStable ==
  ASSUME BridgeInv, [Next]_vars, NEW i \in RequestId
  PROVE  /\ reply[i] # "none" => reply'[i] = reply[i]
         /\ verdict[i] # "none" => verdict'[i] = verdict[i] /\ reply'[i] = reply[i]
<1>1. CASE UNCHANGED <<reply, verdict>>
  BY <1>1
<1>2. ASSUME NEW m \in Message, ClearPending(m)
      PROVE  reply' = reply /\ (verdict[i] # "none" => verdict'[i] = verdict[i])
  <2>1. pc[m] \in Waiting /\ reply' = reply
    BY <1>2 DEF ClearPending, Goto, Waiting
  <2>2. verdict[req[m]] = "none"
    BY <2>1 DEF BridgeInv, WaitingState
  <2>. QED
    BY <1>2, <2>1, <2>2 DEF ClearPending, BridgeInv, TypeOK
<1>3. ASSUME NEW s \in Session, NEW id \in RequestId, NEW a \in Answer,
             ResolvePermission(s, id, a)
      PROVE  /\ verdict' = verdict
             /\ reply[i] # "none" \/ verdict[i] # "none" => reply'[i] = reply[i]
  <2>1. verdict' = verdict /\ pending[s] = id /\ id # 0 /\ reply' = [reply EXCEPT ![id] = a]
    BY <1>3 DEF ResolvePermission, RequestId
  <2>2. PICK m \in Message : pc[m] \in Waiting /\ at[m] = s /\ req[m] = id
    BY <2>1 DEF BridgeInv, PendingIsAwaited
  <2>3. verdict[id] = "none" /\ reply[id] = "none"
    BY <2>1, <2>2 DEF BridgeInv, WaitingState
  <2>. QED
    BY <2>1, <2>3 DEF BridgeInv, TypeOK
<1>4. CASE \E m \in Message :
             TryStart(m) \/ PrepareFails(m) \/ Spawn(m) \/ Open(m) \/ TaskFails(m) \/ Emit(m)
  BY <1>1, <1>4 DEF TryStart, PrepareFails, Spawn, Open, TaskFails, Emit
<1>5. CASE \E m \in Message :
             \/ Register(m) \/ PublishRequest(m) \/ Receive(m) \/ Expire(m) \/ Settle(m)
             \/ PublishDone(m) \/ PublishError(m) \/ FinishBusy(m)
  BY <1>1, <1>5 DEF Register, PublishRequest, Receive, Expire, Settle, PublishDone,
     PublishError, FinishBusy
<1>6. CASE \/ \E m \in Message, s \in Session : EnsureSession(m, s)
           \/ \E r \in Reader, s \in Session : Subscribe(r, s)
           \/ \E r \in Reader : Deliver(r) \/ Disconnect(r)
           \/ UNCHANGED vars
  BY <1>1, <1>6 DEF EnsureSession, Subscribe, Deliver, Disconnect, vars
<1>. QED
  BY <1>2, <1>3, <1>4, <1>5, <1>6 DEF Next, TaskStep

\* The acknowledged answer and the result of a request are final.
THEOREM AnswersAreFinal == Spec => AnsweredOnce
<1>1. BridgeInv /\ [Next]_vars =>
        [\A i \in RequestId :
           /\ reply[i] # "none" => reply'[i] = reply[i]
           /\ verdict[i] # "none" => verdict'[i] = verdict[i] /\ reply'[i] = reply[i]]_vars
  BY AnswersStable
<1>. QED
  BY <1>1, Bridge, PTL DEF Spec, AnsweredOnce

-----------------------------------------------------------------------------
(* How a step changes the logs: by one event of one active turn at most. *)

LEMMA LogStep ==
  ASSUME BridgeInv, [Next]_vars
  PROVE  \/ log' = log
         \/ \E m \in Message, k \in EventKind, i \in Nat :
              /\ log' = [log EXCEPT ![at[m]] = Append(@, [kind |-> k, msg |-> m, req |-> i])]
              /\ at[m] \in Session /\ at' = at
              /\ pc[m] \in Active \ {"releasing"} /\ pc'[m] \in Active
              /\ \A n \in Message : n # m => pc'[n] = pc[n]
              /\ k \in {"done", "error"} => pc'[m] = "releasing"
              /\ k = "started" => /\ i \in RequestId
                                  /\ verdict[i] = "allow" /\ reply[i] = "allow"
<1>1. ASSUME NEW m \in Message, Emit(m) \/ PublishRequest(m) \/ PublishDone(m) \/ PublishError(m)
      PROVE  \E k \in EventKind, i \in Nat :
               /\ log' = [log EXCEPT ![at[m]] = Append(@, [kind |-> k, msg |-> m, req |-> i])]
               /\ at[m] \in Session /\ at' = at
               /\ pc[m] \in Active \ {"releasing"} /\ pc'[m] \in Active
               /\ \A n \in Message : n # m => pc'[n] = pc[n]
               /\ k \in {"done", "error"} => pc'[m] = "releasing"
               /\ k # "started"
  <2>1. /\ at[m] \in Session /\ at' = at
        /\ pc[m] \in Active \ {"releasing"} /\ pc'[m] \in Active
        /\ \A n \in Message : n # m => pc'[n] = pc[n]
        /\ PublishDone(m) \/ PublishError(m) => pc'[m] = "releasing"
    BY <1>1 DEF Emit, PublishRequest, PublishDone, PublishError, taskVars, Goto, BridgeInv,
       TypeOK, Located, Active, Waiting
  <2>2. req[m] \in Nat /\ 0 \in Nat /\ {"progress", "request", "done", "error"} \subseteq EventKind
    BY DEF BridgeInv, TypeOK, EventKind
  <2>3. CASE Emit(m)
    BY <2>1, <2>2, <2>3 DEF Emit, Publish
  <2>4. CASE PublishRequest(m)
    BY <2>1, <2>2, <2>4 DEF PublishRequest, Publish
  <2>5. CASE PublishDone(m)
    BY <2>1, <2>2, <2>5 DEF PublishDone, Publish
  <2>6. CASE PublishError(m)
    BY <2>1, <2>2, <2>6 DEF PublishError, Publish
  <2>. QED
    BY <1>1, <2>3, <2>4, <2>5, <2>6
<1>2. ASSUME NEW m \in Message, Settle(m)
      PROVE  \E k \in EventKind, i \in Nat :
               /\ log' = [log EXCEPT ![at[m]] = Append(@, [kind |-> k, msg |-> m, req |-> i])]
               /\ at[m] \in Session /\ at' = at
               /\ pc[m] \in Active \ {"releasing"} /\ pc'[m] \in Active
               /\ \A n \in Message : n # m => pc'[n] = pc[n]
               /\ k \notin {"done", "error"}
               /\ k = "started" => i \in RequestId /\ verdict[i] = "allow" /\ reply[i] = "allow"
  <2>. DEFINE k == IF outcome[m] = "allow" THEN "started" ELSE "denied"
  <2>1. /\ at[m] \in Session /\ at' = at /\ pc[m] = "settled"
        /\ pc[m] \in Active \ {"releasing"} /\ pc'[m] \in Active
        /\ \A n \in Message : n # m => pc'[n] = pc[n]
    BY <1>2 DEF Settle, Goto, BridgeInv, TypeOK, Located, Active, Waiting
  <2>2. req[m] \in Nat /\ k \in EventKind /\ k \notin {"done", "error"}
    BY DEF BridgeInv, TypeOK, EventKind
  <2>3. k = "started" =>
          req[m] \in RequestId /\ verdict[req[m]] = "allow" /\ reply[req[m]] = "allow"
    BY <2>1 DEF BridgeInv, FreshIds, OutcomeState
  <2>4. log' = [log EXCEPT ![at[m]] = Append(@, [kind |-> k, msg |-> m, req |-> req[m]])]
    BY <1>2 DEF Settle, Publish
  <2>. QED
    BY <2>1, <2>2, <2>3, <2>4
<1>3. CASE \E m \in Message :
             \/ TryStart(m) \/ PrepareFails(m) \/ Spawn(m) \/ Open(m) \/ TaskFails(m)
             \/ Register(m) \/ Receive(m) \/ Expire(m) \/ ClearPending(m) \/ FinishBusy(m)
  BY <1>3 DEF TryStart, PrepareFails, Spawn, Open, TaskFails, Register, Receive, Expire,
     ClearPending, FinishBusy, hubVars
<1>4. CASE \/ \E m \in Message, s \in Session : EnsureSession(m, s)
           \/ \E s \in Session, id \in RequestId, a \in Answer : ResolvePermission(s, id, a)
           \/ \E r \in Reader, s \in Session : Subscribe(r, s)
           \/ \E r \in Reader : Deliver(r) \/ Disconnect(r)
           \/ UNCHANGED vars
  BY <1>4 DEF EnsureSession, ResolvePermission, Subscribe, Deliver, Disconnect, vars, hubVars
<1>5. CASE \E m \in Message : \/ Emit(m) \/ PublishRequest(m) \/ PublishDone(m)
                             \/ PublishError(m) \/ Settle(m)
  <2>1. PICK m \in Message : Emit(m) \/ PublishRequest(m) \/ PublishDone(m) \/ PublishError(m)
                              \/ Settle(m)
    BY <1>5
  <2>2. CASE Settle(m)
    BY <2>2, <1>2
  <2>3. CASE Emit(m) \/ PublishRequest(m) \/ PublishDone(m) \/ PublishError(m)
    BY <2>3, <1>1
  <2>. QED
    BY <2>1, <2>2, <2>3
<1>. QED
  BY <1>3, <1>4, <1>5 DEF Next, TaskStep

\* Entries of a log after a step: the old ones, and at most one new last one.
LEMMA AppendEntries ==
  ASSUME NEW l \in Seq(Event), NEW e \in Event
  PROVE  /\ Append(l, e) \in Seq(Event)
         /\ Len(Append(l, e)) = Len(l) + 1
         /\ DOMAIN Append(l, e) = 1..(Len(l) + 1)
         /\ DOMAIN l = 1..Len(l) /\ Len(l) \in Nat
         /\ \A i \in 1..Len(l) : Append(l, e)[i] = l[i]
         /\ Append(l, e)[Len(l) + 1] = e
OBVIOUS

LEMMA FailClosedStep ==
  ASSUME BridgeInv, StartedKnown, FailClosed, [Next]_vars
  PROVE  StartedKnown' /\ FailClosed'
<1>1. ASSUME NEW s \in Session, NEW i \in DOMAIN log'[s], log'[s][i].kind = "started"
      PROVE  /\ log'[s][i].req \in RequestId
             /\ verdict'[log'[s][i].req] = "allow" /\ reply'[log'[s][i].req] = "allow"
  <2>1. ASSUME NEW j \in RequestId, verdict[j] = "allow", reply[j] = "allow"
        PROVE  verdict'[j] = "allow" /\ reply'[j] = "allow"
    BY <2>1, AnswersStable
  <2>2. ASSUME i \in DOMAIN log[s], log'[s][i] = log[s][i]
        PROVE  /\ log'[s][i].req \in RequestId
               /\ verdict[log'[s][i].req] = "allow" /\ reply[log'[s][i].req] = "allow"
    BY <1>1, <2>2 DEF StartedKnown, FailClosed
  <2>3. CASE log' = log
    BY <2>1, <2>2, <2>3
  <2>4. ASSUME NEW m \in Message, NEW k \in EventKind, NEW n \in Nat,
               log' = [log EXCEPT ![at[m]] = Append(@, [kind |-> k, msg |-> m, req |-> n])],
               k = "started" => n \in RequestId /\ verdict[n] = "allow" /\ reply[n] = "allow"
        PROVE  /\ log'[s][i].req \in RequestId
               /\ verdict[log'[s][i].req] = "allow" /\ reply[log'[s][i].req] = "allow"
    <3>. DEFINE e == [kind |-> k, msg |-> m, req |-> n]
    <3>1. e \in Event /\ log \in [Session -> Seq(Event)] /\ log[s] \in Seq(Event)
      BY DEF Event, BridgeInv, TypeOK
    <3>2. CASE s # at[m]
      <4>1. log'[s] = log[s]
        BY <2>4, <3>1, <3>2
      <4>. QED
        BY <4>1, <2>2
    <3>3. CASE s = at[m]
      <4>1. log'[s] = Append(log[s], e)
        BY <2>4, <3>1, <3>3
      <4>2. CASE i \in 1..Len(log[s])
        BY <4>1, <4>2, <3>1, <2>2, AppendEntries
      <4>3. CASE i = Len(log[s]) + 1
        <5>1. log'[s][i] = e
          BY <4>1, <4>3, <3>1, AppendEntries
        <5>2. k = "started" /\ log'[s][i].req = n
          BY <5>1, <1>1
        <5>. QED
          BY <5>2, <2>4
      <4>4. i \in 1..(Len(log[s]) + 1) /\ Len(log[s]) \in Nat
        BY <4>1, <3>1, AppendEntries
      <4>. QED
        BY <4>2, <4>3, <4>4
    <3>. QED
      BY <3>2, <3>3
  <2>5. CASE log' # log
    <3>1. PICK m \in Message, k \in EventKind, n \in Nat :
            /\ log' = [log EXCEPT ![at[m]] = Append(@, [kind |-> k, msg |-> m, req |-> n])]
            /\ k = "started" => n \in RequestId /\ verdict[n] = "allow" /\ reply[n] = "allow"
      BY <2>5, LogStep
    <3>2. /\ log'[s][i].req \in RequestId
          /\ verdict[log'[s][i].req] = "allow" /\ reply[log'[s][i].req] = "allow"
      BY <3>1, <2>4
    <3>. QED
      BY <3>2, <2>1
  <2>. QED
    BY <2>3, <2>5
<1>. QED
  BY <1>1 DEF StartedKnown, FailClosed

\* ADR 0017: no timeout or late answer ever starts a tool nobody allowed.
THEOREM ToolsStartOnlyWhenAllowed == Spec => []FailClosed
<1>1. Init => StartedKnown /\ FailClosed
  BY DEF Init, StartedKnown, FailClosed
<1>2. BridgeInv /\ StartedKnown /\ FailClosed /\ [Next]_vars => StartedKnown' /\ FailClosed'
  BY FailClosedStep
<1>. QED
  BY <1>1, <1>2, Bridge, PTL DEF Spec

-----------------------------------------------------------------------------
(* Turns are contiguous in the log. *)

\* A message past try_start stays past it, keeps its session, is not active again
\* once it ended, and does not leave "releasing" for another active step.
LEMMA PcStep ==
  ASSUME TypeOK, [Next]_vars, NEW n \in Message, pc[n] \notin {"idle", "admitted"}
  PROVE  /\ pc'[n] \notin {"idle", "admitted"} /\ at'[n] = at[n]
         /\ pc'[n] \in Active => pc[n] \in Active
         /\ pc'[n] \in Active \ {"releasing"} => pc[n] # "releasing"
<1>1. ASSUME NEW m \in Message, n # m, (\E s \in Session : EnsureSession(m, s)) \/ TaskStep(m)
      PROVE  pc'[n] = pc[n] /\ at'[n] = at[n]
  <2>1. CASE \E s \in Session : EnsureSession(m, s)
    BY <1>1, <2>1 DEF EnsureSession, Goto, TypeOK
  <2>2. CASE TaskStep(m)
    BY <1>1, <2>2 DEF TaskStep, TryStart, PrepareFails, Spawn, Open, TaskFails, Emit, Register,
       PublishRequest, Receive, Expire, ClearPending, Settle, PublishDone, PublishError,
       FinishBusy, taskVars, Goto, TypeOK
  <2>. QED
    BY <1>1, <2>1, <2>2
<1>2. CASE (\E s \in Session : EnsureSession(n, s)) \/ TryStart(n)
  BY <1>2 DEF EnsureSession, TryStart, Goto
<1>3. CASE \/ PrepareFails(n) \/ Spawn(n) \/ Open(n) \/ TaskFails(n) \/ Emit(n) \/ FinishBusy(n)
  BY <1>3 DEF PrepareFails, Spawn, Open, TaskFails, Emit, FinishBusy, taskVars, Goto, TypeOK,
     Active, Waiting
<1>4. CASE \/ Register(n) \/ PublishRequest(n) \/ Receive(n) \/ Expire(n) \/ ClearPending(n)
           \/ Settle(n) \/ PublishDone(n) \/ PublishError(n)
  BY <1>4 DEF Register, PublishRequest, Receive, Expire, ClearPending, Settle, PublishDone,
     PublishError, Goto, TypeOK, Active, Waiting
<1>5. CASE \/ \E s \in Session, id \in RequestId, a \in Answer : ResolvePermission(s, id, a)
           \/ \E r \in Reader, s \in Session : Subscribe(r, s)
           \/ \E r \in Reader : Deliver(r) \/ Disconnect(r)
           \/ UNCHANGED vars
  BY <1>5 DEF ResolvePermission, Subscribe, Deliver, Disconnect, vars, taskVars
<1>. QED
  BY <1>1, <1>2, <1>3, <1>4, <1>5 DEF Next, TaskStep

LEMMA TurnsStep ==
  ASSUME BridgeInv, TurnShape, TurnsAreWhole, [Next]_vars
  PROVE  TurnShape' /\ TurnsAreWhole'
<1>. USE DEF BridgeInv
<1>1. \A s \in Session : log[s] \in Seq(Event)
  BY DEF TypeOK
<1>2. \A s \in Session : \A i \in DOMAIN log[s] : log[s][i].msg \in Message
  BY <1>1, LogEntry
<1>3. CASE log' = log
  BY <1>2, <1>3, PcStep DEF TurnShape, TurnsAreWhole
<1>4. ASSUME NEW m \in Message, NEW k \in EventKind, NEW c \in Nat,
             log' = [log EXCEPT ![at[m]] = Append(@, [kind |-> k, msg |-> m, req |-> c])],
             at[m] \in Session, at' = at,
             pc[m] \in Active \ {"releasing"}, pc'[m] \in Active,
             \A n \in Message : n # m => pc'[n] = pc[n],
             k \in {"done", "error"} => pc'[m] = "releasing"
      PROVE  TurnShape' /\ TurnsAreWhole'
  <2>. DEFINE e == [kind |-> k, msg |-> m, req |-> c]
              t == at[m]
              len == Len(log[t])
  <2>1. /\ e \in Event /\ e.msg = m /\ e.kind = k
        /\ log'[t] = Append(log[t], e)
        /\ \A s \in Session : s # t => log'[s] = log[s]
    BY <1>4 DEF Event, TypeOK
  <2>2. /\ len \in Nat /\ DOMAIN log[t] = 1..len
        /\ DOMAIN log'[t] = 1..(len + 1) /\ Len(log'[t]) = len + 1
        /\ log'[t][len + 1] = e
        /\ \A i \in 1..len : log'[t][i] = log[t][i]
    BY <1>1, <1>4, <2>1, AppendEntries
  <2>3. pc'[m] \notin {"idle", "admitted"}
    BY <1>4 DEF Active, Waiting
  <2>4. \A i \in 1..len : log[t][i].msg = m =>
          log[t][len].msg = m /\ log[t][i].kind \notin {"done", "error"}
    BY <1>4, <2>2 DEF TurnShape
  <2>5. ASSUME NEW s \in Session, NEW i \in DOMAIN log'[s]
        PROVE  LET n == log'[s][i].msg IN
               /\ pc'[n] \notin {"idle", "admitted"} /\ at'[n] = s
               /\ pc'[n] \in Active =>
                    /\ log'[s][Len(log'[s])].msg = n
                    /\ pc'[n] # "releasing" => log'[s][i].kind \notin {"done", "error"}
    <3>1. CASE s # t
      <4>1. log'[s] = log[s] /\ i \in DOMAIN log[s] /\ log[s][i].msg \in Message
        BY <2>1, <3>1, <1>2
      <4>2. log[s][i].msg # m
        BY <4>1, <3>1 DEF TurnShape
      <4>. QED
        BY <4>1, <4>2, <1>4 DEF TurnShape
    <3>2. CASE s = t /\ i \in 1..len
      <4>. DEFINE n == log[t][i].msg
      <4>1. log'[s][i] = log[t][i] /\ i \in DOMAIN log[t] /\ n \in Message /\ at[n] = t
        BY <2>2, <3>2, <1>2, <1>4 DEF TurnShape
      <4>2. CASE n = m
        BY <4>1, <4>2, <3>2, <2>1, <2>2, <2>3, <2>4, <1>4
      <4>3. CASE n # m
        <5>1. pc'[n] = pc[n] /\ pc[n] \notin Active
          BY <4>1, <4>3, <1>4 DEF SingleActor
        <5>. QED
          BY <4>1, <5>1, <1>4, <3>2 DEF TurnShape
      <4>. QED
        BY <4>2, <4>3
    <3>3. CASE s = t /\ i = len + 1
      BY <3>3, <2>1, <2>2, <2>3, <1>4
    <3>. QED
      BY <3>1, <3>2, <3>3, <2>2
  <2>6. TurnShape'
    BY <2>5 DEF TurnShape
  <2>6a. ASSUME NEW a \in 1..len, NEW b \in 1..len, a < b
         PROVE  /\ log[t][a].kind \in {"done", "error"} => log[t][b].msg # log[t][a].msg
                /\ log[t][a].msg = log[t][b].msg =>
                     \A h \in a..b : log[t][h].msg = log[t][a].msg
    <3>1. a \in DOMAIN log[t] /\ b \in DOMAIN log[t] /\ t \in Session
      BY <2>2, <1>4
    <3>. QED
      BY <2>6a, <3>1 DEF TurnsAreWhole
  <2>6b. ASSUME NEW a \in 1..len, NEW h \in a..len, log[t][a].msg = m
         PROVE  log[t][h].msg = m
    <3>1. log[t][len].msg = m
      BY <2>4, <2>6b
    <3>2. len \in Nat
      BY <2>2
    <3>3. a = len \/ a < len
      BY <3>2
    <3>4. CASE a = len
      <4>1. h = len
        BY <3>2, <3>4
      <4>. QED
        BY <3>1, <4>1
    <3>5. CASE a < len
      <4>1. len \in 1..len
        BY <3>2
      <4>2. log[t][h].msg = log[t][a].msg
        BY <2>6a, <2>6b, <3>1, <3>5, <4>1
      <4>. QED
        BY <2>6b, <4>2
    <3>. QED
      BY <3>3, <3>4, <3>5
  <2>7. ASSUME NEW s \in Session, NEW i \in DOMAIN log'[s], NEW j \in DOMAIN log'[s], i < j
        PROVE  /\ log'[s][i].kind \in {"done", "error"} => log'[s][j].msg # log'[s][i].msg
               /\ log'[s][i].msg = log'[s][j].msg =>
                    \A h \in i..j : log'[s][h].msg = log'[s][i].msg
    <3>1. CASE s # t
      BY <2>1, <2>7, <3>1 DEF TurnsAreWhole
    <3>2. CASE s = t /\ j \in 1..len
      <4>0. i \in 1..(len + 1) /\ len \in Nat /\ j \in 1..len
        BY <2>2, <3>2
      <4>1. i \in 1..len /\ \A h \in i..j : h \in 1..len
        BY <2>7, <4>0
      <4>2. \A h \in i..j : log'[s][h] = log[t][h]
        BY <2>2, <3>2, <4>1
      <4>3. log'[s][i] = log[t][i] /\ log'[s][j] = log[t][j]
        BY <2>2, <3>2, <4>1
      <4>4. /\ log[t][i].kind \in {"done", "error"} => log[t][j].msg # log[t][i].msg
            /\ log[t][i].msg = log[t][j].msg => \A h \in i..j : log[t][h].msg = log[t][i].msg
        BY <2>6a, <2>7, <3>2, <4>1
      <4>. QED
        BY <4>2, <4>3, <4>4
    <3>3. CASE s = t /\ j = len + 1
      <4>1. i \in 1..len /\ log'[s][j].msg = m /\ log'[s][i] = log[t][i]
        BY <2>1, <2>2, <2>7, <3>3
      <4>2. ASSUME log[t][i].msg = m, NEW h \in i..j
            PROVE  log'[s][h].msg = m
        <5>1. CASE h = len + 1
          BY <5>1, <2>1, <2>2, <3>3
        <5>2. CASE h \in 1..len
          <6>1. h \in i..len /\ log[t][i].msg = m
            BY <4>2, <5>2
          <6>2. log[t][h].msg = m
            BY <4>1, <6>1, <2>6b
          <6>. QED
            BY <6>2, <5>2, <2>2, <3>3
        <5>. QED
          BY <5>1, <5>2, <4>1, <3>3, <2>2
      <4>. QED
        BY <4>1, <4>2, <2>4
    <3>4. s = t => j \in 1..len \/ j = len + 1
      BY <2>2
    <3>. QED
      BY <3>1, <3>2, <3>3, <3>4
  <2>8. TurnsAreWhole'
    BY <2>7 DEF TurnsAreWhole
  <2>. QED
    BY <2>6, <2>8
<1>5. CASE log' # log
  <2>1. PICK m \in Message, k \in EventKind, c \in Nat :
          /\ log' = [log EXCEPT ![at[m]] = Append(@, [kind |-> k, msg |-> m, req |-> c])]
          /\ at[m] \in Session /\ at' = at
          /\ pc[m] \in Active \ {"releasing"} /\ pc'[m] \in Active
          /\ \A n \in Message : n # m => pc'[n] = pc[n]
          /\ k \in {"done", "error"} => pc'[m] = "releasing"
    BY <1>5, LogStep
  <2>. QED
    BY <2>1, <1>4
<1>. QED
  BY <1>3, <1>5

\* ADR 0018: turns never interleave in a session's log, nor outlive their end.
THEOREM TurnsAlwaysWhole == Spec => []TurnsAreWhole
<1>1. Init => TurnShape /\ TurnsAreWhole
  BY DEF Init, TurnShape, TurnsAreWhole
<1>2. BridgeInv /\ TurnShape /\ TurnsAreWhole /\ [Next]_vars => TurnShape' /\ TurnsAreWhole'
  BY TurnsStep
<1>. QED
  BY <1>1, <1>2, Bridge, PTL DEF Spec

\* ADR 0018: a session runs one message at a time, and their events never interleave.
THEOREM TurnsAlwaysApart == Spec => []TurnsStayApart
BY OneTurnAtATime, TurnsAlwaysWhole, PTL DEF TurnsStayApart

-----------------------------------------------------------------------------
(* A pending request reaches every connected browser. *)

\* A step publishes nothing, or one event of one turn; a task that waits afterwards
\* has published its request, and an id is given only to a task that has not.
LEMMA RequestStep ==
  ASSUME BridgeInv, [Next]_vars
  PROVE  \/ /\ log' = log /\ nextId' >= nextId
            /\ \A n \in Message : pc'[n] \in Waiting =>
                 /\ pc[n] \in Waiting /\ req'[n] = req[n] /\ at'[n] = at[n]
                 /\ pc[n] # "registered" => pc'[n] # "registered"
         \/ /\ log' = log /\ nextId' = nextId + 1
            /\ \E m \in Message :
                 /\ req'[m] = nextId
                 /\ \A n \in Message : n # m => pc'[n] = pc[n] /\ req'[n] = req[n] /\ at'[n] = at[n]
         \/ /\ nextId' = nextId /\ req' = req /\ at' = at
            /\ \E m \in Message, k \in EventKind, i \in Nat :
                 /\ log' = [log EXCEPT ![at[m]] = Append(@, [kind |-> k, msg |-> m, req |-> i])]
                 /\ at[m] \in Session /\ pc[m] \in Active
                 /\ \A n \in Message : n # m => pc'[n] = pc[n]
                 /\ k = "request" => pc[m] = "registered" /\ i = req[m]
                 /\ pc'[m] \in Waiting => k = "request" /\ pc'[m] = "waiting"
<1>. USE DEF BridgeInv
<1>. DEFINE Quiet == /\ log' = log /\ nextId' >= nextId
                     /\ \A n \in Message : pc'[n] \in Waiting =>
                          /\ pc[n] \in Waiting /\ req'[n] = req[n] /\ at'[n] = at[n]
                          /\ pc[n] # "registered" => pc'[n] # "registered"
            Given(m) == /\ req'[m] = nextId
                        /\ \A n \in Message : n # m =>
                             pc'[n] = pc[n] /\ req'[n] = req[n] /\ at'[n] = at[n]
            Publishes(m, k, i) ==
              /\ log' = [log EXCEPT ![at[m]] = Append(@, [kind |-> k, msg |-> m, req |-> i])]
              /\ at[m] \in Session /\ pc[m] \in Active
              /\ \A n \in Message : n # m => pc'[n] = pc[n]
              /\ k = "request" => pc[m] = "registered" /\ i = req[m]
              /\ pc'[m] \in Waiting => k = "request" /\ pc'[m] = "waiting"
<1>. SUFFICES
       \/ Quiet
       \/ log' = log /\ nextId' = nextId + 1 /\ \E m \in Message : Given(m)
       \/ /\ nextId' = nextId /\ req' = req /\ at' = at
          /\ \E m \in Message, k \in EventKind, i \in Nat : Publishes(m, k, i)
  OBVIOUS
<1>0. nextId \in Nat /\ nextId >= nextId
  BY HubAssumption DEF TypeOK
<1>1. CASE \E m \in Message, s \in Session : EnsureSession(m, s)
  BY <1>0, <1>1 DEF EnsureSession, Goto, Waiting, TypeOK
<1>2. CASE \E m \in Message :
             TryStart(m) \/ PrepareFails(m) \/ Spawn(m) \/ Open(m) \/ TaskFails(m)
  <2>1. log' = log /\ nextId' = nextId /\ req' = req /\ at' = at
    BY <1>2 DEF TryStart, PrepareFails, Spawn, Open, TaskFails, hubVars
  <2>2. \A n \in Message : pc'[n] \in Waiting => pc'[n] = pc[n]
    BY <1>2 DEF TryStart, PrepareFails, Spawn, Open, TaskFails, Goto, Waiting, TypeOK
  <2>. QED
    BY <1>0, <2>1, <2>2
<1>3. CASE \E m \in Message : Receive(m) \/ Expire(m) \/ ClearPending(m) \/ FinishBusy(m)
  <2>1. log' = log /\ nextId' = nextId /\ req' = req /\ at' = at
    BY <1>3 DEF Receive, Expire, ClearPending, FinishBusy, hubVars
  <2>2. \A n \in Message : pc'[n] \in Waiting =>
          /\ pc[n] \in Waiting
          /\ pc[n] # "registered" => pc'[n] # "registered"
    BY <1>3 DEF Receive, Expire, ClearPending, FinishBusy, Goto, Waiting, TypeOK
  <2>. QED
    BY <1>0, <2>1, <2>2
<1>4. ASSUME NEW m \in Message, Register(m)
      PROVE  log' = log /\ nextId' = nextId + 1 /\ Given(m)
  BY <1>4 DEF Register, Goto, TypeOK
<1>5. ASSUME NEW m \in Message, PublishRequest(m)
      PROVE  nextId' = nextId /\ req' = req /\ at' = at /\ Publishes(m, "request", req[m])
  BY <1>5 DEF PublishRequest, Publish, Goto, TypeOK, Located, Active, Waiting
<1>6. ASSUME NEW m \in Message, Emit(m) \/ Settle(m) \/ PublishDone(m) \/ PublishError(m)
      PROVE  /\ nextId' = nextId /\ req' = req /\ at' = at
             /\ \E k \in EventKind, i \in Nat : Publishes(m, k, i)
  <2>1. /\ nextId' = nextId /\ req' = req /\ at' = at /\ at[m] \in Session
        /\ pc[m] \in Active /\ pc'[m] \notin Waiting
        /\ \A n \in Message : n # m => pc'[n] = pc[n]
    BY <1>6 DEF Emit, Settle, PublishDone, PublishError, taskVars, Goto, TypeOK, Located,
       Active, Waiting
  <2>2. \E k \in EventKind \ {"request"}, i \in Nat :
          log' = [log EXCEPT ![at[m]] = Append(@, [kind |-> k, msg |-> m, req |-> i])]
    <3>1. req[m] \in Nat /\ {"progress", "started", "denied", "done", "error"}
            \subseteq EventKind \ {"request"}
      BY DEF TypeOK, EventKind
    <3>. QED
      BY <1>6, <3>1 DEF Emit, Settle, PublishDone, PublishError, Publish
  <2>. QED
    BY <2>1, <2>2
<1>7. CASE \/ \E s \in Session, id \in RequestId, a \in Answer : ResolvePermission(s, id, a)
           \/ \E r \in Reader, s \in Session : Subscribe(r, s)
           \/ \E r \in Reader : Deliver(r) \/ Disconnect(r)
           \/ UNCHANGED vars
  <2>1. UNCHANGED <<log, nextId, pc, req, at>>
    BY <1>7 DEF ResolvePermission, Subscribe, Deliver, Disconnect, vars, hubVars, taskVars
  <2>. QED
    BY <1>0, <2>1
<1>8. ASSUME NEW m \in Message, PublishRequest(m)
      PROVE  /\ nextId' = nextId /\ req' = req /\ at' = at
             /\ \E k \in EventKind, i \in Nat : Publishes(m, k, i)
  <2>1. req[m] \in Nat /\ "request" \in EventKind
    BY DEF TypeOK, EventKind
  <2>. QED
    BY <1>5, <1>8, <2>1
<1>. HIDE DEF Quiet, Given, Publishes
<1>. QED
  BY <1>1, <1>2, <1>3, <1>4, <1>6, <1>7, <1>8 DEF Next, TaskStep

LEMMA RequestEventsStep ==
  ASSUME BridgeInv, RequestEvents, [Next]_vars
  PROVE  RequestEvents'
<1>. USE DEF BridgeInv
<1>1. \A s \in Session : log[s] \in Seq(Event)
  BY DEF TypeOK
<1>2. nextId \in Nat /\ nextId' \in Nat
  BY TypeStep, HubAssumption DEF TypeOK
<1>3. ASSUME log' = log, nextId' >= nextId,
             \A n \in Message : pc'[n] \in Waiting =>
               /\ pc[n] \in Waiting /\ req'[n] = req[n] /\ at'[n] = at[n]
               /\ pc[n] # "registered" => pc'[n] # "registered"
      PROVE  RequestEvents'
  <2>1. \A s \in Session : \A i \in DOMAIN log[s] : log[s][i].req \in Nat
    BY <1>1, LogEntry
  <2>. QED
    BY <1>2, <1>3, <2>1 DEF RequestEvents
<1>4. ASSUME NEW m \in Message, log' = log, nextId' = nextId + 1, req'[m] = nextId,
             \A n \in Message : n # m => pc'[n] = pc[n] /\ req'[n] = req[n] /\ at'[n] = at[n]
      PROVE  RequestEvents'
  <2>1. \A s \in Session : \A i \in DOMAIN log[s] : log[s][i].req \in Nat
    BY <1>1, LogEntry
  <2>. QED
    BY <1>2, <1>4, <2>1 DEF RequestEvents
<1>5. ASSUME NEW m \in Message, NEW k \in EventKind, NEW c \in Nat,
             nextId' = nextId, req' = req, at' = at,
             log' = [log EXCEPT ![at[m]] = Append(@, [kind |-> k, msg |-> m, req |-> c])],
             at[m] \in Session, pc[m] \in Active,
             \A n \in Message : n # m => pc'[n] = pc[n],
             k = "request" => pc[m] = "registered" /\ c = req[m],
             pc'[m] \in Waiting => k = "request" /\ pc'[m] = "waiting"
      PROVE  RequestEvents'
  <2>. DEFINE e == [kind |-> k, msg |-> m, req |-> c]
              t == at[m]
              len == Len(log[t])
  <2>1. /\ e \in Event /\ e.kind = k /\ e.req = c
        /\ log'[t] = Append(log[t], e)
        /\ \A s \in Session : s # t => log'[s] = log[s]
    BY <1>5 DEF Event, TypeOK
  <2>2. /\ len \in Nat /\ DOMAIN log[t] = 1..len
        /\ DOMAIN log'[t] = 1..(len + 1) /\ Len(log'[t]) = len + 1
        /\ log'[t][len + 1] = e
        /\ \A i \in 1..len : log'[t][i] = log[t][i]
    BY <1>1, <1>5, <2>1, AppendEntries
  <2>3. \A n \in Message : n # m /\ pc[n] \in Waiting => at[n] # t
    BY <1>5 DEF SingleActor, Active
  <2>4. ASSUME NEW s \in Session, NEW i \in DOMAIN log[s], log[s][i].kind = "request"
        PROVE  /\ log[s][i].req < nextId
               /\ \A n \in Message : pc'[n] \in Waiting /\ req[n] = log[s][i].req =>
                    n # m /\ pc'[n] # "registered" /\ at[n] = s /\ s # t /\ i = Len(log[s])
    <3>1. ASSUME NEW n \in Message, pc'[n] \in Waiting, req[n] = log[s][i].req
          PROVE  n # m
      <4>1. SUFFICES ASSUME n = m PROVE FALSE
        OBVIOUS
      <4>2. pc[m] = "registered" /\ pc[m] \in Waiting
        BY <3>1, <4>1, <1>5 DEF Waiting
      <4>. QED
        BY <4>1, <4>2, <3>1, <2>4 DEF RequestEvents
    <3>. QED
      BY <3>1, <2>3, <2>4, <1>5 DEF RequestEvents
  <2>5. k = "request" =>
          /\ c < nextId
          /\ \A n \in Message : pc'[n] \in Waiting /\ req[n] = c => n = m
    BY <1>5 DEF FreshIds, Waiting
  <2>6. ASSUME NEW s \in Session, NEW i \in DOMAIN log'[s], log'[s][i].kind = "request"
        PROVE  /\ log'[s][i].req < nextId
               /\ \A n \in Message : pc'[n] \in Waiting /\ req[n] = log'[s][i].req =>
                    pc'[n] # "registered" /\ at[n] = s /\ i = Len(log'[s])
    <3>1. CASE s # t
      BY <2>1, <2>4, <2>6, <3>1
    <3>2. CASE s = t /\ i \in 1..len
      BY <2>2, <2>4, <2>6, <3>2
    <3>3. CASE s = t /\ i = len + 1
      BY <2>1, <2>2, <2>5, <2>6, <3>3, <1>5
    <3>. QED
      BY <2>2, <3>1, <3>2, <3>3
  <2>. QED
    BY <2>6, <1>5 DEF RequestEvents
<1>. QED
  BY <1>3, <1>4, <1>5, RequestStep

LEMMA ReaderPlaceStep ==
  ASSUME BridgeInv, ReaderPlace, [Next]_vars
  PROVE  ReaderPlace'
<1>. USE DEF BridgeInv
<1>0. /\ \A s \in Session : log[s] \in Seq(Event) /\ Len(log[s]) \in Nat
      /\ conn \in [Reader -> Session \cup {None}] /\ cursor \in [Reader -> Nat]
      /\ seen \in [Reader -> SUBSET Nat]
  BY DEF TypeOK
<1>1. CASE UNCHANGED readerVars
  <2>1. ASSUME NEW s \in Session
        PROVE  /\ Len(log'[s]) \in Nat /\ Len(log'[s]) >= Len(log[s])
               /\ \A i \in 1..Len(log[s]) : log'[s][i] = log[s][i]
    <3>1. CASE log' = log
      BY <3>1, <1>0
    <3>2. CASE log' # log
      <4>1. PICK m \in Message, k \in EventKind, i \in Nat :
              log' = [log EXCEPT ![at[m]] = Append(@, [kind |-> k, msg |-> m, req |-> i])]
        BY <3>2, LogStep
      <4>2. [kind |-> k, msg |-> m, req |-> i] \in Event
        BY DEF Event
      <4>3. log'[s] = log[s] \/ log'[s] = Append(log[s], [kind |-> k, msg |-> m, req |-> i])
        BY <4>1 DEF TypeOK
      <4>4. CASE log'[s] = log[s]
        BY <4>4, <1>0
      <4>5. CASE log'[s] = Append(log[s], [kind |-> k, msg |-> m, req |-> i])
        BY <4>2, <4>5, <1>0, AppendEntries
      <4>. QED
        BY <4>3, <4>4, <4>5
    <3>. QED
      BY <3>1, <3>2
  <2>2. ASSUME NEW r \in Reader, conn[r] # None
        PROVE  /\ cursor[r] <= Len(log'[conn[r]])
               /\ cursor[r] > 0 /\ log'[conn[r]][cursor[r]].kind = "request" =>
                    log'[conn[r]][cursor[r]].req \in seen[r]
    <3>1. /\ conn[r] \in Session /\ cursor[r] \in Nat /\ cursor[r] <= Len(log[conn[r]])
          /\ cursor[r] > 0 /\ log[conn[r]][cursor[r]].kind = "request" =>
               log[conn[r]][cursor[r]].req \in seen[r]
      BY <1>0, <2>2 DEF ReaderPlace
    <3>2. cursor[r] <= Len(log'[conn[r]])
      BY <1>0, <2>1, <3>1
    <3>3. cursor[r] > 0 => cursor[r] \in 1..Len(log[conn[r]])
      BY <1>0, <3>1
    <3>. QED
      BY <2>1, <3>1, <3>2, <3>3
  <2>. QED
    BY <1>1, <2>2 DEF ReaderPlace, readerVars
<1>2. ASSUME NEW r \in Reader, log' = log,
             \A q \in Reader : q # r =>
               conn'[q] = conn[q] /\ cursor'[q] = cursor[q] /\ seen'[q] = seen[q],
             conn'[r] # None =>
               /\ cursor'[r] <= Len(log[conn'[r]])
               /\ cursor'[r] > 0 /\ log[conn'[r]][cursor'[r]].kind = "request" =>
                    log[conn'[r]][cursor'[r]].req \in seen'[r]
      PROVE  ReaderPlace'
  BY <1>2 DEF ReaderPlace
<1>3. ASSUME NEW r \in Reader, NEW s \in Session, Subscribe(r, s)
      PROVE  ReaderPlace'
  <2>1. /\ log' = log /\ conn'[r] = s /\ cursor'[r] = Len(log[s])
        /\ seen'[r] = seen[r] \cup RequestsIn(s, DOMAIN log[s])
        /\ \A q \in Reader : q # r =>
             conn'[q] = conn[q] /\ cursor'[q] = cursor[q] /\ seen'[q] = seen[q]
    BY <1>3, <1>0 DEF Subscribe
  <2>2. cursor'[r] > 0 => cursor'[r] \in DOMAIN log[s]
    BY <1>0, <2>1
  <2>3. cursor'[r] > 0 /\ log[s][cursor'[r]].kind = "request" => log[s][cursor'[r]].req \in seen'[r]
    BY <2>1, <2>2 DEF RequestsIn
  <2>4. cursor'[r] <= Len(log[s])
    BY <1>0, <2>1
  <2>. QED
    BY <1>2, <2>1, <2>3, <2>4
<1>4. ASSUME NEW r \in Reader, Deliver(r)
      PROVE  ReaderPlace'
  <2>1. /\ log' = log /\ conn[r] \in Session /\ conn'[r] = conn[r] /\ cursor'[r] = Oldest(r)
        /\ cursor[r] < Len(log[conn[r]])
        /\ seen'[r] = seen[r] \cup RequestsIn(conn[r], {Oldest(r)})
        /\ \A q \in Reader : q # r =>
             conn'[q] = conn[q] /\ cursor'[q] = cursor[q] /\ seen'[q] = seen[q]
    BY <1>4, <1>0 DEF Deliver, hubVars
  <2>2. Oldest(r) <= Len(log[conn[r]])
    <3>1. Len(log[conn[r]]) \in Nat /\ cursor[r] \in Nat /\ Capacity \in Nat \ {0}
      BY <2>1, <1>0, HubAssumption
    <3>. QED
      BY <2>1, <3>1 DEF Oldest
  <2>3. log[conn[r]][Oldest(r)].kind = "request" => log[conn[r]][Oldest(r)].req \in seen'[r]
    BY <2>1 DEF RequestsIn
  <2>. QED
    BY <1>2, <2>1, <2>2, <2>3
<1>5. ASSUME NEW r \in Reader, Disconnect(r)
      PROVE  ReaderPlace'
  <2>1. /\ log' = log /\ conn'[r] = None
        /\ \A q \in Reader : q # r =>
             conn'[q] = conn[q] /\ cursor'[q] = cursor[q] /\ seen'[q] = seen[q]
    BY <1>5, <1>0 DEF Disconnect, hubVars
  <2>. QED
    BY <1>2, <2>1
<1>6. CASE (\E m \in Message : TaskStep(m)) \/ (\E m \in Message, s \in Session : EnsureSession(m, s))
  <2>1. UNCHANGED readerVars
    BY <1>6 DEF EnsureSession, TaskStep, TryStart, PrepareFails, Spawn, Open, TaskFails, Emit,
       Register, PublishRequest, Receive, Expire, ClearPending, Settle, PublishDone,
       PublishError, FinishBusy
  <2>. QED
    BY <1>1, <2>1
<1>7. CASE \/ \E s \in Session, id \in RequestId, a \in Answer : ResolvePermission(s, id, a)
           \/ UNCHANGED vars
  BY <1>1, <1>7 DEF ResolvePermission, vars
<1>. QED
  BY <1>3, <1>4, <1>5, <1>6, <1>7 DEF Next

\* The event of a pending request ends the log, so a reader that has not seen it is
\* before it, and the channel still holds the last event.
LEMMA ReaderSeesPending ==
  ASSUME BridgeInv, RequestEvents, ReaderPlace
  PROVE  PendingReachesReader
<1>. USE DEF BridgeInv
<1>1. SUFFICES ASSUME NEW r \in Reader, conn[r] # None, pending[conn[r]] # 0,
                      pending[conn[r]] \notin seen[r],
                      NEW i \in DOMAIN log[conn[r]],
                      log[conn[r]][i].kind = "request", log[conn[r]][i].req = pending[conn[r]]
               PROVE  i >= Oldest(r)
  BY DEF PendingReachesReader
<1>. DEFINE s == conn[r]
            len == Len(log[s])
<1>2. s \in Session /\ log[s] \in Seq(Event) /\ len \in Nat /\ cursor[r] \in Nat
  BY <1>1 DEF TypeOK
<1>3. PICK m \in Message : pc[m] \in Waiting /\ at[m] = s /\ req[m] = pending[s]
  BY <1>1, <1>2 DEF PendingIsAwaited
<1>4. i = len
  BY <1>1, <1>2, <1>3 DEF RequestEvents
<1>5. cursor[r] <= len /\ cursor[r] # len
  BY <1>1, <1>2, <1>4 DEF ReaderPlace
<1>6. len >= Oldest(r)
  BY <1>2, <1>5, HubAssumption DEF Oldest
<1>. QED
  BY <1>4, <1>6

\* ADR 0016: whatever a browser missed, lagged behind or reconnected from, the request
\* that a turn waits for is before its eyes or still ahead in its stream.
THEOREM PendingAlwaysReachesReader == Spec => []PendingReachesReader
<1>1. Init => RequestEvents /\ ReaderPlace
  BY DEF Init, RequestEvents, ReaderPlace
<1>2. BridgeInv /\ RequestEvents /\ ReaderPlace /\ [Next]_vars => RequestEvents' /\ ReaderPlace'
  BY RequestEventsStep, ReaderPlaceStep
<1>3. BridgeInv /\ RequestEvents /\ ReaderPlace => PendingReachesReader
  BY ReaderSeesPending
<1>. QED
  BY <1>1, <1>2, <1>3, Bridge, PTL DEF Spec

\* ADR 0016: a turn that waits for a permission can be answered, by the responder that
\* is its own and from every browser that is connected.
THEOREM PendingAlwaysAnswerable == Spec => []PendingIsAnswerable
BY PendingAlwaysAwaited, PendingAlwaysReachesReader, PTL DEF PendingIsAnswerable

-----------------------------------------------------------------------------
(* The hub implements the safety part of the permission contract. *)

LEMMA SameRequests ==
  ASSUME BridgeInv, UNCHANGED <<req, reply, verdict>>,
         \A n \in Message : pc'[n] \in Waiting <=> pc[n] \in Waiting,
         \A n \in Message : pc[n] \in Waiting => at'[n] = at[n]
  PROVE  UNCHANGED Contract!vars
<1>1. ASSUME NEW s \in Session
      PROVE  {n \in Message : pc'[n] \in Waiting /\ at'[n] = s}
               = {n \in Message : pc[n] \in Waiting /\ at[n] = s}
  OBVIOUS
<1>2. OpenRequests' = OpenRequests
  BY <1>1 DEF OpenRequests
<1>. QED
  BY <1>2 DEF Contract!vars

LEMMA ContractStep ==
  ASSUME BridgeInv, [Next]_vars
  PROVE  [Contract!Next]_(Contract!vars)
<1>. USE DEF BridgeInv
<1>1. ASSUME NEW m \in Message, Register(m) PROVE Contract!Next
  <2>1. /\ at[m] \in Session /\ nextId \in RequestId /\ pc[m] = "running"
        /\ req'[m] = nextId /\ pc'[m] = "registered"
        /\ at' = at /\ reply' = reply /\ verdict' = verdict
    BY <1>1 DEF Register, Goto, TypeOK, Located, RequestId
  <2>2. \A n \in Message : n # m => pc'[n] = pc[n] /\ req'[n] = req[n]
    BY <1>1 DEF Register, Goto, TypeOK
  <2>3. \A n \in Message : pc[n] \in Waiting => at[n] # at[m] /\ n # m /\ req[n] # nextId
    BY <2>1 DEF SingleActor, FreshIds, Active, Waiting, RequestId
  <2>4. verdict[nextId] = "none"
    BY <2>1 DEF FreshIds, RequestId
  <2>5. OpenRequests[at[m]] = {} /\ \A s \in Session : nextId \notin OpenRequests[s]
    BY <2>1, <2>3 DEF OpenRequests
  <2>6. ASSUME NEW s \in Session
        PROVE  OpenRequests'[s] = IF s = at[m] THEN {nextId} ELSE OpenRequests[s]
    BY <2>1, <2>2, <2>3 DEF OpenRequests, Waiting
  <2>7. OpenRequests' = [OpenRequests EXCEPT ![at[m]] = {nextId}]
    BY <2>6, <2>1 DEF OpenRequests
  <2>. QED
    BY <2>1, <2>4, <2>5, <2>7 DEF Contract!Next, Contract!Ask
<1>2. ASSUME NEW s \in Session, NEW id \in RequestId, NEW a \in Answer,
             ResolvePermission(s, id, a)
      PROVE  Contract!Next
  <2>1. /\ pending[s] = id /\ id # 0 /\ reply' = [reply EXCEPT ![id] = a]
        /\ verdict' = verdict /\ pc' = pc /\ at' = at /\ req' = req
    BY <1>2 DEF ResolvePermission, RequestId
  <2>2. PICK m \in Message : pc[m] \in Waiting /\ at[m] = s /\ req[m] = id
    BY <2>1 DEF PendingIsAwaited
  <2>3. reply[id] = "none" /\ id \in OpenRequests[s]
    BY <2>1, <2>2 DEF WaitingState, OpenRequests
  <2>4. OpenRequests' = OpenRequests
    BY <2>1 DEF OpenRequests
  <2>. QED
    BY <2>1, <2>3, <2>4 DEF Contract!Next, Contract!AnswerRequest, Answer
<1>3. ASSUME NEW m \in Message, ClearPending(m) PROVE Contract!Next
  <2>1. /\ at[m] \in Session /\ pc[m] = "answered" /\ pc'[m] = "settled"
        /\ req[m] \in RequestId /\ req' = req /\ at' = at /\ reply' = reply
        /\ verdict' = [verdict EXCEPT ![req[m]] = outcome[m]]
        /\ \A n \in Message : n # m => pc'[n] = pc[n]
    BY <1>3 DEF ClearPending, Goto, TypeOK, Located, FreshIds, Waiting
  <2>2. \A n \in Message : n # m /\ pc[n] \in Waiting => at[n] # at[m]
    BY <2>1 DEF SingleActor, Active, Waiting
  <2>3. outcome[m] \in Answer /\ (outcome[m] = "allow" => reply[req[m]] = "allow")
    BY <2>1 DEF OutcomeState
  <2>4. req[m] \in OpenRequests[at[m]]
    BY <2>1 DEF OpenRequests, Waiting
  <2>5. ASSUME NEW s \in Session
        PROVE  OpenRequests'[s] = IF s = at[m] THEN {} ELSE OpenRequests[s]
    BY <2>1, <2>2 DEF OpenRequests, Waiting
  <2>6. OpenRequests' = [OpenRequests EXCEPT ![at[m]] = {}]
    BY ZenonT(60), <2>5, <2>1 DEF OpenRequests
  <2>. QED
    BY <2>1, <2>3, <2>4, <2>6 DEF Contract!Next, Contract!Decide, Answer
<1>4. CASE \E m \in Message, s \in Session : EnsureSession(m, s)
  <2>1. UNCHANGED <<req, reply, verdict>>
    BY <1>4 DEF EnsureSession
  <2>2. /\ \A n \in Message : pc'[n] \in Waiting <=> pc[n] \in Waiting
        /\ \A n \in Message : pc[n] \in Waiting => at'[n] = at[n]
    BY <1>4 DEF EnsureSession, Goto, Waiting, TypeOK
  <2>. QED
    BY <2>1, <2>2, SameRequests
<1>5. CASE \E m \in Message :
             TryStart(m) \/ PrepareFails(m) \/ Spawn(m) \/ Open(m) \/ TaskFails(m) \/ Emit(m)
  <2>1. UNCHANGED <<at, req, reply, verdict>>
    BY <1>5 DEF TryStart, PrepareFails, Spawn, Open, TaskFails, Emit, taskVars
  <2>2. \A n \in Message : pc'[n] \in Waiting <=> pc[n] \in Waiting
    BY <1>5 DEF TryStart, PrepareFails, Spawn, Open, TaskFails, Emit, taskVars, Goto, Waiting,
       TypeOK
  <2>. QED
    BY <2>1, <2>2, SameRequests
<1>6. CASE \E m \in Message :
             \/ PublishRequest(m) \/ Receive(m) \/ Expire(m) \/ Settle(m)
             \/ PublishDone(m) \/ PublishError(m) \/ FinishBusy(m)
  <2>1. UNCHANGED <<at, req, reply, verdict>>
    BY <1>6 DEF PublishRequest, Receive, Expire, Settle, PublishDone, PublishError, FinishBusy
  <2>2. \A n \in Message : pc'[n] \in Waiting <=> pc[n] \in Waiting
    BY <1>6 DEF PublishRequest, Receive, Expire, Settle, PublishDone, PublishError, FinishBusy,
       Goto, Waiting, TypeOK
  <2>. QED
    BY <2>1, <2>2, SameRequests
<1>7. CASE \/ \E r \in Reader, s \in Session : Subscribe(r, s)
           \/ \E r \in Reader : Deliver(r) \/ Disconnect(r)
           \/ UNCHANGED vars
  <2>1. UNCHANGED <<pc, at, req, reply, verdict>>
    BY <1>7 DEF Subscribe, Deliver, Disconnect, vars, taskVars
  <2>. QED
    BY <2>1, SameRequests
<1>. QED
  BY <1>1, <1>2, <1>3, <1>4, <1>5, <1>6, <1>7 DEF Next, TaskStep

\* The hub's permission bridge implements the contract of ADR 0016 and 0017: one
\* open request per session, one answer, one decision, allowed only by an answer.
THEOREM ImplementsContractSafety == Spec => Contract!Spec
<1>1. Init => Contract!Init
  <2>1. Init => OpenRequests = [s \in Session |-> {}]
    BY DEF Init, OpenRequests, Waiting
  <2>. QED
    BY <2>1 DEF Init, Contract!Init
<1>2. BridgeInv /\ [Next]_vars => [Contract!Next]_(Contract!vars)
  BY ContractStep
<1>. QED
  BY <1>1, <1>2, Bridge, PTL DEF Spec, Contract!Spec
=============================================================================
