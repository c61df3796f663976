--------------------------- MODULE DurableSession ---------------------------
(***************************************************************************)
(* One durable conversation: the event stream of a session in              *)
(* `.forge/sessions.db`, and the clients (`forge run`, `forge chat`, the    *)
(* tasks of the web agent) that replay it, run turns of the agent loop over *)
(* it, compact it and append to it with optimistic concurrency.             *)
(*                                                                         *)
(* A message is reduced to what the loop, the compaction boundary and the   *)
(* provider tell apart:                                                    *)
(*   "task"     text of the user          "summary" baseline of an epoch    *)
(*   "reply"    assistant, no tool use    "results" one result per tool use *)
(*   "calls"    assistant, stopped to use tools                            *)
(*   "cut"      assistant with tool uses, stopped for another reason        *)
(* The stream holds these and two markers, "start" and "epoch".             *)
(***************************************************************************)
EXTENDS Integers, Sequences

CONSTANTS Client,      \* processes and tasks that open the session
          Chat,        \* those of them that are REPLs: many turns, /compact
          Window,      \* history length at which compaction is due
          MaxSteps,    \* max_steps of the loop
          MaxEvents,   \* bound: no new turn once the stream is this long
          MaxHistory   \* bound: no new turn once the history is this long

ASSUME ClientsAssumption == Chat \subseteq Client
ASSUME BoundsAssumption ==
  /\ Window \in Nat /\ Window > 1 /\ MaxSteps \in Nat \ {0}
  /\ MaxEvents \in Nat /\ MaxHistory \in Nat

VARIABLES events,     \* the stream, in the order of seq
          pc,         \* step of each client
          head,       \* DurableSession.head
          messages,   \* DurableSession.messages
          persisted,  \* DurableSession.persisted
          step,       \* step of the loop
          ok          \* did the loop return Ok

vars == <<events, pc, head, messages, persisted, step, ok>>

Message == {"task", "summary", "reply", "calls", "cut", "results"}
Marker  == {"start", "epoch"}
Working == {"opening", "reading", "summarizing", "looping", "executing", "persisting"}
Over    == {"done", "failed"}

-----------------------------------------------------------------------------
Init ==
  /\ events = <<>>
  /\ pc = [c \in Client |-> "idle"]
  /\ head = [c \in Client |-> 0]
  /\ messages = [c \in Client |-> <<>>]
  /\ persisted = [c \in Client |-> 0]
  /\ step = [c \in Client |-> 0]
  /\ ok = [c \in Client |-> TRUE]

Goto(c, from, to) ==
  /\ pc[c] = from
  /\ pc' = [pc EXCEPT ![c] = to]

\* What replay yields: the messages after the last marker.
IsBase(s, n) == n <= Len(s) /\ \A i \in (n + 1)..Len(s) : s[i] \notin Marker
Base(s) == CHOOSE n \in 0..Len(s) : IsBase(s, n) /\ (n > 0 => s[n] \in Marker)
Replay(s) == SubSeq(s, Base(s) + 1, Len(s))

\* The part of the history that is not in the stream yet.
Unsaved(c) == SubSeq(messages[c], persisted[c] + 1, Len(messages[c]))

\* Faulty: whatever the head is, the batch goes to the end.
Append_Anywhere(c, batch) ==
  /\ events' = events \o batch
  /\ head' = [head EXCEPT ![c] = Len(events) + Len(batch)]

\* EventStore::append in its transaction: the head must be the expected one.
Append_(c, batch) ==
  /\ head[c] = Len(events)
  /\ events' = events \o batch
  /\ head' = [head EXCEPT ![c] = Len(events) + Len(batch)]

\* The append fails: a conflict, a lock that is not released in time, the unique
\* index.  Nothing is written.
AppendFails == UNCHANGED <<events, head>>

\* is_safe_boundary: the last turn of the assistant left no tool use open.
IsSafeBoundary(m) == m # <<>> /\ m[Len(m)] = "reply"

NeedsCompaction(m) == Len(m) >= Window

-----------------------------------------------------------------------------
(* Opening *)

\* head_seq: a failed read counts as an empty stream.
ReadHead(c) ==
  /\ \/ head' = [head EXCEPT ![c] = Len(events)]
     \/ head' = [head EXCEPT ![c] = 0]
  /\ Goto(c, "idle", IF head'[c] = 0 THEN "opening" ELSE "reading")
  /\ messages' = [messages EXCEPT ![c] = <<>>]
  /\ persisted' = [persisted EXCEPT ![c] = 0]
  /\ UNCHANGED <<events, step, ok>>

\* A new session: session.started.1 must be the first event.
StartSession(c) ==
  /\ \/ Goto(c, "opening", "ready") /\ Append_(c, <<"start">>)
     \/ Goto(c, "opening", "failed") /\ AppendFails
  /\ UNCHANGED <<messages, persisted, step, ok>>

\* Faulty: the head is the one of the replay, read after it.
ReadEvents_Late(c) ==
  /\ Goto(c, "reading", "ready")
  /\ messages' = [messages EXCEPT ![c] = Replay(SubSeq(events, 1, head[c]))]
  /\ persisted' = [persisted EXCEPT ![c] = Len(Replay(SubSeq(events, 1, head[c])))]
  /\ head' = [head EXCEPT ![c] = Len(events)]
  /\ UNCHANGED <<events, step, ok>>

\* Replay, a statement of its own: the stream may have grown since ReadHead.
ReadEvents(c) ==
  /\ \/ /\ Goto(c, "reading", "ready")
        /\ messages' = [messages EXCEPT ![c] = Replay(events)]
        /\ persisted' = [persisted EXCEPT ![c] = Len(Replay(events))]
     \/ /\ Goto(c, "reading", "failed")
        /\ UNCHANGED <<messages, persisted>>
  /\ UNCHANGED <<events, head, step, ok>>

-----------------------------------------------------------------------------
(* Compaction *)

\* maybe_compact before a turn, or forced by /compact: the summary is asked of the
\* model, which takes as long as it takes.
MaybeCompact(c) ==
  /\ Goto(c, "ready", "summarizing")
  /\ c \in Chat \/ NeedsCompaction(messages[c])
  /\ IsSafeBoundary(messages[c])
  /\ UNCHANGED <<events, head, messages, persisted, step, ok>>

\* Faulty: the baseline stays for the next persist_new.
Compact_KeepsCount(c) ==
  /\ Goto(c, "summarizing", "ready")
  /\ Append_(c, <<"epoch", "summary">>)
  /\ messages' = [messages EXCEPT ![c] = <<"summary">>]
  /\ UNCHANGED <<persisted, step, ok>>

\* compact: marker and baseline in one append; a conflict ends the client.
Compact(c) ==
  /\ \/ /\ Goto(c, "summarizing", "ready")
        /\ Append_(c, <<"epoch", "summary">>)
        /\ messages' = [messages EXCEPT ![c] = <<"summary">>]
        /\ persisted' = [persisted EXCEPT ![c] = 1]
     \/ /\ Goto(c, "summarizing", "failed")
        /\ AppendFails
        /\ UNCHANGED <<messages, persisted>>
  /\ UNCHANGED <<step, ok>>

\* summarize: the gateway fails, and with it the client.
SummaryFails(c) ==
  /\ Goto(c, "summarizing", "failed")
  /\ UNCHANGED <<events, head, messages, persisted, step, ok>>

-----------------------------------------------------------------------------
(* A turn of the agent loop *)

\* The message of the user, once compaction is not due or not possible.
PushUser(c) ==
  /\ Goto(c, "ready", "looping")
  /\ ~(NeedsCompaction(messages[c]) /\ IsSafeBoundary(messages[c]))
  /\ Len(events) < MaxEvents /\ Len(messages[c]) < MaxHistory
  /\ messages' = [messages EXCEPT ![c] = Append(@, "task")]
  /\ step' = [step EXCEPT ![c] = 1]
  /\ UNCHANGED <<events, head, persisted, ok>>

\* The model answers: the end of the turn, or tools to run.
Answer(c, message, next) ==
  /\ Goto(c, "looping", next)
  /\ step[c] <= MaxSteps
  /\ messages' = [messages EXCEPT ![c] = Append(@, message)]
  /\ ok' = [ok EXCEPT ![c] = TRUE]
  /\ UNCHANGED <<events, head, persisted, step>>

Generate(c) ==
  \/ \E message \in {"reply", "cut"} : Answer(c, message, "persisting")
  \/ Answer(c, "calls", "executing")

\* Faulty: nothing ends the turn when the steps are used up.
LoopFails_GatewayOnly(c) ==
  /\ Goto(c, "looping", "persisting")
  /\ step[c] <= MaxSteps
  /\ ok' = [ok EXCEPT ![c] = FALSE]
  /\ UNCHANGED <<events, head, messages, persisted, step>>

\* The gateway fails, or the steps are used up.
LoopFails(c) ==
  /\ Goto(c, "looping", "persisting")
  /\ ok' = [ok EXCEPT ![c] = FALSE]
  /\ UNCHANGED <<events, head, messages, persisted, step>>

\* Faulty: a denied tool has no result.
RunTools_DeniedIsSilent(c) ==
  /\ Goto(c, "executing", "looping")
  /\ step' = [step EXCEPT ![c] = @ + 1]
  /\ UNCHANGED <<events, head, messages, persisted, ok>>

\* run_tool for each tool use: run, denied or unknown, each has its result.
RunTools(c) ==
  /\ Goto(c, "executing", "looping")
  /\ messages' = [messages EXCEPT ![c] = Append(@, "results")]
  /\ step' = [step EXCEPT ![c] = @ + 1]
  /\ UNCHANGED <<events, head, persisted, ok>>

\* Where a client goes when its turn is over: a chat asks for the next line, unless
\* the loop failed.
AfterTurn(c) ==
  IF c \in Chat /\ ok[c] THEN "ready" ELSE IF ok[c] THEN "done" ELSE "failed"

\* Faulty: what could not be written counts as persisted.
PersistNew_Forgets(c) ==
  /\ Goto(c, "persisting", AfterTurn(c))
  /\ \/ Append_(c, Unsaved(c))
     \/ AppendFails
  /\ persisted' = [persisted EXCEPT ![c] = Len(messages[c])]
  /\ UNCHANGED <<messages, step, ok>>

\* persist_new, whose error is reported or dropped: the turn is over all the same.
PersistNew(c) ==
  /\ Goto(c, "persisting", AfterTurn(c))
  /\ \/ /\ Append_(c, Unsaved(c))
        /\ persisted' = [persisted EXCEPT ![c] = Len(messages[c])]
     \/ AppendFails /\ UNCHANGED persisted
  /\ UNCHANGED <<messages, step, ok>>

\* The user leaves the chat.
Quit(c) ==
  /\ Goto(c, "ready", "done")
  /\ UNCHANGED <<events, head, messages, persisted, step, ok>>

\* The process dies; or a client that ended opens the session again.
Restart(c) ==
  /\ pc[c] # "idle"
  /\ pc' = [pc EXCEPT ![c] = "idle"]
  /\ head' = [head EXCEPT ![c] = 0]
  /\ messages' = [messages EXCEPT ![c] = <<>>]
  /\ persisted' = [persisted EXCEPT ![c] = 0]
  /\ step' = [step EXCEPT ![c] = 0]
  /\ ok' = [ok EXCEPT ![c] = TRUE]
  /\ UNCHANGED events

-----------------------------------------------------------------------------
\* What a client does by itself.
ClientStep(c) ==
  \/ StartSession(c) \/ ReadEvents(c) \/ Compact(c) \/ SummaryFails(c) \/ Generate(c)
  \/ LoopFails(c) \/ RunTools(c) \/ PersistNew(c)

Next == \E c \in Client :
  \/ ReadHead(c) \/ MaybeCompact(c) \/ PushUser(c) \/ ClientStep(c) \/ Quit(c)
  \/ Restart(c)

Spec == Init /\ [][Next]_vars

\* Clients run, and calls of the model and of the tools return.
FairSpec == Spec /\ \A c \in Client : WF_vars(ClientStep(c))

-----------------------------------------------------------------------------
TypeOK ==
  /\ events \in Seq(Message \cup Marker)
  /\ pc \in [Client -> {"idle", "ready"} \cup Working \cup Over]
  /\ head \in [Client -> 0..Len(events)]
  /\ messages \in [Client -> Seq(Message)]
  /\ \A c \in Client : persisted[c] \in 0..Len(messages[c])
  /\ step \in [Client -> 0..(MaxSteps + 1)]
  /\ ok \in [Client -> BOOLEAN]

Open(c) == pc[c] \in {"ready", "summarizing", "looping", "executing", "persisting"}

\* A client whose append would succeed has replayed exactly the stream it appends
\* to, although it read the head and the events in two statements and others write
\* in between.
ViewIsReplay == \A c \in Client :
  Open(c) /\ head[c] = Len(events) =>
    SubSeq(messages[c], 1, persisted[c]) = Replay(events)

\* Results come right after the uses of tools that they are of; where there is one that
\* is being run, it is the last.
Paired(s, running) == \A i \in 1..Len(s) :
  /\ s[i] = "calls" =>
       (i < Len(s) /\ s[i + 1] = "results") \/ (running /\ i = Len(s))
  /\ s[i] = "results" => i > 1 /\ s[i - 1] = "calls"

\* Whoever wrote what and whatever failed or died: the session starts once, an epoch
\* begins with its baseline, and every tool use that the loop ran has its results
\* right after it.
StreamWellFormed ==
  /\ \A i \in 1..Len(events) :
       /\ events[i] = "start" <=> i = 1
       /\ events[i] = "epoch" => i < Len(events) /\ events[i + 1] = "summary"
  /\ Paired(events, FALSE)

\* So has every tool use of a history that is sent to the model, as providers demand,
\* after compactions, lost races and crashes.
SentHistoryIsPaired == \A c \in Client : pc[c] = "looping" => Paired(messages[c], FALSE)

\* Whatever other clients append and whoever dies: the stream stays well formed, a
\* client's history is what a reopen would replay, and what it sends is paired.
HistoryIsSound == TypeOK /\ ViewIsReplay /\ StreamWellFormed /\ SentHistoryIsPaired

\* Its inductive strengthening: a client has nothing before it replays, the head of an
\* open one is past the start, and only while its tools run has its history an end that
\* waits for results.
ClientInv(c) ==
  /\ pc[c] \in {"idle", "opening", "reading"} => messages[c] = <<>> /\ persisted[c] = 0
  /\ pc[c] = "opening" => head[c] = 0
  /\ Open(c) \/ pc[c] = "reading" => head[c] > 0
  /\ Paired(messages[c], pc[c] = "executing")
  /\ pc[c] = "executing" =>
       messages[c] # <<>> /\ messages[c][Len(messages[c])] = "calls" /\ step[c] <= MaxSteps

SessionInv ==
  /\ TypeOK /\ ViewIsReplay /\ StreamWellFormed /\ persisted \in [Client -> Nat]
  /\ \A c \in Client : ClientInv(c)

\* Nothing is ever written over, and an append, a new epoch above all, hides nothing
\* that its writer had not seen.
AppendsSeeAll == [][
  events' # events =>
    /\ Len(events) < Len(events') /\ SubSeq(events', 1, Len(events)) = events
    /\ \E c \in Client :
         /\ head'[c] = Len(events')
         /\ Len(Replay(events)) <= Len(messages[c])
         /\ SubSeq(messages[c], 1, Len(Replay(events))) = Replay(events)]_vars

\* Every turn ends: max_steps bounds the loop whatever the model asks for.
EveryTurnEnds == \A c \in Client : pc[c] \in Working ~> pc[c] \notin Working
=============================================================================
