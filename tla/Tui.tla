-------------------------------- MODULE Tui --------------------------------
(***************************************************************************)
(* The terminal interface of forge-cli's tui_app.rs: the thread of the       *)
(* interface, which applies events and reads keys, the task of the agent,    *)
(* and three channels between them (commands, events, answers).  Drawing and *)
(* the input line's text are left out.                                      *)
(***************************************************************************)
EXTENDS Naturals, Sequences

CONSTANTS Models,    \* entries of MODEL_CHOICES
          MaxTurns,  \* messages the user sends
          MaxCalls,  \* max_steps of the agent loop
          MaxAsks,   \* requests for a permission
          MaxSwitch  \* changes of model or agent

ASSUME TuiAssumption == /\ Models \in Nat \ {0} /\ MaxTurns \in Nat /\ MaxCalls \in Nat \ {0}
                 /\ MaxAsks \in Nat /\ MaxSwitch \in Nat

Turn      == 1..MaxTurns
RequestId == 1..MaxAsks
Selection == [model : 0..(Models - 1), agent : {"build", "plan"}]

VARIABLES ui, busy, modal, selected, shown, streaming, items,  \* the interface; modal 0 is None
          cmds, events, answers,                               \* the channels
          agent, opts, calls, spoke, asked,                    \* the task; calls of its turn
          turns, turn, switches,
          chosen, used,      \* the selection when a message was sent, and the one its loop has
          failed, persisted, \* turns that ended with an error; turns that are in the event store
          reply, verdict
uiVars    == <<ui, busy, modal, selected, shown, streaming, items, turns, switches, chosen, reply>>
agentVars == <<agent, opts, calls, spoke, asked, turn, used, failed, persisted, verdict>>
tuiVars   == <<uiVars, agentVars, cmds, events, answers>>

Item    == [k : {"user", "text", "tool", "notice"}, turn : 0..MaxTurns, of : SUBSET Turn, note : {"-", "persist", "error", "fatal"}]
Event   == [k : {"delta", "done", "tool", "ask", "notice", "status", "idle", "fatal"}, turn : 0..MaxTurns,
            id : 0..MaxAsks, sel : Selection, note : {"-", "persist", "error", "fatal"}]
Command == [k : {"send", "model", "agent"}, turn : 0..MaxTurns, sel : Selection]

TuiTypeOK ==
  /\ ui \in {"open", "closed"} /\ busy \in BOOLEAN /\ modal \in 0..MaxAsks
  /\ selected \in Selection /\ shown \in Selection /\ streaming \subseteq Turn
  /\ items \in Seq(Item) /\ cmds \in Seq(Command) /\ events \in Seq(Event)
  /\ answers \in Seq({"allow", "deny"}) /\ Len(answers) <= 1
  /\ agent \in {"boot", "wait", "prepare", "call", "tools", "ask", "over", "ended", "failing", "dead", "aborted"}
  /\ opts \in Selection /\ calls \in 0..MaxCalls /\ spoke \in BOOLEAN /\ asked \in 0..MaxAsks
  /\ turns \in 0..MaxTurns /\ turn \in 0..turns /\ switches \in 0..MaxSwitch
  /\ chosen \in [1..turns -> Selection] /\ DOMAIN used \subseteq 1..turn /\ failed \subseteq Turn /\ persisted \subseteq Turn
  /\ reply \in [RequestId -> {"none", "allow", "deny"}]
  /\ verdict \in [RequestId -> {"none", "allow", "deny"}]

Start == [model |-> 0, agent |-> "build"]

TuiInit ==
  /\ ui = "open" /\ busy = FALSE /\ modal = 0 /\ selected = Start /\ shown = Start
  /\ streaming = {} /\ items = <<>> /\ cmds = <<>> /\ events = <<>> /\ answers = <<>>
  /\ agent = "boot" /\ opts = Start /\ calls = 0 /\ spoke = FALSE /\ asked = 0
  /\ turns = 0 /\ turn = 0 /\ switches = 0 /\ chosen = <<>> /\ used = <<>>
  /\ failed = {} /\ persisted = {}
  /\ reply = [i \in RequestId |-> "none"] /\ verdict = [i \in RequestId |-> "none"]

-----------------------------------------------------------------------------
\* The task of the agent.
Ev(k, id, note) == [k |-> k, turn |-> turn, id |-> id, sel |-> opts, note |-> note]
Plain(k) == Ev(k, 0, "-")

\* An event that nobody will receive is dropped with its error.
Emit(es) == events' = IF ui = "open" THEN events \o es ELSE events

\* The registry is built, ledger and event store are opened; either may fail.
Boot ==
  /\ agent = "boot"
  /\ \/ agent' = "wait" /\ UNCHANGED events
     \/ agent' = "failing" /\ Emit(<<Plain("fatal")>>)
  /\ UNCHANGED <<uiVars, cmds, answers, opts, calls, spoke, asked, turn, used, failed, persisted, verdict>>

\* The task that has told its error ends; commands are accepted until its receiver is
\* dropped here.
DropInput ==
  /\ agent = "failing" /\ agent' = "dead"
  /\ UNCHANGED <<uiVars, cmds, events, answers, opts, calls, spoke, asked, turn, used, failed,
                 persisted, verdict>>

\* Faulty: the command that switches the agent is overlooked.
Applied_ModelOnly(c) == IF c.k = "model" THEN [opts EXCEPT !.model = c.sel.model] ELSE opts

Applied(c) == IF c.k = "model" THEN [opts EXCEPT !.model = c.sel.model]
              ELSE [opts EXCEPT !.agent = c.sel.agent]

\* One command between turns.
ReceiveCommand ==
  LET c == Head(cmds) IN
  /\ agent = "wait" /\ cmds # <<>> /\ cmds' = Tail(cmds)
  /\ \/ /\ c.k = "send" /\ agent' = "prepare" /\ turn' = c.turn /\ UNCHANGED <<opts, events>>
     \/ /\ c.k # "send" /\ opts' = Applied(c) /\ UNCHANGED <<agent, turn>>
        /\ Emit(<<[Plain("status") EXCEPT !.sel = Applied(c)]>>)
  /\ UNCHANGED <<uiVars, answers, calls, spoke, asked, used, failed, persisted, verdict>>

\* recv returns None: the interface has dropped its end and nothing is left.
EndOfInput ==
  /\ agent = "wait" /\ cmds = <<>> /\ ui = "closed" /\ agent' = "ended"
  /\ UNCHANGED <<uiVars, cmds, events, answers, opts, calls, spoke, asked, turn, used, failed,
                 persisted, verdict>>

\* Faulty: the loop is built from what the interface has selected by now.
Built_Latest == selected

Built == opts

\* An error of build_loop or of the compaction ends the task.  Lint and
\* compaction only add notices, which are left out.
Prepare ==
  /\ agent = "prepare"
  /\ \/ /\ agent' = "call" /\ used' = [t \in 1..turn |-> IF t = turn THEN Built ELSE used[t]]
        /\ calls' = 1 /\ spoke' = FALSE /\ UNCHANGED events
     \/ /\ agent' = "failing" /\ Emit(<<Plain("fatal")>>) /\ UNCHANGED <<used, calls, spoke>>
  /\ UNCHANGED <<uiVars, cmds, answers, opts, asked, turn, failed, persisted, verdict>>

\* A call of the generator: text, then its end, or an error at any moment.
Generate ==
  /\ agent = "call"
  /\ \/ ~spoke /\ spoke' = TRUE /\ Emit(<<Plain("delta")>>) /\ UNCHANGED <<agent, failed>>
     \/ agent' \in {"over", "tools"} /\ Emit(<<Plain("done")>>) /\ UNCHANGED <<spoke, failed>>
     \/ agent' = "over" /\ failed' = failed \cup {turn} /\ UNCHANGED <<spoke, events>>
  /\ UNCHANGED <<uiVars, cmds, answers, opts, calls, asked, turn, used, persisted, verdict>>

\* The results go back to the model; with no calls left it is an error.
NextCall ==
  IF calls < MaxCalls THEN agent' = "call" /\ calls' = calls + 1 /\ spoke' = FALSE /\ UNCHANGED failed
  ELSE agent' = "over" /\ failed' = failed \cup {turn} /\ UNCHANGED <<calls, spoke>>

\* A tool the rules decide, an unknown one, of which nobody hears, or one that
\* needs an answer.
RunTool ==
  /\ agent = "tools"
  /\ \/ (Emit(<<Plain("tool")>>) \/ UNCHANGED events) /\ NextCall /\ UNCHANGED <<asked, verdict>>
     \/ /\ asked < MaxAsks /\ ui = "open" /\ asked' = asked + 1 /\ agent' = "ask"
        /\ Emit(<<Ev("ask", asked + 1, "-")>>) /\ UNCHANGED <<calls, spoke, failed, verdict>>
  /\ UNCHANGED <<uiVars, cmds, answers, opts, turn, used, persisted>>

\* Faulty: the end of the interface is not noticed.
Disconnected_Unseen == FALSE

Disconnected == answers = <<>> /\ ui = "closed"

\* TuiResolver::resolve, blocked in recv.
ReceiveAnswer ==
  /\ agent = "ask"
  /\ \/ answers # <<>> /\ answers' = Tail(answers) /\ verdict' = [verdict EXCEPT ![asked] = Head(answers)]
     \/ Disconnected /\ verdict' = [verdict EXCEPT ![asked] = "deny"] /\ UNCHANGED answers
  /\ Emit(<<Plain("tool")>>) /\ NextCall
  /\ UNCHANGED <<uiVars, cmds, opts, asked, turn, used, persisted>>

\* Faulty: an error leaves through `?`.
Closing_NoIdle(saved) == IF turn \in failed THEN <<>> ELSE <<Plain("idle")>>

\* Faulty: an error of persist_new is dropped.
Closing_Silent(saved) ==
  (IF turn \in failed THEN <<Ev("notice", 0, "error")>> ELSE <<>>) \o <<Plain("idle")>>

Closing(saved) ==
  (IF saved THEN <<>> ELSE <<Ev("notice", 0, "persist")>>)
  \o (IF turn \in failed THEN <<Ev("notice", 0, "error")>> ELSE <<>>) \o <<Plain("idle")>>

\* persist_new, and what the interface is told.
EndTurn ==
  /\ agent = "over" /\ agent' = "wait"
  /\ \E saved \in BOOLEAN :
       Emit(Closing(saved)) /\ persisted' = IF saved THEN persisted \cup {turn} ELSE persisted
  /\ UNCHANGED <<uiVars, cmds, answers, opts, calls, spoke, asked, turn, used, failed, verdict>>

\* agent.abort takes effect where the task waits for something; recv of the
\* resolver is none of these places.
Abort ==
  /\ ui = "closed" /\ agent \in {"boot", "wait", "prepare", "call"} /\ agent' = "aborted"
  /\ UNCHANGED <<uiVars, cmds, events, answers, opts, calls, spoke, asked, turn, used, failed,
                 persisted, verdict>>

-----------------------------------------------------------------------------
\* The thread of the interface.
AddItem(k, of, note) == items' = Append(items, [k |-> k, turn |-> Head(events).turn, of |-> of, note |-> note])

\* apply
ApplyEvent ==
  LET e == Head(events) IN
  /\ ui = "open" /\ events # <<>> /\ events' = Tail(events)
  /\ \/ /\ e.k = "delta" /\ streaming' = streaming \cup {e.turn} /\ UNCHANGED <<busy, modal, shown, items>>
     \/ /\ e.k = "done" /\ streaming' = {} /\ UNCHANGED <<busy, modal, shown>>
        /\ IF streaming = {} THEN UNCHANGED items ELSE AddItem("text", streaming, "-")
     \/ e.k \in {"tool", "notice"} /\ AddItem(e.k, {}, e.note) /\ UNCHANGED <<busy, modal, shown, streaming>>
     \/ e.k = "ask" /\ modal' = e.id /\ UNCHANGED <<busy, shown, streaming, items>>
     \/ e.k = "status" /\ shown' = e.sel /\ UNCHANGED <<busy, modal, streaming, items>>
     \/ e.k = "idle" /\ busy' = FALSE /\ UNCHANGED <<modal, shown, streaming, items>>
     \/ e.k = "fatal" /\ busy' = FALSE /\ AddItem("notice", {}, "fatal") /\ UNCHANGED <<modal, shown, streaming>>
  /\ UNCHANGED <<ui, selected, turns, switches, chosen, reply, agentVars, cmds, answers>>

\* Faulty: the modal stays until the next event.
ModalAfterKey_Open == modal

ModalAfterKey == 0

\* s, y, n or Esc while a request is shown.
AnswerModal(a) ==
  /\ ui = "open" /\ modal # 0 /\ modal' = ModalAfterKey
  /\ answers' = Append(answers, a) /\ reply' = [reply EXCEPT ![modal] = a]
  /\ UNCHANGED <<ui, busy, selected, shown, streaming, items, turns, switches, chosen, agentVars, cmds, events>>

Gone == agent \in {"ended", "dead"}

\* A command for a task that is gone ends the interface.
Submit(c) == IF Gone THEN ui' = "closed" /\ events' = <<>> /\ UNCHANGED cmds
               ELSE cmds' = Append(cmds, c) /\ UNCHANGED <<ui, events>>

\* Ctrl+M and Ctrl+G.
Switch(k) ==
  LET s == IF k = "model" THEN [selected EXCEPT !.model = (@ + 1) % Models]
           ELSE [selected EXCEPT !.agent = IF @ = "build" THEN "plan" ELSE "build"] IN
  /\ ui = "open" /\ modal = 0 /\ switches < MaxSwitch /\ switches' = switches + 1
  /\ selected' = s /\ shown' = s /\ Submit([k |-> k, turn |-> 0, sel |-> s])
  /\ UNCHANGED <<busy, modal, streaming, items, turns, chosen, reply, agentVars, answers>>

\* Faulty: a message can be sent during a turn.
MaySend_Always == modal = 0

MaySend == modal = 0 /\ ~busy

\* Enter with a text.
SendMessage ==
  /\ ui = "open" /\ MaySend /\ turns < MaxTurns /\ turns' = turns + 1 /\ busy' = TRUE
  /\ items' = Append(items, [k |-> "user", turn |-> turns + 1, of |-> {}, note |-> "-"])
  /\ chosen' = Append(chosen, selected) /\ Submit([k |-> "send", turn |-> turns + 1, sel |-> selected])
  /\ UNCHANGED <<modal, selected, shown, streaming, switches, reply, agentVars, answers>>

\* Esc and Ctrl+C, which a request captures.
Quit ==
  /\ ui = "open" /\ modal = 0 /\ ui' = "closed" /\ events' = <<>>
  /\ UNCHANGED <<busy, modal, selected, shown, streaming, items, turns, switches, chosen, reply, agentVars,
                 cmds, answers>>

AgentStep == \/ Boot \/ DropInput \/ ReceiveCommand \/ EndOfInput \/ Prepare \/ Generate \/ RunTool \/ ReceiveAnswer
             \/ EndTurn \/ Abort
Key == (\E a \in {"allow", "deny"} : AnswerModal(a)) \/ Switch("model") \/ Switch("agent")
       \/ SendMessage \/ Quit

TuiNext == AgentStep \/ ApplyEvent \/ Key

TuiSpec == TuiInit /\ [][TuiNext]_tuiVars

\* Both threads go on; nobody has to press a key.
TuiFairSpec == TuiSpec /\ WF_tuiVars(AgentStep) /\ WF_tuiVars(ApplyEvent)

-----------------------------------------------------------------------------
\* A turn runs with the model and the agent that were selected when its message
\* was sent, though commands wait in a queue while an earlier turn runs.
TurnUsesSelection == \A t \in DOMAIN used : used[t] = chosen[t]

\* The status line may show an older selection for a while, but once commands
\* and status events are through it shows the selected model and agent.
StatusCatchesUp ==
  /\ ui = "open" /\ agent # "dead"
  /\ \A i \in DOMAIN cmds : cmds[i].k = "send"
  /\ \A i \in DOMAIN events : events[i].k # "status"
  => shown = selected

\* The transcript keeps turns apart: what belongs to a turn stands behind its
\* message and before the next one; text of another turn stands in it only if
\* that one failed ("turno corrente": its partial text is never taken away).
TranscriptInOrder ==
  /\ \A i, j \in DOMAIN items : i < j /\ items[i].turn > 0 /\ items[j].turn > 0 => items[i].turn <= items[j].turn
  /\ \A i \in DOMAIN items : items[i].turn > 0 =>
       \E j \in 1..i : items[j].k = "user" /\ items[j].turn = items[i].turn
  /\ \A i \in DOMAIN items : items[i].of \subseteq {items[i].turn} \cup failed

\* A turn that the interface shows as ended is in the event store, or the
\* transcript says that it is not.
LossIsShown ==
  \A t \in 1..turns : ui = "open" /\ (t < turns \/ ~busy) =>
    \/ t \in persisted
    \/ \E i \in DOMAIN items : items[i].note = "fatal" \/ (items[i].note = "persist" /\ items[i].turn = t)

\* The task has failed, and the interface has been told or is gone.
Told == agent \in {"failing", "dead"} /\ \A i \in DOMAIN events : events[i].k # "fatal"

\* A message that was accepted after that, in the last moment of the task.
TooLate == ui = "open" /\ Told /\ \E i \in DOMAIN cmds : cmds[i].k = "send"

\* A turn ends, or waits for an answer on the screen.  The one exception is a message
\* to a task whose failure is in the transcript already: it makes the interface busy
\* until the user leaves.
TurnEnds == busy ~> (~busy \/ modal # 0 \/ ui = "closed" \/ TooLate)

\* The task of the agent does not outlive the interface, also when it waits for
\* an answer nobody will give.
QuitStopsAgent == ui = "closed" ~> agent \in {"ended", "dead", "aborted"}

\* The modal keeps the contract that the bridge of the web sessions keeps.
Contract == INSTANCE PermissionContract WITH
              Session <- {1}, Request <- RequestId,
              open <- [s \in {1} |-> IF agent = "ask" THEN {asked} ELSE {}]

KeepsContract == Contract!Spec

\* run_tui over its threads and channels: a turn uses the model and agent that were
\* selected when it was sent, the status line catches up, the transcript is in order, what
\* was lost is shown, and the modal keeps the permission contract.
TerminalIsFaithful ==
  [](TuiTypeOK /\ TurnUsesSelection /\ StatusCatchesUp /\ TranscriptInOrder /\ LossIsShown) /\ KeepsContract

-----------------------------------------------------------------------------
\* The inductive strengthening.
SendPending == \E i \in DOMAIN cmds : cmds[i].k = "send"

\* What a task that has s selected will have selected after the first i commands of q.
After(s, q, i) == IF i = 0 THEN s ELSE q[i].sel

\* A command changes what its predecessor has selected, and a turn takes what it finds.
SelectionInv ==
  /\ \A i \in DOMAIN cmds :
       /\ cmds[i].k # "model" => cmds[i].sel.model = After(opts, cmds, i - 1).model
       /\ cmds[i].k # "agent" => cmds[i].sel.agent = After(opts, cmds, i - 1).agent
       /\ cmds[i].k = "send" /\ ~Told => cmds[i].turn = turn + 1 /\ turns > turn /\ cmds[i].sel = chosen[turn + 1]
  /\ ui = "open" => selected = After(opts, cmds, Len(cmds))
  /\ agent = "prepare" => opts = chosen[turn]
  /\ DOMAIN used = 1..turn \/ (agent \in {"prepare", "failing", "dead", "aborted"} /\ DOMAIN used = 1..(turn - 1))
  /\ TurnUsesSelection

\* The last status under way is the selection of the task.
StatusInv ==
  /\ ui = "open" => \A i \in DOMAIN events :
       events[i].k = "status" /\ (\A j \in DOMAIN events : j > i => events[j].k # "status")
       => events[i].sel = opts
  /\ StatusCatchesUp

\* Until the failure of the task is told one message is under way at most, and while it is,
\* or the interface is not busy, no event of a turn is.
TurnInv ==
  /\ ~Told => \A i, j \in DOMAIN cmds : cmds[i].k = "send" /\ cmds[j].k = "send" => i = j
  /\ ~Told => turns = IF SendPending THEN turn + 1 ELSE turn
  /\ ui = "closed" \/ Told => events = <<>>
  /\ ui = "open" /\ ~busy /\ ~Told => ~SendPending
  /\ agent = "boot" => turn = 0
  /\ agent \in {"ended", "aborted"} => ui = "closed"
  /\ agent \in {"prepare", "call", "tools", "ask", "over"} => turn > 0
  /\ ui = "open" /\ (~busy \/ SendPending) =>
       /\ agent \in {"boot", "wait", "failing", "dead"}
       /\ \A i \in DOMAIN events : events[i].k = "status" \/ (events[i].k = "fatal" /\ turn = 0)
  /\ \A i \in DOMAIN events :
       /\ events[i].k # "status" => events[i].turn = turn
       /\ events[i].k \notin {"status", "fatal"} => turn > 0
       /\ events[i].k = "fatal" => agent \in {"failing", "dead"} /\ i = Len(events)
       /\ events[i].k = "idle" =>
            agent = "wait" /\ \A j \in DOMAIN events : j > i => events[j].k = "status"

\* Text that is not in the transcript yet is of the turn, which closes it, or of one that failed.
TranscriptInv ==
  /\ TranscriptInOrder
  /\ \A i \in DOMAIN items : items[i].turn <= turns
  /\ \A t \in 1..turns : \E j \in DOMAIN items : items[j].k = "user" /\ items[j].turn = t
  /\ ui = "open" => \A t \in streaming \ failed :
       t = turn /\ (agent = "call" \/ \E j \in DOMAIN events : events[j].k = "done")
  /\ \A i \in DOMAIN events : events[i].k = "delta" =>
       turn \in failed \/ agent = "call" \/ \E j \in DOMAIN events : j > i /\ events[j].k = "done"

IsShown(t) == t \in persisted \/ \E i \in DOMAIN items : items[i].note = "fatal"
                                                          \/ (items[i].note = "persist" /\ items[i].turn = t)

LossInv ==
  /\ LossIsShown
  /\ \A i \in DOMAIN events : events[i].k = "idle" =>
       IsShown(turn) \/ \E j \in DOMAIN events : j < i /\ events[j].k = "notice" /\ events[j].note = "persist"

\* A request is on its way to the interface, on the screen, answered, or its asker learns
\* that the interface is gone.
Unanswered == agent = "ask" /\ answers = <<>> /\ reply[asked] = "none"

ModalInv ==
  /\ ui = "open" /\ modal # 0 => Unanswered /\ modal = asked
  /\ \A i \in DOMAIN events : events[i].k = "ask" =>
       /\ Unanswered /\ modal = 0 /\ events[i].id = asked
       /\ \A j \in DOMAIN events : events[j].k = "ask" => j = i
  /\ answers # <<>> => agent = "ask" /\ answers = <<reply[asked]>>
  /\ \A i \in RequestId : i > asked => verdict[i] = "none" /\ reply[i] = "none"
  /\ agent = "ask" => asked > 0

TuiInv ==
  /\ TuiTypeOK /\ SelectionInv /\ StatusInv /\ TurnInv /\ TranscriptInv /\ LossInv /\ ModalInv
=============================================================================
