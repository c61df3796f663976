# Forge: TLA+ models and proofs

Forge is a coding agent: a Rust workspace (`crates/`) with a command line, a
terminal UI, a dashboard and a web agent around one *agent loop*, and a Python
*squad* of agents (`python/packages/`) that the Rust side spawns as sidecar
processes and talks to over gRPC on Unix sockets.  This directory models the parts
of it whose correctness depends on the order of things: threads and handlers that
share a hub, processes that come and go, answers that race timeouts, writers that
race on one SQLite file, streams that break, files that change while they are read.

Run a model with `tlc -config X.cfg MCModule.tla`, check proofs with
`tlapm Module_proofs.tla`.

## Inventory

| Component (source) | State | What is hard | What makes it correct | Module |
|---|---|---|---|---|
| Web session hub (`forge-cli/web_agent.rs`) | per session: event log, broadcast channel, pending permission, busy flag; a request counter | turns, answers and timeouts race; readers lag; a session that is never freed | one turn at a time, whole turns in the log, fail-closed permissions, no request lost | `SessionHub`, `PermissionContract` |
| Squad hub, driver, kill switch (`squad_agent.rs`) | per task: log, channel, pending gate, inbox, stopped, abort handle; the driver's step | the kill switch races registration, the gate and the end of the run; an abort drops half of what runs | a stop reaches the driver and denies its gates; a clean end is complete; every stream closes; the lease goes back | `SquadHub`, `ProcessLease` |
| Squad process pool (`forge-sidecar/service.rs` 174-323, `squad_client.rs`) | process per slot, free list, permits | spawn failure or cancellation between permit and lease; hung processes | slots are exclusive; free list and permits in step; at most `capacity` processes | `SquadPool`, `ProcessLease` |
| Core callbacks (`core_server.rs`, `squad.rs`) | the socket path, each task's server | two tasks bind one fixed path; handlers are dropped, their threads are not | no tool without policy or human | `SquadHub`, `SquadCommand`, `Requests` (partly) |
| Squad gRPC server, orchestrator (`forge_squad/server.py`, `orchestrator.py`, `agents/developer.py`) | event queue, plan, step | outlives its consumer; timeouts over running tools; dies | events arrive in order; a rejected plan ends | `SquadHub` (its events, gates and calls) |
| Squad command (`squad.rs` 305-516) | levels 1 to 3, stdin, the process | a fallback beside a process that is not dead; one stdin for two askers | every approved run took its own yes; the agent works alone; success means a closed stream | `SquadCommand` |
| Sidecar singletons (`service.rs` 38-171, `supervisor.rs`, consoles) | process and client behind a lock | crash, boot and callers that go away | one process, no orphan, every request answered | `Sidecars` |
| Event store, durable session, agent loop, compaction (`events.rs`, `session.rs`, `agent_loop.rs`, `compaction.rs`, `main.rs`) | a stream per session; per client head, history, persisted count | concurrent writers, conflicts, crashes, compaction | who can write has seen everything; the stream and the history stay well formed; turns end | `DurableSession` |
| Histories as provider requests (`chat.rs`, `anthropic.rs`, `openai.rs`, `squad.rs` 182-233) | - | one message becomes several; roles | calls and results are paired; turns alternate | `Requests` |
| Gateway and streams (`gateway.rs`, `sse.rs`, `anthropic.rs`, `openai.rs`) | parser buffer, aggregator, chain | chunks cut anywhere, streams that break, fallback in the middle | the turn is that of one provider, whole | `Gateway` |
| Rate limiter and response cache (`rate_limit.rs`, `rate_limit_gen.rs`, `cache.rs`, `prompt_cache.rs`) | window of starts, rows | concurrent sleepers; stale rows | the window holds; an answer is for its own request; nobody waits for ever | `Generation` |
| Ledger, rule store, permission engine (`ledger.rs`, `rule_store.rs`, `permission.rs`, `web_agent.rs` 446-841) | hash chain, rules, overlays | two writes per change; overlapping transactions; swallowed read errors | the chain verifies; acknowledged changes are audited; the rules in force decide | `Ledger`, `Policy` |
| Commands, skills' entrypoints, verify steps (`bash.rs`, `skill.rs`, `exec.rs`, `forge-verify/lib.rs`) | process group, two pipes, timeout | a child left behind, a full pipe, an exit that races the kill, bytes that are no text | the group is gone, each stream whole if it is text, a cut step fails | `Processes` |
| forge verify (`main.rs` 331-434, `config.rs`) | configuration, evidence file, exit code | killed or reconfigured in the middle; an older evidence in place | an open gate has its evidence | `VerifyCommand` |
| LSP client (`lsp.rs`) | process, ids, opened documents | answers left in the pipe, requests of the server, failed handshakes | each query gets its own answer; one server | `LspClient` |
| Container sandbox (`sandbox.rs`) | container | any call to the daemon fails; chunks split characters | nothing is left; no chunk is missing | `Sandbox` |
| Skills and registry (`vetter.rs`, `skills.rs`, `registry.rs`, `mcp.rs`) | registry, directories | what is vetted changes before it is loaded; an append to the ledger fails | unique names; only vetted skills; the ledger never contradicts them | `Skills` |
| File tools (`read.rs`, `edit.rs`, `diff.rs`, `lib.rs`) | files | edits that race; ends of lines; off-by-one of diffs, pages and cuts | a diff is of its edit; only a racing edit is lost; pages are the file | `WorkspaceFiles` |
| Terminal interface (`tui_app.rs`, `forge-tui`) | two threads, three channels, modal | keys typed ahead, switches, a quit in the middle, a message to a task that has failed | a turn uses what was selected; transcript in order; quitting stops the agent | `Tui` |
| Verification jobs (`forge-server/lib.rs` 361-455) | one slot | check and set in two sections | one job at a time; evidence of the run | `VerifyJobs` |
| Prompt library (`prompt_library.rs`) | rows | two processes, statements without a transaction | a favourite is a parity of toggles; ids keep their prompt | `PromptLibrary` |
| MCP console (`mcp_console.rs`) | probe threads | silent servers | online means answered; the console returns | `Consoles` |
| Telemetry, experiments (`telemetry.rs`, `experiment.rs`) | events | dropped records, failed queries; two variants compared | usage is true; a winner is earned | `Telemetry`, `Experiments` |
| Wire contracts (`plan.rs`, `workflow.rs`, `canonical.rs`, `prompt_integrity.rs`) | - | numbering, order of keys, modes | accepts exactly what it says; equal text, equal value | `Contracts` |

How they interact: an HTTP message becomes a blocking task that runs the agent
loop; the loop loads the stored rules, asks the session hub when a tool's policy is
Ask, sends its history through cache, limiter and gateway, appends to the ledger and
the durable session, and publishes its events to the hub, which browsers read
through SSE.  A squad task leases a Python process from the pool, which calls back
over a core socket for language-model turns, tools and human gates; the gates block
in the squad hub.  The command line and the terminal UI drive the same loop over the
same stores from other processes.

## Modules

Each module has one action per handler, statement or step between two awaits or
critical sections; a definition whose name has a suffix, as `Expire_Allows`, is a
faulty variant of the one without it, used only to see that a property notices.

`SessionHub`.  `live`, `log`, `pending`, `busy`, `nextId` are the fields of
`SessionHub` and `SessionState`; `pc, at, req, chan, outcome` follow one HTTP message
into its blocking task; `conn, cursor, seen` are SSE readers, whose receiver is a
cursor that jumps when it is more than `Capacity` behind; `reply` and `verdict`
record what the hub acknowledged and what the loop was told.  `request_permission`
is four actions, because the lock is dropped between them.  The loop is reduced to
its events, its requests and its failure.  `PermissionContract` is what the loop
relies on: one open request, answered and decided at most once, allowed only by an
answer; `SessionHub` implements it, and the modal of `Tui` does too.

`SquadPool`.  `registry`, free list, permits and queue of the semaphore, each slot's
mutex, and the step of each caller through `acquire`.  A caller may be dropped at
every await; a lease is given back in the two steps of its drops; a process may crash
or hang.

`SquadHub`.  `SquadTaskState`'s fields; the steps of handler, driver and kill
requests; core servers and the path they compete for; the one process and its
orchestrator; every gate so far.  An abort takes effect only where the driver waits.
The pool is reduced to what `SquadPool` establishes: `ProcessLease` says what that is (a
process has one client, answers when it is leased, is started for nobody else); the pool
implements it and drivers keep to it.

`SquadCommand`.  The three levels of `forge squad`, the process and its stream, tool
calls on threads that outlive their callers, and the one stdin they ask on.
`Sidecars`.  `client()` under its lock, spawn, wait and drop; requests that go away.

`DurableSession`.  The stream in its order and, for each client, the fields of
`DurableSession` and the step of the loop.  A message is one of six kinds, which are
what loop, compaction and provider tell apart.  `open` reads head and events in two
actions; an append checks the head and fails for any reason; clients die at any step.
`Requests` turns a history into the body of a request: block by block for Anthropic,
several messages for one for OpenAI; its actions are those of the squad's requests.
`Conversation` joins it with `DurableSession`: what the histories that its clients reach are
sent as, with the blocks that the agent loop gives each message.
`Generation`: cache, limiter and the call itself for concurrent calls and passing
time.  `Gateway`: the chain, the parser on chunks of any size, both aggregators.

`Ledger` has the two statements of `append` with their snapshots; `Policy` extends it
with the rule store, the requests that set and revoke rules, and turns that load,
apply and record them.

`Processes`, `VerifyCommand`, `LspClient`, `Sandbox`, `Skills`, `WorkspaceFiles`, `Tui`,
`VerifyJobs`, `PromptLibrary`, `Consoles`, `Telemetry`, `Experiments`, `Contracts`: see
the head of each.  In these, text is modelled where code may lose some of it.
`Processes` has two streams, of units that are UTF-8 or not: `bash` and skills read one
after the other with `read_to_string` (`ReadToString`), which gives nothing of a stream with
one unit that is not, while a verify step keeps the bytes.  In `Sandbox` the output comes in
chunks, each made text by itself (`Lossy`).  In `WorkspaceFiles` a file is a sequence of
characters, among them `\n` and `\r`; an edit replaces any substring, counted without
overlaps as `str::matches` does (`Matched`), writes through a truncation, and its diff and
the pages are of what `str::lines` makes of the text (`Lines`); a page that is cut ends after
some whole lines.  `Skills` has the append that fails (`unrecorded`), `Experiments` and
`Telemetry` the query that fails, and `Tui` the moment between the notice of a failed task
and the end of its receiver (`DropInput`).

`Dashboard` joins the five that `forge-server` serves beside its sessions;
they share no state, and its specification is the conjunction of theirs.  A provider's text and what is drawn are left
out; characters have a width where code cuts bytes.

Modules that have no state in common are checked in one run where that suits.  Its `MC`
module EXTENDS those whose invariants are also proved, takes the rest by INSTANCE, and a
variable `part` says which of them moves.  Most properties of such a run are
conjunctions, one per theme (`CommandsAreContained`, `AuditIsTrue`, ...), whose conjuncts
are the properties stated and explained in the modules: a type invariant, safety, action
and liveness properties.  Many conjuncts have a faulty variant of their own beside the
definition it would break.

## Runs

| Run (module, cfg) | Bounds | Question |
|---|---|---|
| `hub_safety` (`MCSessionHub`) | 2 sessions under a cap of 1, 2 messages, 1 reader, 2 requests, channel of 2 | safety while two messages race for one session, or run in two, and a reader lags |
| `hub_progress` | 2 sessions, 2 messages, 2 requests, no reader | turns end, requests settle, the contract is implemented |
| `pool_safety` (`MCSquadPool`) | 3 callers, 2 slots | slots, permits and processes agree through crashes, failures and cancellations; the pool keeps what it promises of leases; acquires settle |
| `squad_safety` (`MCSquadHub`) | 1 task, 1 kill request, 1 event, 2 gates | gates, stops and clean ends; every accepted task closes |
| `squad_two_tasks` | 2 tasks, 1 kill request, an acquire that leases or panics | the lease follows the driver |
| `squad_stops` | 1 task, 1 kill request, 1 event, 1 gate, 1 message | a stopped driver ends, nothing assumed of the Python side |
| `commands` (`MCCommands`) | a chat and a one-shot client, compaction at 3 messages, 2 steps, a stream of 4 events before the last turn; squad requests of 4 messages; 2 calls of the squad and 1 of the agent, 1 poll, 1 event | the stream, the histories and what is sent of them; approvals and fallback of `forge squad` |
| `policy` (`MCPolicy`) | 2 requests, 1 turn of 1 call, 1 fault, 1 earlier rule with a prefix, 2 scopes, one decision wanted | chain, audit, rules in force, revocation |
| `calls` (`MCCalls`) | 3 calls, 2 models, a window of 2 ticks with one start, 1 fault; every chunking of 5 streams over 3 providers; 3 requests to a service, 2 spawns, 1 fault | limiter and cache; the turn that a stream yields; one process, every request answered |
| `toolbox` (`MCToolbox`) | two pipes of 1, output of 2, 2 steps; 2 queries of 2 asks; output of 2 and 2 faults of the daemon; 2 skill directories, 1 edit of them; files of 3 characters of three kinds (a letter and both ends of a line), what is replaced of 2, 2 editors; 2 runs of verify, 2 steps, 1 edit | each tool on its own |
| `interfaces` (`MCInterfaces`) | 2 turns, 2 requests, 1 switch; 3 clients, 2 steps; 2 web requests and a chat of 2 commands; 2 servers, 2 console requests; 2 generations; three variants of up to 5, 12 and 1 events; plans of 3 phases | terminal, dashboard, telemetry, contracts |
| `gateway_chunks` (`MCCalls`) | streams with wide characters | violation, see Disagreements |

In the hub and the pool, `TurnsStayApart`, `PendingIsAnswerable`, `LossIsBounded` and
`ProcessesAreDistinct` join two invariants each.  What
the composed runs state: `HistoryIsSound` and `AppendsSeeAll` of the durable session,
`TurnsAreSentWhole` of the requests made from it, `SquadOrItsFallback` of `forge squad`, and
`CommandsEnd` of the turns of the one and the return of the other; `CallsKeepLimits` of
limiter and cache, `TurnIsOfProvider` of the gateway, `ServiceIsSingle` of the sidecars, and
`CallsEnd` of the calls of the first and the requests to the last; `AuditIsTrue` and
`RulesInForceDecide` of ledger and rules; `CommandsAreContained` (subprocesses and the
container), `LspAnswersAreOwn`, `SkillsAreVetted`, `EditsAndPagesAreTrue` and
`GateHasItsEvidence`, and `ToolsEnd` of steps, queries and containers; `TerminalIsFaithful`, with the
permission contract of its modal, `DashboardIsTrue` (jobs, prompt library, MCP console, telemetry,
experiments), `ContractsDecide`, and `InterfacesEnd` of turns, pollers and console requests.  `AnsweredOnce`, `LockedByHolder`
and `KeepsToLease` are in no run: they are proved, and the first is a part of `ImplementsContract`.

Why the bounds are enough: two messages, tasks, clients or editors are the smallest race;
two requests or gates the smallest history in which a late answer can name the wrong one; a
channel, pipe or window smaller than what goes through it makes readers lag, writers block
and callers wait; one fault and one crash race everything else, because they are enabled at
every step.  Three clients of the verification slot are one that finds it taken and two that
race.  Three characters are enough for an end of line of two, a repeated line, and a text
that overlaps itself.  The theorems hold without bounds. Bounds (`Max...`) stop what the
outside does, never a step that the code has begun. CHECK_DEADLOCK is off where the modelled
program really stops: every request answered, every client done.

Fairness.  Weak fairness of the program's own steps, on the disjunction of an
actor's steps, never on a particular outcome: spawned tasks and threads are
scheduled, timers expire, calls to the model and to tools return.  Nobody is assumed
to answer a permission, to press a key or to stop a task; no process is assumed to
boot, to survive or, in `Consoles`, to answer.  Where an actor waits for a fair mutex
(tokio's), its steps are strongly fair (`Sidecars`, `LspClient`).  `LspClient` assumes
a server that has not ended to answer, because no read of the client has a time limit.
`SquadCommand` assumes that a process which lives closes its stream, for the same
reason, and that tools end.  `StopSpec` of `SquadHub` assumes only the Rust side's own
steps.  Faults are never fair.

## Proofs

Eight modules.  Each theorem holds for every set of sessions, messages, readers, callers,
slots, tasks, clients, calls, queries, documents, profiles and directories, and for every bound, from the
named assumptions on the constants alone; those say that bounds are numbers, that sets
whose members are counted are finite, and what a profile, a window, a list of default
steps or a provider's stream is.  An invariant is seldom inductive as stated; its
strengthening stands beside it in the component's module or before the theorem, and TLC
checked it first wherever TLC can evaluate it.

`SessionHub_proofs`: type correctness, one turn at a time, pending requests are
awaited, answers are final, tools start only when allowed, turns are whole, a pending
request reaches every reader, and every step of the hub is a step of the contract or a
stutter.  `BridgeInv` adds what ties a waiting task to its request: ids are handed out
once (`FreshIds`), a waiting task is either pending with an empty channel or answered
with the acknowledged answer in it (`WaitingState`), and an outcome allows only what was
acknowledged (`OutcomeState`).  `HubInv` adds the shape of the log (`TurnShape`: an
active turn's events end the log) and that a started event names a request of this
behaviour.  A reader needs two more: the event of a request that is waited for is the
last of its log and the only one of its id (`RequestEvents`), and a reader has seen the
request at its cursor (`ReaderPlace`).  So a reader that lags and jumps, jumps to it or
is past it; with the responder that its task waits on, that is `PendingIsAnswerable`.

`SquadPool_proofs`: type correctness, exclusive slots, mutexes held by the slot's
holder, permits conserved, panics only after a loss, and never more processes than
slots.  Permits are counted: the sets of permit holders and of slots are finite,
and each action moves one element or none.  `PoolImplementsLease`: an acquire is
invisible until a process answers, then it is `Take`, where `SlotExclusive` says that nobody
else has the slot; the first half of a lease's drop is `Give`; and a process that dies, hangs
or is killed is `Die`, under a lease or not.

`SquadHub_proofs`: type correctness; the lease; the kill switch against
`register_abort`; gates against answers; that a stop denies the task's gates; and that
a stream closed without an error holds all that the orchestrator sent.
Type correctness needs `Connected`: an orchestrator that asks has a connection, a
kill request that is under way has a target, and the event a driver publishes is
still at the head of its stream although the orchestrator appends meanwhile.
`StopReachesDriver` follows from `Told`: a registered driver was aborted, or it is
not stopped and its handle is there for the next stop to take.  `WaitingIsPending`
needs `Unspawned`: before a task is spawned nobody can reach its state, so that
`new_task` overwrites no open gate.  `StopDeniesGates` then follows, because only
the kill switch marks a task stopped, and it clears the pending gate.
`ClosedMeansComplete` needs `DeliveryInv`: what the driver has published, what it holds
and what the stream still has are together what was sent, in that order, at every step
of the driver; and once a kill request is about to close a task, it is stopped for good.
`DriversKeepToLeases` is the other side of `PoolImplementsLease`: what drivers do with the one
process of the hub's model is permitted by the contract that the pool implements, so that the
two modules, which are checked apart, fit together.

`Commands_proofs`: the history and the appends of `DurableSession`, and `SquadCommand`.  `SessionInv` says of each client
what it has at which step (`ClientInv`); the hard part is `Paired`, which is about a
history that grows at its end, is replaced by a summary and a suffix in a compaction,
and is read again by a client that lost a race.  `Replay` of a stream is described by
lemmas about its last base, so that an append at its end is an append to the replay
and an epoch starts a new one.  `AppendsSeeAll` follows from `ViewIsReplay`: who holds the
head holds the replay of all that is below it.  That calls stay paired on their way to a
provider (`TurnsAreAlwaysSentWhole`) follows a history through its recursive definitions:
whatever puts the pieces together step by step makes what `FlattenSeq` makes (`FlattenIs`), so
that blocks and messages are known piece by piece; and after each message of the history,
every call but those of a last turn has its result where the request wants it (`Answered`).
For `forge squad`, `CommandInv` adds that no
tool has started for a call that is still asking, so that each line of stdin that agrees
starts at most one tool, whichever callers are gone; the tools that were asked for are
counted, and the level and the process are followed together.

`Policy_proofs`: the ledger, and which rule decides.  `LedgerInv`: a transaction that
sees a table chains to its last entry, so that the chain verifies however transactions
overlap.  `PolicyInv` follows each request through its two writes, so that what was
acknowledged has its entry, and each turn from its load: the rules it holds are those
of one moment since its message.  `OrderMakesStoredRulesWin` is about the sort alone: the
order in which `list_for_profile` returns the rows makes the first match of `Evaluate`
the newest rule of the most specific kind, for every table.

`Calls_proofs`: limits and cache of `Generation`, `Sidecars`, and `Gateway`.  `LimiterInv`: the limiter has the last starts, and
those it forgot are older than the window, so that counting what it has counts all that
matter.  `CacheInv`: what is stored under a key is a turn that a provider gave to a call
with that key.  `SidecarInv`: a request that looks at the kept process or starts another
holds the lock of its service, only a request that waits for a process or calls its own has
one, and no process is known before it is spawned; so nothing runs that nobody will drop.
`GatewayInv` says of a stream on which bytes it stands (`StreamIsRead`): for some event j, the
parser holds just what was received after the j-th blank line (`Holds`), and the aggregator
has the pieces of the first j events, each where the script wants it (`Got`).  A chunk moves j
as far as the blank lines it completes, whichever way it cuts them (`TextParses`): what ends a
block in the text are the ends of the frames that the chunk reaches (`FrameIs`), and a finite
set of numbers has only one increasing enumeration (`SortedIs`).  Then events are handled one by
one (`AllAreRead`), with one step for each aggregator (`AnthropicStep`, `OpenaiStep`), and at the
end of the stream what the aggregator has is what the script says (`WholeTurn`).  Of a chunk
that splits a character this holds too, but for the pieces it garbles: `ChainIsFollowed`, which is
about order and about what the caller was shown, has no hypothesis.  `TurnIsAlwaysOfProvider` has
two: the lines end with a line feed, since otherwise no block ends, and no data has a character
of several bytes, since `gateway_chunks` refutes it there.  What may be streamed is assumed
(`GatewayAssumption`): what the two APIs send, of any length and in any number.

`Toolbox_proofs`: the gate of CI, the registry of skills, the processes and containers of
commands, the language server, and the file tools.  `PipelineInv`: what has been executed is
a beginning of what this run's configuration asks for, although the file changes meanwhile.
`LoaderInv`: a directory that has been passed is not vetted again, and what the audit has
behind it has one entry, as the vetter says it, or its append has failed. `ProcessInv`
counts what each stream holds: what was written is what was read and what the pipe holds, a
stream that has ended was taken as far as it is text (`Taken`), and a step that was cut has
no group and no pass.  `SandboxInv` ties each call to the daemon to the container it leaves,
and the logs to the chunks they are made of.  `LspInv` has three parts: what runs and is not
abandoned is the process in the slot or the one whose handshake the holder of the mutex
waits for (`ServerIsCurrent`); the query that reads waits for the latest id, and no message
of another query has it, however many answers were left behind (`IdsAreOwn`); a document is
in the pipe or seen by the server at most once, and noted (`OpenedIsNoted`).  `FilesInv`
says that an edit on its way has found its text in what it has read (`IsEdit`) and writes
what replaces it there, whoever writes meanwhile, and that while nobody races it the file is
what it has read until it opens it (`IsAlone`), so that `EditsAreKept`; the rest is about
sequences.  The loops of `line_diff` and of the cut stop at the least place where their test
fails (`LeastOfNaturals`, from the well-founded order of the numbers), their end reaches no
further back than their beginning has left, and so three pieces make up either file.  What
`Replaced` flattens is followed piece by piece (`FlattenSteps`): where there is one match,
the pieces are the text before it, what replaces it, and the text behind it.

`Interfaces_proofs`: all the safety of the terminal and of the dashboard.  `TuiInv` is the
largest of the inductive invariants, because three channels lie between the two threads, and
each of its parts says what may be under way.  `SelectionInv`: the commands form a chain,
each changes what its predecessor has selected, and the end of the chain is what the
interface shows, so that a message is received with the selection it was sent with.
`TurnInv`: at most one message is under way, and while one is, or the interface is not busy,
no event of a turn is, until the failure of the task has been told (`Told`): then messages
may be accepted that nobody will read; an event that is not a status is of the present turn;
after `idle` come only statuses, and after `fatal` nothing.  With it `StatusInv` (the last
status under way is the task's selection), `TranscriptInv` (text not in the transcript yet
is of this turn, which has the event that closes it still to come, or of a turn that failed)
and `LossInv` (an `idle` under way is saved or has the notice before it) are kept.
`ModalInv`: a request is in the channel, on the screen, answered, or its asker learns that
the interface is gone, and only one of them at a time; that gives the refinement: `RunTool`
asks, `AnswerModal` answers, `ReceiveAnswer` decides, and every other step leaves the
contract alone.  `VerifyInv`: unless two requests met, at most one client is between its two
sections or has a thread, and the slot is that run's, with its evidence at the end.
`LibraryInv`: ids are given once, in the order of the saves; what a toggle has read still
holds when it writes, unless it met another (`ToggleInv`), which is why a favourite is a
parity only of toggles that met none. `ConsoleInv`: the console waits only while it has rows
to fill, and while the rules stay as they are, what has been read of them so far equals
them. `TelemetryInv` (`Records`): each kind of record, stored or lost, counts the
generations that have got as far, so that what is shown is what was done less what was lost.
A winner (`WinnersAreEarned`) is arithmetic: the test that two rates differ is symmetric,
and stays true when all counts are doubled.

Only model-checked, and why:

* All liveness, which is out of the prover's reach: `TurnsAndRequestsEnd`, `AcquiresSettle`,
  `EveryTaskCloses`, `StopEndsDriver`, `CommandsEnd`, `CallsEnd`, `ToolsEnd`, `InterfacesEnd`.
* `ContractsDecide`: `Contracts` compares texts with RECURSIVE operators.
* That the contract's fairness is implemented; its safety is (`ImplementsContractSafety`).

## Disagreements with the documentation

Shown by a run:

* `gateway_chunks`: `SseParser::push` decodes each chunk by itself, so a chunk that ends
  inside a character of several bytes garbles it, although it "receives bytes in
  arbitrary pieces" (`sse.rs:3-4`).

Met while modelling; the models have these behaviours, and the properties are stated
so that they hold beside them:

* ADR 0020 (31-33) caps live sessions so that blocking threads are bounded; `subscribe`
  (`web_agent.rs:218`) creates sessions past the cap.
* An answer that comes after the timeout and before the request is cleared gets 200 and
  is ignored, although `web_agent.rs:284-286` promises an error.
* `service.rs:190-192` says that a permit always has an index in the free list; an
  acquire that fails after `pop` loses its slot and returns its permit.  With one slot
  every later acquire panics.
* `squad_agent.rs:449-450` says two live tasks never compete for the core socket; it is
  bound before the process is leased, and the later task gets the earlier one's callbacks.
* `squad_agent.rs:65-66` says no new step follows a stop; orchestrator and core server of
  the task go on, and tools can be asked for and run.
* `squad_agent.rs:416-417` counts on the stop to publish the error; a driver that fails
  between the mark and the notice closes its stream without any.
* A rule stays in force without its ledger entry (and a 500) when two appends overlap,
  with no fault at all: ADR 0018:23, `web_agent.rs:677`.
* Two requests that both find the slot free start two pipelines: `forge-server/lib.rs:361`.
  Its job also falls back to the default steps when `forge.toml` is broken (394-397),
  where `forge verify` fails ("the same config", 355-359).
* An empty list of steps, or a table of a misspelt name, is a `Pass` with nothing run,
  although `config.rs:68-70` prefers to fail loudly.
* `bash` reads its pipe only after the exit (`bash.rs:67`): a command that writes more than
  a pipe holds is killed at the timeout.  A background process that keeps the pipe open
  makes the read last past the timeout.
* A handshake that fails leaves the language server running (`lsp.rs:155`, against 16).
* MCP calls have no timeout, and `is_error` of a result is ignored (`mcp.rs:101, 116`).
* A wait may exceed `max_wait` when a call loses its slot again (`rate_limit.rs:26-27`);
  `max_tokens` is not in the cache's key; `--no-cache` moves the cache to memory.
* `sse.rs:27` looks for `\n\n` only: streams with `\r\n\r\n` yield nothing.  Streams that
  end early, or with an error event, count as whole and are cached.
* A turn that max_tokens cuts in its calls is persisted without results and repeated to
  the provider (`agent_loop.rs:157`); `RequestsPairCalls` exempts such histories.
* `safe_mode` says nothing was written (`squad.rs:516`), but a tool on a blocking thread
  may have.  A question whose caller is gone still takes the next line of stdin.
* Every model id that contains "gemini" contains "mini", so those without a large pattern
  are small (`model_tier.rs:34`).
* A gate of the squad that expired stays pending, so a late answer gets 200; gates of tools
  send no event; messages to a task that is over are accepted; SSE of a task id that never
  runs stays open.
* An edit of `xx` in `xxx` is made, of the first place, since `matches` counts places that do
  not overlap (`edit.rs:53`), although without replace_all "the occurrence must be unique,
  ambiguous edits are rejected" (`edit.rs:51-52`).
* `bash` "returns stdout+stderr" (`bash.rs:24`), but a stream with one byte that is no UTF-8
  is dropped as a whole, without a word (`bash.rs:83, 88`; skills too, `skill.rs:169, 174`).
* A query that fails, or an event whose variant is a number, is answered with 404
  (`telemetry.rs:230-236`), which is said of an experiment without events
  (`forge-server/lib.rs:242-243`); `forge experiment` refuses it in the same way.
* The audit of skills may miss an entry: an append that fails is told on stderr and dropped
  (`session.rs:87-91`), and the skill is loaded all the same (`main.rs:581-594`).
* An edit that changes only how lines end has an empty diff, since `str::lines` forgets that
  (`diff.rs:26-27`); two edits of one file that race lose one of them, and a read between
  truncation and write sees an empty file (`edit.rs:60`).
* The logs of a container are made text chunk by chunk, so that a character that is split
  comes out as marks (`sandbox.rs:274`).
* After the task of the terminal has told its error, and until its receiver is dropped
  (`tui_app.rs:282-285`), a message is still accepted; nobody will read it, and the interface
  stays busy until the user leaves.  `TurnEnds` excepts just that (`TooLate`).

## Not modelled

* Deliberation inside a squad task (consensus, autonomy, planning, memory): one coroutine
  over the model's answers, which shares nothing with other tasks; its events, gates and
  calls are in `SquadHub`.
* PromptForge, review and eval services: handlers without state between requests.
* Parsers of tool output, model tiers, the one-shot file tools (write, glob, grep, list):
  matching of text or a single system call.
* The consoles for LSP, sandbox and doctor, and the views of the dashboard that show one
  file or one statement; the load generator, fixtures and test support.
* Schemas that are only types, generated gRPC code, and the web front end.
* Panics of libraries inside blocking tasks, a health check that never answers, a `uv`
  that dies without its child, failures of `stat` on `forge.toml`.

## Plan

What was planned is done.  Left is what the prover or TLC does not reach: see "Only
model-checked" and "Not modelled".
