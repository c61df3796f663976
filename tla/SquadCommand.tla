---------------------------- MODULE SquadCommand ----------------------------
(***************************************************************************)
(* The command `forge squad` (forge-cli's squad.rs): the core server, the   *)
(* squad's process and its event stream, and the two levels it falls back   *)
(* to.  The tools of the squad and of the single agent ask on one stdin.    *)
(*                                                                         *)
(* A question and a tool each run on a blocking thread, which outlives the  *)
(* handler that started it.  Requests of the squad are handled by tasks of  *)
(* their connection: an abort of the core server ends the accept loop only, *)
(* and a handler is dropped when its caller gives up or dies.               *)
(***************************************************************************)
EXTENDS Naturals, Sequences, FiniteSets

CONSTANTS Call,       \* RunTool calls of the squad
          Agent,      \* the tool call of the single agent
          MaxWait,    \* bound: polls of wait_ready before its deadline
          MaxStreamed \* bound: events of the stream

ASSUME SquadCommandAssumption ==
  /\ Agent \notin Call /\ MaxWait \in Nat \ {0} /\ MaxStreamed \in Nat \ {0}

VARIABLES level,     \* step of run_squad
          autoYes,   \* --yes
          waited,    \* polls of wait_ready
          core,      \* accept loop of serve_core
          proc,      \* process group of forge_squad.server
          unread,    \* events sent and not yet read
          streamEnd, \* how the server's side of the stream is
          sent,      \* number of events sent
          session,   \* ledger session of the squad
          handler,   \* what awaits a call
          policy,    \* what the permission engine says of a call
          reader,    \* callers with a thread that reads a line of stdin
          tool,      \* thread of a call's tool
          logged,    \* calls with an entry in the ledger
          yes        \* ghost: lines with which the user agreed
commandVars == <<level, autoYes, waited, core, proc, unread, streamEnd, sent, session,
          handler, policy, reader, tool, logged, yes>>
squadVars == <<waited, core, proc, unread, streamEnd, sent, session>>
callVars  == <<handler, policy, reader, tool, logged, yes>>

Caller   == Call \cup {Agent}
Policy   == {"allow", "deny", "ask", "invalid"}
Fallback == {"agent", "safe", "ended", "exited"}
Level    == {"serve", "spawn", "ready", "open", "verify", "execute", "drain"} \cup Fallback

SquadTypeOK ==
  /\ level \in Level /\ autoYes \in BOOLEAN /\ waited \in 0..MaxWait
  /\ core \in {"off", "on", "aborted"}
  /\ proc \in {"none", "booting", "up", "dead"}
  /\ unread \in Seq({"event", "error"}) /\ Len(unread) <= MaxStreamed
  /\ streamEnd \in {"none", "open", "closed", "broken"} /\ sent \in 0..MaxStreamed
  /\ session \in {"none", "open", "succeeded", "failed"}
  /\ handler \in [Caller -> {"idle", "asking", "running", "returned", "dropped"}]
  /\ policy \in [Caller -> {"none"} \cup Policy]
  /\ reader \subseteq Caller
  /\ tool \in [Caller -> {"none", "running", "ended"}]
  /\ logged \subseteq Caller /\ yes \in Nat

SquadInit ==
  /\ level = "serve" /\ autoYes \in BOOLEAN /\ waited = 0
  /\ core = "off" /\ proc = "none" /\ unread = <<>> /\ streamEnd = "none" /\ sent = 0
  /\ session = "none"
  /\ handler = [c \in Caller |-> "idle"] /\ policy = [c \in Caller |-> "none"]
  /\ reader = {} /\ tool = [c \in Caller |-> "none"] /\ logged = {} /\ yes = 0

-----------------------------------------------------------------------------
(* run_squad and try_squad *)

\* The core server is spawned; after 100 looks for its socket file run_squad
\* goes on without it.
ServeCore ==
  /\ level = "serve" /\ level' = "spawn"
  /\ core' \in {"on", "off"}
  /\ UNCHANGED <<autoYes, waited, proc, unread, streamEnd, sent, session, callVars>>

\* Faulty: the process is left to itself.
Killed_Nothing == proc

\* Drop of SquadSupervisor: the group is killed.
Killed == IF proc \in {"booting", "up"} THEN "dead" ELSE proc

\* The end of try_squad, which drops its supervisor, and core_task.abort().
\* What was sent and not read is lost with the stream.
LeaveSquad(next) ==
  /\ level' = next
  /\ proc' = Killed
  /\ core' = IF core = "on" THEN "aborted" ELSE core
  /\ unread' = <<>>
  /\ streamEnd' = IF streamEnd = "open" THEN "broken" ELSE streamEnd

\* No workspace or no `uv`: fallback before there is a process.
SpawnFails ==
  /\ level = "spawn" /\ LeaveSquad("agent")
  /\ UNCHANGED <<autoYes, waited, sent, session, callVars>>

SpawnSquad ==
  /\ level = "spawn" /\ level' = "ready" /\ proc' = "booting"
  /\ UNCHANGED <<autoYes, waited, core, unread, streamEnd, sent, session, callVars>>

\* One round of wait_ready: the process has exited, answers, or is waited for
\* until the deadline.
WaitReady ==
  /\ level = "ready"
  /\ \/ proc = "dead" /\ LeaveSquad("agent") /\ UNCHANGED waited
     \/ proc = "up" /\ level' = "open" /\ UNCHANGED <<waited, proc, core, unread, streamEnd>>
     \/ proc = "booting" /\ waited >= MaxWait /\ LeaveSquad("agent") /\ UNCHANGED waited
     \/ /\ proc = "booting" /\ waited < MaxWait /\ waited' = waited + 1
        /\ UNCHANGED <<level, proc, core, unread, streamEnd>>
  /\ UNCHANGED <<autoYes, sent, session, callVars>>

OpenSession ==
  /\ level = "open"
  /\ \/ level' = "verify" /\ session' = "open" /\ UNCHANGED <<proc, core, unread, streamEnd>>
     \/ LeaveSquad("agent") /\ session' \in {"none", "open"}
  /\ UNCHANGED <<autoYes, waited, sent, callVars>>

\* run_verify_pipeline; its error leaves the session as it is.
GatherEvidence ==
  /\ level = "verify"
  /\ \/ level' = "execute" /\ UNCHANGED <<proc, core, unread, streamEnd>>
     \/ LeaveSquad("agent")
  /\ UNCHANGED <<autoYes, waited, sent, session, callVars>>

ExecuteTask ==
  /\ level = "execute"
  /\ \/ /\ proc = "up" /\ level' = "drain" /\ streamEnd' = "open"
        /\ UNCHANGED <<proc, core, unread>>
     \/ proc = "dead" /\ LeaveSquad("agent")
  /\ UNCHANGED <<autoYes, waited, sent, session, callVars>>

\* render_and_record, one message.  An error event fails the run at once.
ReadEvent ==
  /\ level = "drain" /\ unread # <<>>
  /\ IF Head(unread) = "error"
     THEN LeaveSquad("agent") /\ session' = "failed"
     ELSE unread' = Tail(unread) /\ UNCHANGED <<level, proc, core, streamEnd, session>>
  /\ UNCHANGED <<autoYes, waited, sent, callVars>>

\* Faulty: a stream that breaks counts as its end.
StreamEnds_BreakIsEnd ==
  /\ level = "drain" /\ unread = <<>> /\ streamEnd \in {"closed", "broken"}
  /\ LeaveSquad("ended") /\ session' = "succeeded"
  /\ UNCHANGED <<autoYes, waited, sent, callVars>>

\* Faulty: a stream that breaks is waited for.
StreamEnds_OnlyClosed ==
  /\ level = "drain" /\ unread = <<>> /\ streamEnd = "closed"
  /\ LeaveSquad("ended") /\ session' = "succeeded"
  /\ UNCHANGED <<autoYes, waited, sent, callVars>>

\* The end of the stream completes the run, its break fails it.
StreamEnds ==
  /\ level = "drain" /\ unread = <<>>
  /\ \/ streamEnd = "closed" /\ LeaveSquad("ended") /\ session' = "succeeded"
     \/ streamEnd = "broken" /\ LeaveSquad("agent") /\ session' = "failed"
  /\ UNCHANGED <<autoYes, waited, sent, callVars>>

-----------------------------------------------------------------------------
(* The squad's process *)

Boot ==
  /\ proc = "booting" /\ proc' = "up"
  /\ UNCHANGED <<level, autoYes, waited, core, unread, streamEnd, sent, session, callVars>>

\* A process that dies breaks its stream; the tail may be lost with it.
Crash ==
  /\ proc \in {"booting", "up"} /\ proc' = "dead"
  /\ streamEnd' = IF streamEnd = "open" THEN "broken" ELSE streamEnd
  /\ unread' \in {unread, <<>>}
  /\ UNCHANGED <<level, autoYes, waited, core, sent, session, callVars>>

Yield(kind) ==
  /\ proc = "up" /\ streamEnd = "open" /\ sent < MaxStreamed
  /\ unread' = Append(unread, kind) /\ sent' = sent + 1
  /\ UNCHANGED <<level, autoYes, waited, core, proc, streamEnd, session, callVars>>

CloseStream ==
  /\ proc = "up" /\ streamEnd = "open"
  /\ \A c \in Call : handler[c] \notin {"asking", "running"}
  /\ streamEnd' = "closed"
  /\ UNCHANGED <<level, autoYes, waited, core, proc, unread, sent, session, callVars>>

-----------------------------------------------------------------------------
(* Tool calls: core_run_tool, and the resolver of the single agent *)

Respond(c, h) == handler' = [handler EXCEPT ![c] = h]

\* A call is logged with its result, by the squad's handler or the agent's
\* events; an append that fails would only be reported.
Log(c) == logged' = logged \cup {c}

StartTool(c) == Respond(c, "running") /\ tool' = [tool EXCEPT ![c] = "running"]

\* An allowed call starts, a denied one returns, and under Ask stdin decides
\* unless --yes does.
Judge(c) ==
  \E p \in Policy :
    /\ policy' = [policy EXCEPT ![c] = p]
    /\ \/ p = "invalid" /\ Respond(c, "returned") /\ UNCHANGED <<reader, tool, logged>>
       \/ p = "deny" /\ Respond(c, "returned") /\ Log(c) /\ UNCHANGED <<reader, tool>>
       \/ /\ p = "allow" \/ (p = "ask" /\ autoYes)
          /\ StartTool(c) /\ UNCHANGED <<reader, logged>>
       \/ /\ p = "ask" /\ ~autoYes
          /\ Respond(c, "asking") /\ reader' = reader \cup {c} /\ UNCHANGED <<tool, logged>>

\* A call of the squad over its core server, one after the other.
SquadCalls(c) ==
  /\ proc = "up" /\ streamEnd = "open" /\ core = "on" /\ handler[c] = "idle"
  /\ \A d \in Call : handler[d] \notin {"asking", "running"}
  /\ Judge(c)
  /\ UNCHANGED <<level, autoYes, squadVars, yes>>

AgentCalls ==
  /\ level = "agent" /\ handler[Agent] = "idle" /\ Judge(Agent)
  /\ UNCHANGED <<level, autoYes, squadVars, yes>>

\* Faulty: a line answers every question on the terminal.
TypeLine_AnswersAll(c, agrees) ==
  /\ c \in reader /\ reader' = {}
  /\ yes' = IF agrees THEN yes + 1 ELSE yes
  /\ handler' = [d \in Caller |-> IF d \in reader /\ handler[d] = "asking"
                                  THEN IF agrees THEN "running" ELSE "returned"
                                  ELSE handler[d]]
  /\ tool' = [d \in Caller |-> IF d \in reader /\ handler[d] = "asking" /\ agrees
                               THEN "running" ELSE tool[d]]
  /\ UNCHANGED <<level, autoYes, squadVars, policy, logged>>

\* One thread holds stdin and takes the line, also for a handler that is gone.
TypeLine(c, agrees) ==
  /\ c \in reader /\ reader' = reader \ {c}
  /\ yes' = IF agrees THEN yes + 1 ELSE yes
  /\ CASE handler[c] = "asking" /\ agrees  -> StartTool(c) /\ UNCHANGED logged
       [] handler[c] = "asking" /\ ~agrees -> Respond(c, "returned") /\ Log(c) /\ UNCHANGED tool
       [] OTHER                            -> UNCHANGED <<handler, tool, logged>>
  /\ UNCHANGED <<level, autoYes, squadVars, policy>>

\* The run of a tool whose handler was dropped reaches no ledger.
ToolEnds(c) ==
  /\ tool[c] = "running" /\ tool' = [tool EXCEPT ![c] = "ended"]
  /\ IF handler[c] = "running" THEN Respond(c, "returned") /\ Log(c)
     ELSE UNCHANGED <<handler, logged>>
  /\ UNCHANGED <<level, autoYes, squadVars, policy, reader, yes>>

\* The caller timed out, or its connection is gone.
DropHandler(c) ==
  /\ c \in Call /\ handler[c] \in {"asking", "running"} /\ Respond(c, "dropped")
  /\ UNCHANGED <<level, autoYes, squadVars, policy, reader, tool, logged, yes>>

-----------------------------------------------------------------------------
(* Levels 2 and 3, and the end of the process *)

\* run_once returns once its tool has; an error leads to the safe mode.
AgentEnds ==
  /\ level = "agent" /\ handler[Agent] \in {"idle", "returned"}
  /\ level' \in {"ended", "safe"}
  /\ UNCHANGED <<autoYes, squadVars, callVars>>

SafeMode ==
  /\ level = "safe" /\ level' = "ended"
  /\ UNCHANGED <<autoYes, squadVars, callVars>>

\* The runtime waits for the blocking threads that are still there.
Exit ==
  /\ level = "ended" /\ level' = "exited"
  /\ reader = {} /\ \A c \in Caller : tool[c] # "running"
  /\ UNCHANGED <<autoYes, squadVars, callVars>>

-----------------------------------------------------------------------------
CommandStep == ServeCore \/ SpawnFails \/ SpawnSquad \/ WaitReady \/ OpenSession
               \/ GatherEvidence \/ ExecuteTask \/ ReadEvent \/ StreamEnds
               \/ AgentCalls \/ AgentEnds \/ SafeMode \/ Exit
CallStep(c) == (\E agrees \in BOOLEAN : TypeLine(c, agrees)) \/ ToolEnds(c)

SquadNext ==
  \/ CommandStep
  \/ Boot \/ Crash \/ CloseStream \/ \E kind \in {"event", "error"} : Yield(kind)
  \/ \E c \in Call : SquadCalls(c) \/ DropHandler(c)
  \/ \E c \in Caller : CallStep(c)

SquadSpec == SquadInit /\ [][SquadNext]_commandVars

\* The command runs, a started orchestrator closes its stream, the user types
\* lines, and tools end.  Nothing makes a process boot.
SquadFairSpec ==
  /\ SquadSpec
  /\ WF_commandVars(CommandStep) /\ WF_commandVars(CloseStream)
  /\ \A c \in Caller : WF_commandVars(CallStep(c))

-----------------------------------------------------------------------------
Ran(c) == tool[c] # "none"

\* Without --yes, every tool that ran under Ask, for the squad or for the agent
\* after it, took a line of its own with which the user agreed; threads that a
\* dropped handler left on stdin do not change that.
AskedRuns == {c \in Caller : Ran(c) /\ policy[c] = "ask"}

RunsAreApproved == ~autoYes => Cardinality(AskedRuns) <= yes

\* The single agent never works beside a live squad: its process is dead and
\* can neither boot any more nor reach a new core server.
AgentWorksAlone == level \in Fallback => proc \in {"none", "dead"} /\ core # "on"

\* The ledger says the squad succeeded only of a stream that its server closed;
\* a death in the middle leads to the fallback.
SuccessMeansClosed ==
  session = "succeeded" => streamEnd = "closed" /\ level \in {"ended", "exited"}

\* run_squad, with a process that dies at any step and threads that outlive their
\* callers: each approved run took a yes of its own, the single agent starts beside no
\* live squad, and success is reported for a stream that closed.
SquadOrItsFallback == SquadTypeOK /\ RunsAreApproved /\ AgentWorksAlone /\ SuccessMeansClosed

\* Its inductive strengthening: no tool has started for a call that is still asking, and
\* the stream holds no more than was sent.
CommandInv ==
  /\ SquadOrItsFallback /\ IsFiniteSet(AskedRuns) /\ Len(unread) <= sent
  /\ \A c \in Caller : handler[c] \in {"idle", "asking"} => tool[c] = "none"

\* The command returns, whether or not a process ever boots or survives.
CommandReturns == <>(level = "exited")
=============================================================================
