------------------------------ MODULE Consoles ------------------------------
(***************************************************************************)
(* The MCP console of the dashboard (forge-cli's mcp_console.rs): a request  *)
(* loads the rules of both agents, and then probes the declared servers one *)
(* after the other, each on a blocking thread and with a timeout that leaves *)
(* the thread running.                                                      *)
(***************************************************************************)
EXTENDS Naturals, Sequences

CONSTANTS Server,      \* entries of .forge/mcp.toml, with one tool each
          MaxRequests, MaxChanges  \* bounds: requests, changes of a rule

ASSUME ConsolesAssumption == MaxRequests \in Nat \ {0} /\ MaxChanges \in Nat

Agent    == {"build", "plan"}
Decision == {"allow", "ask", "deny"}
Rules    == [Agent -> [Server -> {"none", "allow", "deny"}]]
Probe    == (1..MaxRequests) \X (1..2)

VARIABLES rules,    \* of the store, for the tools of the servers
          changes,
          phase, requests, config, \* of the request; the servers it has read
          engine,   \* what it has read of the rules
          view,     \* its answer so far
          thread,   \* of a probe
          steady    \* no rule has changed, or failed to load, since the request began
consoleVars == <<rules, changes, phase, requests, config, engine, view, thread, steady>>

Shown == [server : Server, online : BOOLEAN, policy : [Agent -> Decision]]

ConsoleTypeOK ==
  /\ rules \in Rules /\ changes \in 0..MaxChanges
  /\ phase \in {"idle", "build", "plan", "probe", "wait"} /\ requests \in 0..MaxRequests
  /\ config \in Seq(Server) /\ Len(config) <= 2 /\ engine \in Rules
  /\ view \in Seq(Shown) /\ Len(view) <= Len(config) /\ steady \in BOOLEAN
  /\ thread \in [Probe -> {"none", "running", "listed", "error"}]

NoRules == [s \in Server |-> "none"]

ConsoleInit ==
  /\ rules = [a \in Agent |-> NoRules] /\ changes = 0
  /\ phase = "idle" /\ requests = 0 /\ config = <<>> /\ engine = rules /\ view = <<>>
  /\ thread = [p \in Probe |-> "none"] /\ steady = TRUE

-----------------------------------------------------------------------------
\* read_mcp_server_configs: a file that is missing or invalid declares nothing.
Begin ==
  /\ phase = "idle" /\ requests < MaxRequests /\ requests' = requests + 1
  /\ config' \in {<<>>} \cup {<<s>> : s \in Server} \cup {<<s, t>> : s, t \in Server}
  /\ phase' = "build" /\ view' = <<>> /\ steady' = TRUE
  /\ UNCHANGED <<rules, changes, engine, thread>>

\* Faulty: one engine for both agents.
Loaded_Build(a) == rules["build"]

Loaded(a) == rules[a]

\* load_rule_overrides of an agent; an error of the store gives no rules.
LoadRules(a) ==
  /\ phase = a /\ phase' = (IF a = "build" THEN "plan" ELSE "probe")
  /\ \/ engine' = [engine EXCEPT ![a] = Loaded(a)] /\ UNCHANGED steady
     \/ engine' = [engine EXCEPT ![a] = NoRules] /\ steady' = FALSE
  /\ UNCHANGED <<rules, changes, requests, config, view, thread>>

\* The profiles have no rule for the tools of a server: they ask.
Evaluate(e, a, s) == IF e[a][s] = "none" THEN "ask" ELSE e[a][s]

Current == <<requests, Len(view) + 1>>

StartProbe ==
  /\ phase = "probe" /\ Len(view) < Len(config) /\ phase' = "wait"
  /\ thread' = [thread EXCEPT ![Current] = "running"]
  /\ UNCHANGED <<rules, changes, requests, config, engine, view, steady>>

\* list_tools_blocking returns, which it may never do.
ThreadEnds(p) ==
  /\ thread[p] = "running" /\ \E r \in {"listed", "error"} : thread' = [thread EXCEPT ![p] = r]
  /\ UNCHANGED <<rules, changes, phase, requests, config, engine, view, steady>>

Show(online) ==
  LET s == config[Len(view) + 1] IN
  /\ view' = Append(view, [server |-> s, online |-> online,
                           policy |-> [a \in Agent |-> Evaluate(engine, a, s)]])
  /\ phase' = "probe" /\ UNCHANGED <<rules, changes, requests, config, engine, thread, steady>>

\* Faulty: the answer of an earlier request's probe will do.
Listed_Once == \E r \in 1..requests : thread[<<r, Current[2]>>] = "listed"

Listed == thread[Current] = "listed"

TakeAnswer ==
  /\ phase = "wait"
  /\ \/ Listed /\ Show(TRUE)
     \/ thread[Current] = "error" /\ Show(FALSE)

\* Faulty: the probe is awaited without a limit.
TimeIsUp_Never == FALSE

TimeIsUp == thread[Current] = "running"

\* PROBE_TIMEOUT; an answer that is there is taken first.
Elapsed == phase = "wait" /\ TimeIsUp /\ Show(FALSE)

Respond ==
  /\ phase = "probe" /\ Len(view) = Len(config) /\ phase' = "idle"
  /\ UNCHANGED <<rules, changes, requests, config, engine, view, thread, steady>>

\* The user changes a rule meanwhile.
ChangeRule ==
  /\ changes < MaxChanges /\ changes' = changes + 1 /\ steady' = FALSE
  /\ \E a \in Agent, s \in Server, d \in {"none", "allow", "deny"} : rules' = [rules EXCEPT ![a][s] = d]
  /\ UNCHANGED <<phase, requests, config, engine, view, thread>>

Handle == (\E a \in Agent : LoadRules(a)) \/ StartProbe \/ TakeAnswer \/ Respond

ConsoleNext == Begin \/ Handle \/ Elapsed \/ ChangeRule \/ \E p \in Probe : ThreadEnds(p)

ConsoleSpec == ConsoleInit /\ [][ConsoleNext]_consoleVars

\* The handler goes on and time passes; a server may be silent for ever.
ConsoleFairSpec == ConsoleSpec /\ WF_consoleVars(Handle) /\ WF_consoleVars(Elapsed)

-----------------------------------------------------------------------------
\* A server is shown as online only if it has answered this request's probe; a
\* thread that an earlier timeout has left behind answers nobody.
OnlineHasAnswered ==
  \A i \in DOMAIN view : view[i].online => thread[<<requests, i>>] = "listed"

\* The policy that is shown is what a turn of that agent would decide now,
\* unless a rule has changed, or could not be read, since the request began.
PreviewIsPolicy ==
  steady => \A i \in DOMAIN view : \A a \in Agent :
              view[i].policy[a] = Evaluate(rules, a, config[i])

\* "um servidor lento/travado nao deve travar o dashboard" (mcp_console.rs:23).
ConsoleReturns == phase # "idle" ~> phase = "idle"
\* The inductive strengthening: what has been read of the rules, and how far the request is.
ConsoleInv ==
  /\ ConsoleTypeOK /\ OnlineHasAnswered /\ PreviewIsPolicy
  /\ phase \in {"build", "plan"} => view = <<>>
  /\ phase # "idle" => requests > 0
  /\ phase = "wait" => Len(view) < Len(config)
  /\ steady /\ phase = "plan" => engine["build"] = rules["build"]
  /\ steady /\ phase \in {"probe", "wait"} => engine = rules
=============================================================================
