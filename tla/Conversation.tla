---------------------------- MODULE Conversation ----------------------------
(***************************************************************************)
(* The histories of DurableSession as Requests sends them to a provider: a  *)
(* message of a history has its blocks (forge-core's agent_loop.rs).  The   *)
(* clients of a session and the requests of the squad share no state.       *)
(***************************************************************************)
EXTENDS DurableSession, Requests

CONSTANTS Uses, \* tools that a turn of the model uses
          System, Tools, Spoken \* a system's texts, tools on offer, what a text says

ASSUME UsesAssumption == Uses \in Nat

ConversationSpec == Spec /\ RequestSpec

-----------------------------------------------------------------------------
Said(role) == ChatMessage(role, <<Text(Spoken)>>)

\* The turn at place i of its history, with its text and the tools it uses ...
Calls(i) == ChatMessage("assistant", <<Text(Spoken)>> \o [k \in 1..Uses |-> ToolUse(<<i, k>>)])

\* Faulty: the results are in the order in which the tools end.
Results_AsTheyEnd(i) == ChatMessage("user", [k \in 1..Uses |-> ToolResult(<<i, Uses + 1 - k>>)])

\* ... and the results of its tools.
Results(i) == ChatMessage("user", [k \in 1..Uses |-> ToolResult(<<i, k>>)])

History(m) ==
  [i \in DOMAIN m |-> CASE m[i] \in {"task", "summary"} -> Said("user")
                        [] m[i] = "reply"             -> Said("assistant")
                        [] m[i] \in {"calls", "cut"}  -> Calls(i)
                        [] m[i] = "results"           -> Results(i - 1)]

-----------------------------------------------------------------------------
\* The history that a client is about to send pairs its calls and results, after
\* compactions, lost races and crashes; a turn that was cut in its calls has none.
RequestsPairCalls ==
  \A c \in Client :
    pc[c] = "looping" /\ (\A i \in DOMAIN messages[c] : messages[c][i] # "cut") =>
      PairsCallsWithResults(System, History(messages[c]), Tools)

\* run_once and the chat: what they send keeps the turns of a history and pairs its calls
\* with their results in the form of either provider, after compactions, lost races and
\* deaths.
TurnsAreSentWhole == RequestTypeOK /\ RequestsPairCalls /\ SquadKeepsTurns
=============================================================================
