------------------------------ MODULE Requests ------------------------------
(***************************************************************************)
(* From a history to the body of a provider's request: the blocks of a      *)
(* message (forge-llm's chat.rs), the two bodies (anthropic.rs, openai.rs), *)
(* and the requests of the squad, which reach core_generate as a list of    *)
(* roles and texts (forge-cli's squad.rs).  The functions take any history; *)
(* the actions are those of the squad.                                      *)
(***************************************************************************)
EXTENDS Naturals, Sequences, SequencesExt

CONSTANTS Content,     \* texts of messages
          MaxMessages  \* bound: messages of a request of the squad

ASSUME RequestsAssumption == MaxMessages \in Nat

VARIABLES wire,      \* messages_json
          chosen,    \* the provider that is asked
          bodies,    \* what is sent to it, a sequence of at most one body
          returned   \* core_generate is done, by an error if nothing was sent
requestVars == <<wire, chosen, bodies, returned>>

Provider == {"anthropic", "openai"}
Garbage  == <<[role |-> "none", content |-> "none"]>>  \* text that is no such list
WireMsg  == [role : {"system", "user", "assistant"}, content : Content]

-----------------------------------------------------------------------------
Text(t)       == [type |-> "text", of |-> t]
ToolUse(id)   == [type |-> "tool_use", of |-> id]
ToolResult(id) == [type |-> "tool_result", of |-> id]
ChatMessage(role, content) == [role |-> role, content |-> content]

\* filter_map over the blocks of a message.
Values(content, type) ==
  FlattenSeq([i \in DOMAIN content |-> IF content[i].type = type THEN <<content[i].of>> ELSE <<>>])

\* anthropic: one message for one, block by block.
AnthropicMessages(history) ==
  [i \in DOMAIN history |-> [role |-> history[i].role, blocks |-> history[i].content]]

ToolMessage(id) == [role |-> "tool", texts |-> <<>>, calls |-> <<>>, answers |-> id]
Plain(role, texts, calls) == [role |-> role, texts |-> texts, calls |-> calls, answers |-> 0]

\* Faulty: a message holds one result.
OpenaiUser_OneResult(content) ==
  LET results == Values(content, "tool_result") texts == Values(content, "text") IN
  (IF results = <<>> THEN <<>> ELSE <<ToolMessage(results[1])>>)
  \o (IF texts = <<>> THEN <<>> ELSE <<Plain("user", texts, <<>>)>>)

\* A message of the user: its results, one message each, and then its text, if any.
OpenaiUser(content) ==
  LET results == Values(content, "tool_result") texts == Values(content, "text") IN
  [i \in DOMAIN results |-> ToolMessage(results[i])]
  \o (IF texts = <<>> THEN <<>> ELSE <<Plain("user", texts, <<>>)>>)

\* A turn of the model: its text and its calls in one message.
OpenaiAssistant(content) ==
  <<Plain("assistant", Values(content, "text"), Values(content, "tool_use"))>>

OpenaiMessages(system, history) ==
  <<Plain("system", system, <<>>)>> \o
  FlattenSeq([i \in DOMAIN history |->
                IF history[i].role = "user" THEN OpenaiUser(history[i].content)
                ELSE OpenaiAssistant(history[i].content)])

AnthropicBody(request) ==
  [system |-> request.system, messages |-> AnthropicMessages(request.messages),
   tools |-> request.tools]

OpenaiBody(request) ==
  [system |-> <<>>, messages |-> OpenaiMessages(request.system, request.messages),
   tools |-> request.tools]

\* The request of the agent loop: the whole history and every tool.
AgentRequest(system, history, tools) == [system |-> system, messages |-> history, tools |-> tools]

-----------------------------------------------------------------------------
\* Faulty: whatever is not the system's is the user's.
RoleOf_User(role) == "user"

RoleOf(role) == IF role = "assistant" THEN "assistant" ELSE "user"

\* The messages of some roles, in their order.
OfRoles(msgs, roles) ==
  FlattenSeq([i \in DOMAIN msgs |-> IF msgs[i].role \in roles THEN <<msgs[i]>> ELSE <<>>])

\* Faulty: offers the squad the tools of the agent.
CoreRequest_Tools(msgs) ==
  LET chat == OfRoles(msgs, {"user", "assistant"}) IN
  [system |-> <<>>, tools |-> {"read"},
   messages |-> [i \in DOMAIN chat |-> ChatMessage(chat[i].role, <<Text(chat[i].content)>>)]]

\* core_generate: the system's texts are joined, wherever they are; no tools.
CoreRequest(msgs) ==
  LET system == OfRoles(msgs, {"system"})
      chat   == OfRoles(msgs, {"user", "assistant"}) IN
  [system   |-> [i \in DOMAIN system |-> system[i].content],
   messages |-> [i \in DOMAIN chat |-> ChatMessage(RoleOf(chat[i].role), <<Text(chat[i].content)>>)],
   tools    |-> {}]

RequestInit ==
  /\ wire \in BoundedSeq(WireMsg, MaxMessages) \cup {Garbage}
  /\ chosen \in Provider /\ bodies = <<>> /\ returned = FALSE

\* What is sent for a list of messages.
Body(msgs) ==
  IF chosen = "openai" THEN OpenaiBody(CoreRequest(msgs)) ELSE AnthropicBody(CoreRequest(msgs))

CoreGenerate ==
  /\ ~returned /\ returned' = TRUE
  /\ bodies' = IF wire = Garbage THEN <<>> ELSE <<Body(wire)>>
  /\ UNCHANGED <<wire, chosen>>

RequestNext == CoreGenerate

RequestSpec == RequestInit /\ [][RequestNext]_requestVars

-----------------------------------------------------------------------------
RequestTypeOK ==
  /\ wire \in Seq(WireMsg) \cup {Garbage} /\ chosen \in Provider /\ returned \in BOOLEAN
  /\ Len(bodies) <= 1 /\ \A i \in DOMAIN bodies : bodies[i].tools = {}

\* The results of a turn follow it at once, one for each of its calls and in their
\* order, and there are results nowhere else.
OpenaiAnswersCalls(msgs) ==
  \A i \in DOMAIN msgs :
    /\ \A k \in DOMAIN msgs[i].calls :
         i + k \in DOMAIN msgs /\ msgs[i + k] = ToolMessage(msgs[i].calls[k])
    /\ msgs[i].role = "tool" => \E j \in 1..(i - 1) : i - j \in DOMAIN msgs[j].calls

AnthropicAnswersCalls(msgs) ==
  LET calls(i)   == Values(msgs[i].blocks, "tool_use")
      answers(i) == Values(msgs[i].blocks, "tool_result")
  IN \A i \in DOMAIN msgs :
       /\ answers(i) = IF i = 1 THEN <<>> ELSE calls(i - 1)
       /\ i = Len(msgs) => calls(i) = <<>>

\* Whichever provider of the chain a history is sent to, it pairs calls and results
\* as providers demand: else the request, and every later one of the session, fails.
PairsCallsWithResults(system, history, tools) ==
  LET request == AgentRequest(system, history, tools) IN
  /\ OpenaiAnswersCalls(OpenaiBody(request).messages)
  /\ AnthropicAnswersCalls(AnthropicBody(request).messages)

\* The squad's loop writes its turns and the user's by turns; what the provider gets
\* alternates as they do, with the system's texts apart.
Alternate(msgs) ==
  \A i \in DOMAIN msgs : msgs[i].role = IF i % 2 = 1 THEN "user" ELSE "assistant"
SquadKeepsTurns ==
  \A i \in DOMAIN bodies :
    LET said  == OfRoles(wire, {"user", "assistant"})
        heard == OfRoles(bodies[i].messages, {"user", "assistant", "tool"})
    IN Alternate(said) => Len(heard) = Len(said) /\ Alternate(heard)

\* Its inductive strengthening: a body is that of the messages.
RequestInv ==
  RequestTypeOK /\ (bodies # <<>> => wire \in Seq(WireMsg) /\ bodies = <<Body(wire)>>)
=============================================================================
