------------------------------ MODULE MCCalls ------------------------------
(***************************************************************************)
(* Small instances for TLC of what concurrent calls share in a process:      *)
(* Generation, calls of the model whose limiter sleeps for at most a window  *)
(* or for less; Gateway, one of those calls inside; and Sidecars, requests   *)
(* to a service that has one process.  A behaviour is one of a single module. *)
(***************************************************************************)
EXTENDS Generation, Gateway, Sidecars

CONSTANTS c1, c2, c3, r1, r2, r3, WideText

MCCall    == {c1, c2, c3}
MCHandler == {r1, r2, r3}
MCMaxWait == {Window - 1, Window}

Ev(type, index, last, reason) ==
  [type |-> type, index |-> index, last |-> last, reason |-> reason,
   wide |-> WideText /\ type = "text"]
Other(type)       == Ev(type, 0, FALSE, "none")
Text              == Other("text")
Args(index, last) == Ev("args", index, last, "none")
Stop(reason)      == Ev("stop", 0, FALSE, reason)

\* Text, text and a tool, two tools; for the others, two interleaved calls.
AnthropicStreams ==
  {<<Other("start"), Other("block_text"), Text, Text, Stop("end_turn")>>,
   <<Other("block_text"), Text, Other("block_tool"), Args(0, FALSE), Args(0, TRUE),
     Stop("tool_use")>>,
   <<Other("block_tool"), Args(0, TRUE), Other("block_tool"), Args(0, TRUE),
     Stop("tool_use")>>}
OpenaiStreams ==
  {<<Text, Text, Stop("end_turn"), Other("usage")>>,
   <<Text, Args(0, FALSE), Args(1, TRUE), Args(0, TRUE), Stop("tool_use")>>}

VARIABLE part  \* the module whose behaviour this is

\* Where another part moves, a part starts in one way.
MCInit ==
  /\ part \in {"generation", "gateway", "sidecars"} /\ Init /\ GatewayInit /\ SidecarInit
  /\ part # "sidecars" => \A r \in MCHandler : service[r] = "cli"
  /\ part # "generation" =>
       maxWait = Window /\ \A c \in Call : request[c] = CHOOSE r \in Request : TRUE

MCNext ==
  \/ part = "generation" /\ Next /\ UNCHANGED <<part, gatewayVars, sidecarVars>>
  \/ part = "gateway" /\ GatewayNext /\ UNCHANGED <<part, vars, sidecarVars>>
  \/ part = "sidecars" /\ SidecarNext /\ UNCHANGED <<part, vars, gatewayVars>>

MCSpec == MCInit /\ [][MCNext]_<<part, vars, gatewayVars, sidecarVars>>

\* The fairness of FairSpec of Generation and Sidecars.
MCFairSpec ==
  /\ MCSpec
  /\ WF_vars(part = "generation" /\ Tick)
  /\ \A c \in Call : WF_vars(part = "generation" /\ Step(c))
  /\ \A r \in MCHandler : SF_sidecarVars(part = "sidecars" /\ HandlerStep(r))

EveryConcurrentCallEnds == part = "generation" => EveryCallReturns
RequestsEnd             == part = "sidecars" => EveryRequestEnds

\* Every call ends, whichever slot of the limiter it loses to others, and so does every
\* request to a service, whatever happens to its process and to other callers.
CallsEnd == EveryConcurrentCallEnds /\ RequestsEnd
=============================================================================
