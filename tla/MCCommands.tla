----------------------------- MODULE MCCommands -----------------------------
(***************************************************************************)
(* A small instance for TLC of the commands of the CLI: DurableSession, the  *)
(* clients of forge run and forge chat; Requests, what their histories and   *)
(* the squad's requests are sent as; and SquadCommand, forge squad.  A        *)
(* behaviour is one of a single module, while the others stay as they start. *)
(***************************************************************************)
EXTENDS Conversation, SquadCommand

CONSTANTS c1, c2, agent

MCClient  == {c1, c2}
MCChat    == {c1}
MCCall    == {c1, c2}
MCContent == {"hello"}
MCTools   == {"read"}

VARIABLE part  \* the module whose behaviour this is

\* Where another part moves, a part starts in one way.
MCInit ==
  /\ part \in {"conversation", "request", "squad"}
  /\ Init /\ SquadInit
  /\ part # "squad" => autoYes = TRUE
  /\ IF part = "request" THEN RequestInit
     ELSE wire = <<>> /\ chosen = "openai" /\ bodies = <<>> /\ returned = FALSE

MCNext ==
  \/ part = "conversation" /\ Next /\ UNCHANGED <<part, requestVars, commandVars>>
  \/ part = "request" /\ RequestNext /\ UNCHANGED <<part, vars, commandVars>>
  \/ part = "squad" /\ SquadNext /\ UNCHANGED <<part, vars, requestVars>>

MCSpec == MCInit /\ [][MCNext]_<<part, vars, requestVars, commandVars>>

\* The fairness of FairSpec of each module.
MCFairSpec ==
  /\ MCSpec
  /\ \A c \in Client : WF_vars(part = "conversation" /\ ClientStep(c))
  /\ WF_commandVars(part = "squad" /\ CommandStep) /\ WF_commandVars(part = "squad" /\ CloseStream)
  /\ \A c \in Caller : WF_commandVars(part = "squad" /\ CallStep(c))

\* The properties of each module, in its behaviours.
TurnsEnd           == part = "conversation" => EveryTurnEnds
ForgeSquadReturns  == part = "squad" => CommandReturns

\* A turn ends, whatever the model asks for and whichever append is lost, and forge squad
\* returns, whether or not its process ever boots or survives.
CommandsEnd == TurnsEnd /\ ForgeSquadReturns
=============================================================================
