---------------------------- MODULE MCInterfaces ----------------------------
(***************************************************************************)
(* Small instances for TLC of the terminal interface, of what the dashboard  *)
(* serves beside its sessions, and of the wire contracts.  The modules have *)
(* no state in common in the program: a behaviour is one of a single module, *)
(* while the others stay as they start.                                      *)
(***************************************************************************)
EXTENDS Tui, Dashboard

CONSTANTS c1, c2, c3, w1, w2, s1, s2, g1, g2, m1, m2, n1, n2

MCClient     == {c1, c2, c3}
MCWeb        == {w1, w2}
MCServer     == {s1, s2}
MCGeneration == {g1, g2}
MCModel      == {m1, m2}
MCMaxEvents  == <<5, 12, 1>>

VARIABLES part, document, checked

D == INSTANCE Contracts WITH verdict <- checked, MaxPhases <- 3, Node <- {n1, n2}, MaxEdges <- 2

ASSUME MCInterfacesAssumption == D!ContractsAssumption

contractVars == <<document, checked>>
vars == <<part, tuiVars, verifyVars, libraryVars, consoleVars, telemetryVars, experimentVars, contractVars>>

MCInit ==
  /\ part \in {"tui", "verify", "library", "console", "telemetry", "experiment", "contract"}
  /\ TuiInit /\ VerifyInit /\ LibraryInit /\ ConsoleInit /\ TelemetryInit /\ ExperimentInit
  /\ part # "telemetry" => asks = [g \in Generation |-> m1]
  /\ IF part = "contract" THEN D!Init ELSE document = 0 /\ checked = 0

MCNext ==
  \/ /\ part = "tui" /\ TuiNext
     /\ UNCHANGED <<part, verifyVars, libraryVars, consoleVars, telemetryVars, experimentVars, contractVars>>
  \/ /\ part = "verify" /\ VerifyNext
     /\ UNCHANGED <<part, tuiVars, libraryVars, consoleVars, telemetryVars, experimentVars, contractVars>>
  \/ /\ part = "library" /\ LibraryNext
     /\ UNCHANGED <<part, tuiVars, verifyVars, consoleVars, telemetryVars, experimentVars, contractVars>>
  \/ /\ part = "console" /\ ConsoleNext
     /\ UNCHANGED <<part, tuiVars, verifyVars, libraryVars, telemetryVars, experimentVars, contractVars>>
  \/ /\ part = "telemetry" /\ TelemetryNext
     /\ UNCHANGED <<part, tuiVars, verifyVars, libraryVars, consoleVars, experimentVars, contractVars>>
  \/ /\ part = "experiment" /\ ExperimentNext
     /\ UNCHANGED <<part, tuiVars, verifyVars, libraryVars, consoleVars, telemetryVars, contractVars>>
  \/ /\ part = "contract" /\ D!Next
     /\ UNCHANGED <<part, tuiVars, verifyVars, libraryVars, consoleVars, telemetryVars, experimentVars>>

MCSpec == MCInit /\ [][MCNext]_vars

\* The fairness of TuiFairSpec, VerifyFairSpec and ConsoleFairSpec.
MCFairSpec ==
  /\ MCSpec
  /\ WF_tuiVars(part = "tui" /\ AgentStep) /\ WF_tuiVars(part = "tui" /\ ApplyEvent)
  /\ \A c \in Client : /\ WF_verifyVars(part = "verify" /\ StartRun(c))
                       /\ WF_verifyVars(part = "verify" /\ JobStep(c))
                       /\ WF_verifyVars(part = "verify" /\ Poll(c))
  /\ WF_consoleVars(part = "console" /\ Handle) /\ WF_consoleVars(part = "console" /\ Elapsed)

PlansAreNumbered   == part = "contract" => D!PlansAreNumbered
ModeOnlyEscalates  == part = "contract" => D!ModeOnlyEscalates
TextIsOfValue      == part = "contract" => D!TextIsOfValue

\* Plan::validate, validate_contract and canonical_json, over bounded documents: accepted
\* plans are numbered in order, a stricter mode never accepts more, and equal texts are
\* of equal values.
ContractsDecide ==
  (part = "contract" => D!TypeOK) /\ PlansAreNumbered /\ ModeOnlyEscalates /\ TextIsOfValue

\* A turn of the terminal ends or waits for an answer on the screen, and quitting stops its
\* agent; whoever has started a verification learns how it ended; the MCP console returns
\* though a server is silent.
InterfacesEnd == TurnEnds /\ QuitStopsAgent /\ PollersEnd /\ ConsoleReturns
=============================================================================
