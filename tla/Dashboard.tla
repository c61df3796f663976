----------------------------- MODULE Dashboard -----------------------------
(***************************************************************************)
(* What the dashboard serves beside its sessions: verification jobs, the     *)
(* prompt library, the MCP console, the usage of models, and reports on      *)
(* experiments.  The handlers share no state in the program, and each part   *)
(* keeps its own specification.                                             *)
(***************************************************************************)
EXTENDS VerifyJobs, PromptLibrary, Consoles, Telemetry, Experiments

DashboardSpec == VerifySpec /\ LibrarySpec /\ ConsoleSpec /\ TelemetrySpec /\ ExperimentSpec

\* Where no two requests met, one verification job at a time, with the evidence of its own
\* run, which is final; the prompt library keeps its favourites and its ids; a server shown
\* online has answered, and the policy shown is the one in force; the usage that is shown
\* and the winner of an experiment are covered by the events that were recorded
\* (forge-server's lib.rs and mcp_console.rs).
DashboardIsTrue ==
  /\ [](VerifyTypeOK /\ OneJobAtATime /\ EvidenceIsOfRun) /\ DoneIsFinal
  /\ []LibraryIsKept
  /\ [](ConsoleTypeOK /\ OnlineHasAnswered /\ PreviewIsPolicy)
  /\ [](TelemetryTypeOK /\ UsageIsTrue /\ CallsWereMisses)
  /\ [](ExperimentTypeOK /\ WinnerIsEarned)
=============================================================================
