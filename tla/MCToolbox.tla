------------------------------ MODULE MCToolbox ------------------------------
(***************************************************************************)
(* Small instances for TLC of the tools.  The modules have no state in       *)
(* common in the program: a behaviour is one of a single module, while the   *)
(* others stay as they start.                                               *)
(***************************************************************************)
EXTENDS Skills, VerifyCommand, LspClient, Sandbox, WorkspaceFiles

CONSTANTS q1, q2, f1, b1, t1, e1, e2, x, nl, cr

VARIABLE part  \* the module whose behaviour this is

Holds(manifest, name, entrypoint, permissions, features, failing) ==
  [manifest |-> manifest, name |-> name, entrypoint |-> entrypoint, permissions |-> permissions,
   features |-> features, failing |-> failing]

MCBuiltin    == {b1}
MCThirdParty == {t1}
MCQuery      == {q1, q2}
MCDocument   == {f1}
MCEditor     == {e1, e2}
MCDefault    == <<"test", "lint">>
MCContent ==
  {Holds(TRUE, "eco", TRUE, {}, {}, FALSE),  Holds(TRUE, "bash", TRUE, {}, {}, FALSE),
   Holds(FALSE, "eco", TRUE, {}, {}, FALSE), Holds(TRUE, "eco", FALSE, {}, {}, FALSE),
   Holds(TRUE, "eco", TRUE, {"bash"}, {"bash", "net"}, FALSE),
   Holds(TRUE, "srv", TRUE, {"bash"}, {"bash"}, FALSE), Holds(TRUE, "eco", TRUE, {}, {}, TRUE)}

toolVars == <<part, processVars, lspVars, sandboxVars, vars, fileVars, verifyVars>>

\* Where another part moves, a part starts in one way.
NoProcess == ProcessInit /\ runner = "bash" /\ code = 0 /\ toWrite = 0
NoLsp == LspInit /\ kind = [q \in MCQuery |-> "position"] /\ file = [q \in MCQuery |-> f1]
NoSandbox == SandboxInit /\ local /\ exitCode = 0
NoSkills == Init /\ disk = [d \in Dir |-> CHOOSE c \in Content : TRUE]
NoFiles ==
  /\ old = [e \in MCEditor |-> <<x>>] /\ new = [e \in MCEditor |-> <<>>]
  /\ all = [e \in MCEditor |-> TRUE] /\ text = <<>> /\ ends = <<>> /\ FilesInit

\* One of two editors takes every x away, the other replaces any text by one of these.
MCNew == {<<>>, <<x>>, <<nl>>, <<cr, nl>>}
SomeFiles ==
  /\ text \in BoundedSeq(Char, MaxChars)
  /\ \E o \in BoundedSeq(Char, MaxEdit), n \in MCNew :
       /\ old = [e \in MCEditor |-> IF e = e1 THEN o ELSE <<x>>]
       /\ new = [e \in MCEditor |-> IF e = e1 THEN n ELSE <<>>]
       /\ \E every \in {FALSE, Cardinality(Matched(text, o)) > 1} : all = [e \in MCEditor |-> e = e2 \/ every]
  /\ FilesInit /\ (ends # <<>> => text = <<>>)
NoVerify == VerifyInit /\ config = Absent

MCInit ==
  \/ /\ part = "process" /\ ProcessInit
     /\ NoLsp /\ NoSandbox /\ NoSkills /\ NoFiles /\ NoVerify
  \/ /\ part = "lsp" /\ LspInit
     /\ NoProcess /\ NoSandbox /\ NoSkills /\ NoFiles /\ NoVerify
  \/ /\ part = "sandbox" /\ SandboxInit
     /\ NoProcess /\ NoLsp /\ NoSkills /\ NoFiles /\ NoVerify
  \/ /\ part = "skills" /\ Init
     /\ NoProcess /\ NoLsp /\ NoSandbox /\ NoFiles /\ NoVerify
  \/ /\ part = "files" /\ SomeFiles
     /\ NoProcess /\ NoLsp /\ NoSandbox /\ NoSkills /\ NoVerify
  \/ /\ part = "verify" /\ VerifyInit
     /\ NoProcess /\ NoLsp /\ NoSandbox /\ NoSkills /\ NoFiles

MCNext ==
  \/ /\ part = "process" /\ ProcessNext
     /\ UNCHANGED <<part, lspVars, sandboxVars, vars, fileVars, verifyVars>>
  \/ /\ part = "lsp" /\ LspNext
     /\ UNCHANGED <<part, processVars, sandboxVars, vars, fileVars, verifyVars>>
  \/ /\ part = "sandbox" /\ SandboxNext
     /\ UNCHANGED <<part, processVars, lspVars, vars, fileVars, verifyVars>>
  \/ /\ part = "skills" /\ Next
     /\ UNCHANGED <<part, processVars, lspVars, sandboxVars, fileVars, verifyVars>>
  \/ /\ part = "files" /\ FilesNext
     /\ UNCHANGED <<part, processVars, lspVars, sandboxVars, vars, verifyVars>>
  \/ /\ part = "verify" /\ VerifyNext
     /\ UNCHANGED <<part, processVars, lspVars, sandboxVars, vars, fileVars>>

MCSpec == MCInit /\ [][MCNext]_toolVars

\* The fairness of FairSpec of Processes, LspClient and Sandbox.
MCFairSpec ==
  /\ MCSpec
  /\ WF_processVars(part = "process" /\ Spawn)      /\ WF_processVars(part = "process" /\ PollChild)
  /\ WF_processVars(part = "process" /\ ReadPipe)   /\ WF_processVars(part = "process" /\ Collected)
  /\ WF_processVars(part = "process" /\ ThreadEnds) /\ WF_processVars(part = "process" /\ AwaitStep)
  /\ WF_processVars(part = "process" /\ JoinThread) /\ WF_processVars(part = "process" /\ Expire)
  /\ WF_lspVars(part = "lsp" /\ Serve) /\ \A q \in MCQuery : SF_lspVars(part = "lsp" /\ QueryStep(q))
  /\ WF_sandboxVars(part = "sandbox" /\ SandboxStep /\ refused' = refused)
  /\ WF_sandboxVars(part = "sandbox" /\ TimePasses)

\* The properties of each module, in its behaviours.
EveryStepEnds  == part = "process" => StepsEnd
EveryQueryEnds == part = "lsp" => QueriesEnd
EveryRunEnds   == part = "sandbox" => SandboxReturns

\* A step with a timeout, a query and a run in a container end, although a command fills
\* the pipe, a server sends what cannot be read and a container never ends.
ToolsEnd == EveryStepEnds /\ EveryQueryEnds /\ EveryRunEnds
=============================================================================
