------------------------------ MODULE Sandbox ------------------------------
(***************************************************************************)
(* A command in a container (forge-tools' sandbox.rs) and the skill that     *)
(* runs there (skill.rs) where Processes has it run on the host.  Every call *)
(* to the daemon may fail; the container goes on by itself from the call     *)
(* that starts it.                                                          *)
(***************************************************************************)
EXTENDS Processes

CONSTANTS MaxLogs, MaxRefused

ASSUME SandboxAssumption == MaxLogs \in Nat /\ MaxRefused \in Nat

VARIABLES calling,   \* the call to the daemon that comes next
          local,     \* the image is there
          container, exitCode,
          output,    \* the chunks the container's output comes in; the daemon keeps it
          logs,      \* what was fetched of it, as text
          status, timedOut,
          overdue,   \* the timeout has passed
          returned,
          stuck,     \* the removal of the container has failed
          refused    \* bounds the calls that fail
sandboxVars == <<calling, local, container, exitCode, output, logs, status, timedOut, overdue,
                 returned, stuck, refused>>

\* Faulty: the end of the stream without a status counts as success.
Unknown_Zero == 0

\* -1 of the code: no status was received.
Unknown == 99

\* A chunk of output: whole characters, or bytes of which some are only part of one.
Chunk == {"text", "part"}

SandboxTypeOK ==
  /\ calling \in {"ping", "image", "create", "start", "wait", "kill", "logs", "remove", "done"}
  /\ local \in BOOLEAN /\ container \in {"none", "created", "running", "exited", "removed"}
  /\ exitCode \in {0, 1} /\ output \in Seq(Chunk) /\ Len(output) <= MaxLogs /\ logs \in Seq({"text", "replaced"})
  /\ status \in {0, 1, Unknown} /\ timedOut \in BOOLEAN /\ overdue \in BOOLEAN
  /\ returned \in {"none", "ok", "unavailable", "error"} /\ stuck \in BOOLEAN
  /\ refused \in 0..MaxRefused

SandboxInit ==
  /\ calling = "ping" /\ local \in BOOLEAN /\ container = "none" /\ exitCode \in {0, 1}
  /\ output = <<>> /\ logs = <<>> /\ status = Unknown /\ timedOut = FALSE /\ overdue = FALSE
  /\ returned = "none" /\ stuck = FALSE /\ refused = 0

-----------------------------------------------------------------------------
Fault == refused < MaxRefused /\ refused' = refused + 1

Give(o) == returned' = o

\* connect_with_local_defaults and ping: nothing has been asked of the daemon yet.
Ping ==
  /\ calling = "ping"
  /\ \/ calling' = "image" /\ UNCHANGED <<returned, refused>>
     \/ Fault /\ calling' = "done" /\ Give("unavailable")
  /\ UNCHANGED <<local, container, exitCode, output, logs, status, timedOut, overdue, stuck>>

\* ensure_image pulls what inspect does not find, or fails to find.
EnsureImage ==
  /\ calling = "image"
  /\ \/ local' = TRUE /\ calling' = "create" /\ UNCHANGED <<returned, refused>>
     \/ ~local /\ Fault /\ calling' = "done" /\ Give("error") /\ UNCHANGED local
  /\ UNCHANGED <<container, exitCode, output, logs, status, timedOut, overdue, stuck>>

Create ==
  /\ calling = "create"
  /\ \/ container' = "created" /\ calling' = "start" /\ UNCHANGED <<returned, refused>>
     \/ Fault /\ calling' = "done" /\ Give("error") /\ UNCHANGED container
  /\ UNCHANGED <<local, exitCode, output, logs, status, timedOut, overdue, stuck>>

\* Faulty: an error returns without removing what was created.
Abandon_Leaves == calling' = "done" /\ Give("error")

\* An error after the creation goes through the removal.
Abandon == calling' = "remove" /\ Give("error")

StartContainer ==
  /\ calling = "start"
  /\ \/ container' = "running" /\ calling' = "wait" /\ UNCHANGED <<returned, refused>>
     \/ Fault /\ Abandon /\ UNCHANGED container
  /\ UNCHANGED <<local, exitCode, output, logs, status, timedOut, overdue, stuck>>

\* Faulty: the wait has no limit.
TimeIsUp_Never == FALSE

TimeIsUp == overdue

\* wait_container under the timeout: a status (an error other than 0 carries it),
\* an error, the end of the stream without either, or the timeout.
Wait ==
  /\ calling = "wait"
  /\ \/ /\ container = "exited" /\ status' = exitCode /\ calling' = "logs"
        /\ UNCHANGED <<returned, timedOut, refused>>
     \/ Fault /\ Abandon /\ UNCHANGED <<status, timedOut>>
     \/ Fault /\ calling' = "logs" /\ UNCHANGED <<returned, status, timedOut>>
     \/ /\ container = "running" /\ TimeIsUp /\ calling' = "kill" /\ timedOut' = TRUE
        /\ UNCHANGED <<returned, status, refused>>
  /\ UNCHANGED <<local, container, exitCode, output, logs, overdue, stuck>>

\* The error of the kill is dropped.
KillContainer ==
  /\ calling = "kill" /\ calling' = "logs"
  /\ \/ container' = "exited" /\ UNCHANGED refused
     \/ Fault /\ UNCHANGED container
  /\ UNCHANGED <<local, exitCode, output, logs, status, timedOut, overdue, returned, stuck>>

\* Each chunk is made text by itself: the part of a character is replaced by a mark.
Lossy(s) == [i \in DOMAIN s |-> IF s[i] = "part" THEN "replaced" ELSE "text"]

\* What the daemon has at that moment, without following; chunks that fail are left out.
Logs ==
  /\ calling = "logs" /\ calling' = "remove"
  /\ \/ logs' = Lossy(output) /\ UNCHANGED refused
     \/ Fault /\ \E i \in 0..Len(output) : \E j \in i..Len(output) :
          logs' = Lossy(SubSeq(output, 1, i) \o SubSeq(output, j + 1, Len(output)))
  /\ UNCHANGED <<local, container, exitCode, output, status, timedOut, overdue, returned, stuck>>

\* remove_quiet, with force: a container that runs is stopped.  Its own error is
\* dropped.
RemoveQuiet ==
  \/ container' = "removed" /\ UNCHANGED <<stuck, refused>>
  \/ Fault /\ stuck' = TRUE /\ UNCHANGED container

RemoveContainer ==
  /\ calling = "remove" /\ RemoveQuiet /\ calling' = "done"
  /\ Give(IF returned = "none" THEN "ok" ELSE returned)
  /\ UNCHANGED <<local, exitCode, output, logs, status, timedOut, overdue>>

-----------------------------------------------------------------------------
ContainerWrites ==
  /\ container = "running" /\ Len(output) < MaxLogs /\ \E c \in Chunk : output' = Append(output, c)
  /\ UNCHANGED <<calling, local, container, exitCode, logs, status, timedOut, overdue, returned, stuck, refused>>

ContainerExits ==
  /\ container = "running" /\ container' = "exited"
  /\ UNCHANGED <<calling, local, exitCode, output, logs, status, timedOut, overdue, returned, stuck, refused>>

TimePasses ==
  /\ calling = "wait" /\ ~overdue /\ overdue' = TRUE
  /\ UNCHANGED <<calling, local, container, exitCode, output, logs, status, timedOut, returned, stuck, refused>>

SandboxStep == Ping \/ EnsureImage \/ Create \/ StartContainer \/ Wait \/ KillContainer \/ Logs
               \/ RemoveContainer

SandboxNext == SandboxStep \/ ContainerWrites \/ ContainerExits \/ TimePasses

SandboxSpec == SandboxInit /\ [][SandboxNext]_sandboxVars

\* The daemon answers every call and the clock goes on; no fault has to happen.
SandboxFairSpec ==
  SandboxSpec /\ WF_sandboxVars(SandboxStep /\ refused' = refused) /\ WF_sandboxVars(TimePasses)

-----------------------------------------------------------------------------
\* Whichever call fails, a run that has returned leaves no container behind,
\* unless the removal itself failed.
NothingLeft == calling = "done" /\ ~stuck => container \in {"none", "removed"}

\* A success is the exit status of the container's own process, which had ended by
\* itself; when no call to the daemon failed, every chunk of its output is in its place,
\* and each that does not split a character is as it was written.
SuccessIsWhole ==
  returned = "ok" /\ status = 0 =>
    /\ exitCode = 0 /\ ~timedOut
    /\ refused = 0 => /\ Len(logs) = Len(output)
                      /\ \A i \in DOMAIN output : output[i] = "text" <=> logs[i] = "text"

\* Its inductive strengthening: where the container is at each call, a status is that of
\* a container that has ended, and the log that was fetched after it is whole.
SandboxInv ==
  /\ SandboxTypeOK /\ NothingLeft
  /\ calling \in {"ping", "image", "create"} => container = "none"
  /\ calling = "done" <=> returned \in {"ok", "unavailable"} \/ (returned = "error" /\ calling # "remove")
  /\ status # Unknown => status = exitCode /\ ~timedOut /\ container \in {"exited", "removed"}
  /\ calling \in {"ping", "image", "create", "start", "wait"} => status = Unknown /\ ~timedOut
  /\ /\ calling \in {"remove", "done"} /\ returned \in {"none", "ok"} /\ status # Unknown /\ refused = 0
     => logs = Lossy(output)

\* bash, skills and steps of verify, and the container: when one returns, its processes
\* are gone, what it says of success and output is whole as far as it is text, and a step that
\* was cut fails even if its process ended by itself.
CommandsAreContained ==
  /\ [](ProcessTypeOK /\ GroupIsGone /\ OutputIsWhole) /\ CutShortFails
  /\ [](SandboxTypeOK /\ NothingLeft /\ SuccessIsWhole)

\* A run ends although its container never does.
SandboxReturns == <>(calling = "done")
=============================================================================
