----------------------------- MODULE Processes -----------------------------
(***************************************************************************)
(* A subprocess and the code that waits for it: the bash tool               *)
(* (forge-tools' bash.rs), a skill's entrypoint (skill.rs) and the steps of  *)
(* a verification pipeline (forge-verify's exec.rs and lib.rs).             *)
(*                                                                         *)
(* The command is a leader that may leave a helper behind; both write to    *)
(* stdout and stderr, two pipes of bounded capacity, in units that are text *)
(* or bytes that are no UTF-8.  bash and skill look only at the leader's    *)
(* exit and read one pipe after the other when it has ended; a step reads   *)
(* both in a thread from the start.                                         *)
(***************************************************************************)
EXTENDS Naturals, Sequences

CONSTANTS Capacity,  \* what the pipe holds, in units of output
          MaxOutput, \* what the leader writes at most
          MaxSteps   \* steps of a pipeline

ASSUME ProcessesAssumption == Capacity \in Nat \ {0} /\ MaxOutput \in Nat /\ MaxSteps \in Nat \ {0}

VARIABLES runner,   \* "bash", "skill" or "step"
          limited,  \* a step's configuration may have no timeout
          doing,    \* the runner's step
          leader, helper,
          detached, \* the helper has left the leader's process group
          code,     \* exit code the leader ends with; -1 is a signal
          toWrite,
          written, pipe, got, \* of each stream: units written, in the pipe and read
          legible,  \* what was written to it is UTF-8
          answer,   \* units of it in what the runner returns
          reading,  \* the thread of wait_with_output
          expired,  \* the timeout has passed
          outcome,
          codes     \* exit codes of the pipeline's finished steps
processVars == <<runner, limited, doing, leader, helper, detached, code, toWrite, written, pipe, got,
          legible, answer, reading, expired, outcome, codes>>

Killed  == 255  \* status.code() of a signal is None: -1 in the evidence
Timeout == 124
Stream  == {"stdout", "stderr"}

ProcessTypeOK ==
  /\ runner \in {"bash", "skill", "step"} /\ limited \in BOOLEAN
  /\ doing \in {"spawn", "poll", "collect", "errors", "join", "done"}
  /\ leader \in {"none", "running", "exited"} /\ helper \in {"none", "running", "gone"}
  /\ detached \in BOOLEAN /\ code \in {0, 1, Killed} /\ toWrite \in 0..MaxOutput
  /\ pipe \in [Stream -> 0..Capacity] /\ written \in [Stream -> 0..(MaxOutput + 1)]
  /\ got \in [Stream -> 0..(MaxOutput + 1)] /\ answer \in [Stream -> 0..(MaxOutput + 1)]
  /\ legible \in [Stream -> BOOLEAN]
  /\ reading \in BOOLEAN /\ expired \in BOOLEAN
  /\ outcome \in {"none", "ok", "timeout", "spawn_error"}
  /\ codes \in Seq({0, 1, Timeout, Killed}) /\ Len(codes) <= MaxSteps

NoUnits == [s \in Stream |-> 0]

ProcessInit ==
  /\ runner \in {"bash", "skill", "step"} /\ limited \in BOOLEAN /\ (runner # "step" => limited)
  /\ doing = "spawn" /\ leader = "none" /\ helper = "none" /\ detached = FALSE
  /\ code \in {0, 1} /\ toWrite \in 0..MaxOutput /\ written = NoUnits /\ pipe = NoUnits
  /\ got = NoUnits /\ answer = NoUnits /\ legible = [s \in Stream |-> TRUE]
  /\ reading = FALSE /\ expired = FALSE /\ outcome = "none" /\ codes = <<>>

-----------------------------------------------------------------------------
command == <<leader, helper, detached, code, toWrite, written, pipe, legible>>
streams == <<written, pipe, legible, got, answer>>
setting == <<runner, limited>>

Spawn ==
  /\ doing = "spawn"
  /\ \/ doing' = "poll" /\ leader' = "running" /\ reading' = (runner = "step") /\ UNCHANGED outcome
     \/ doing' = "done" /\ outcome' = "spawn_error" /\ UNCHANGED <<leader, reading>>
  /\ UNCHANGED <<setting, helper, detached, code, toWrite, streams, expired, codes>>

\* A write that finds the pipe full waits; what is written need not be UTF-8.
WriteUnit(s) ==
  /\ pipe[s] < Capacity
  /\ written' = [written EXCEPT ![s] = @ + 1] /\ pipe' = [pipe EXCEPT ![s] = @ + 1]
  /\ legible' \in {legible, [legible EXCEPT ![s] = FALSE]}

LeaderWrites ==
  /\ leader = "running" /\ toWrite > 0 /\ toWrite' = toWrite - 1 /\ \E s \in Stream : WriteUnit(s)
  /\ UNCHANGED <<setting, doing, leader, helper, detached, code, got, answer, reading, expired, outcome, codes>>

LeaderForks ==
  /\ leader = "running" /\ helper = "none"
  /\ helper' = "running" /\ detached' \in BOOLEAN
  /\ UNCHANGED <<setting, doing, leader, code, toWrite, streams, reading, expired, outcome, codes>>

LeaderExits ==
  /\ leader = "running" /\ toWrite = 0 /\ leader' = "exited"
  /\ UNCHANGED <<setting, doing, helper, detached, code, toWrite, streams, reading, expired, outcome, codes>>

\* The helper writes a unit at most, and ends.
HelperWrites ==
  /\ helper = "running" /\ written["stdout"] + written["stderr"] + toWrite <= MaxOutput
  /\ helper' = "gone" /\ \E s \in Stream : WriteUnit(s)
  /\ UNCHANGED <<setting, doing, leader, detached, code, toWrite, got, answer, reading, expired, outcome, codes>>

HelperEnds ==
  /\ helper = "running" /\ helper' = "gone"
  /\ UNCHANGED <<setting, doing, leader, detached, code, toWrite, streams, reading, expired, outcome, codes>>

Expire ==
  /\ doing = "poll" /\ limited /\ ~expired /\ expired' = TRUE
  /\ UNCHANGED <<setting, doing, command, got, answer, reading, outcome, codes>>

-----------------------------------------------------------------------------
KillLeader ==
  /\ leader' = "exited" /\ code' = IF leader = "running" THEN Killed ELSE code
  /\ toWrite' = 0

\* Faulty: only the direct child is signalled.
KillGroup_LeaderOnly == KillLeader /\ UNCHANGED helper

\* kill(-pid): the leader and what has stayed in its group.
KillGroup ==
  /\ KillLeader
  /\ helper' = IF helper = "running" /\ ~detached THEN "gone" ELSE helper

\* bash and skill: what try_wait sees is asked before the clock.  child.kill of
\* bash reaches the shell only.
PollChild ==
  /\ doing = "poll" /\ runner # "step"
  /\ IF leader = "exited" THEN doing' = "collect" /\ UNCHANGED <<leader, code, toWrite, helper, outcome>>
     ELSE /\ expired /\ doing' = "done" /\ outcome' = "timeout"
          /\ IF runner = "bash" THEN KillLeader /\ UNCHANGED helper ELSE KillGroup
  /\ UNCHANGED <<setting, detached, streams, reading, expired, codes>>

AtEof(s) == leader # "running" /\ helper # "running" /\ pipe[s] = 0

\* Faulty: the end of what is there is taken for the end of the output.
ReadEnds_WhenEmpty(s) == pipe[s] = 0 /\ leader # "running"

\* read_to_string returns at the end of the file: when nobody holds the pipe.
ReadEnds(s) == AtEof(s)

\* A unit from a pipe, by read_to_string, of stdout first, or by the thread.
ReadPipe ==
  \E s \in Stream :
    /\ reading \/ doing = (IF s = "stdout" THEN "collect" ELSE "errors")
    /\ pipe[s] > 0 /\ pipe' = [pipe EXCEPT ![s] = @ - 1] /\ got' = [got EXCEPT ![s] = @ + 1]
    /\ UNCHANGED <<setting, doing, leader, helper, detached, code, toWrite, written, legible, answer,
                   reading, expired, outcome, codes>>

\* read_to_string leaves its string empty when the bytes are no UTF-8, and its error is
\* dropped.
ReadToString(s) == answer' = [answer EXCEPT ![s] = IF legible[s] THEN got[s] ELSE 0]

Collected ==
  /\ \/ /\ doing = "collect" /\ ReadEnds("stdout") /\ ReadToString("stdout")
        /\ doing' = "errors" /\ UNCHANGED outcome
     \/ /\ doing = "errors" /\ ReadEnds("stderr") /\ ReadToString("stderr")
        /\ doing' = "done" /\ outcome' = "ok"
  /\ UNCHANGED <<setting, command, got, reading, expired, codes>>

\* wait_with_output has the bytes of both and the status; the text that is made of them
\* keeps its length, with a mark where they are no UTF-8.
ThreadEnds ==
  /\ reading /\ (\A s \in Stream : ReadEnds(s)) /\ leader = "exited" /\ reading' = FALSE /\ answer' = got
  /\ UNCHANGED <<setting, doing, command, got, expired, outcome, codes>>

\* run_with_timeout looks at the thread, then at the deadline.  The leader can
\* have ended by itself when the group is killed.
AwaitStep ==
  /\ doing = "poll" /\ runner = "step"
  /\ \/ ~reading /\ doing' = "done" /\ outcome' = "ok" /\ UNCHANGED <<leader, code, toWrite, helper>>
     \/ reading /\ expired /\ doing' = "join" /\ KillGroup /\ UNCHANGED outcome
  /\ UNCHANGED <<setting, detached, streams, reading, expired, codes>>

JoinThread ==
  /\ doing = "join" /\ ~reading /\ doing' = "done" /\ outcome' = "timeout"
  /\ UNCHANGED <<setting, command, got, answer, reading, expired, codes>>

\* Faulty: a step that was cut short has the status of its process.
StepCode_OfProcess == IF outcome = "spawn_error" THEN Killed ELSE code

\* The exit code in the evidence of run_step.
StepCode == CASE outcome = "spawn_error" -> Killed
              [] outcome = "timeout"     -> Timeout
              [] outcome = "ok"          -> code

\* run_pipeline goes on after a failure.
NextStep ==
  /\ runner = "step" /\ doing = "done" /\ Len(codes) < MaxSteps
  /\ codes' = Append(codes, StepCode)
  /\ doing' = "spawn" /\ leader' = "none" /\ helper' = "none" /\ detached' = FALSE
  /\ code' \in {0, 1} /\ toWrite' \in 0..MaxOutput
  /\ written' = NoUnits /\ pipe' = NoUnits /\ got' = NoUnits /\ answer' = NoUnits
  /\ legible' = [s \in Stream |-> TRUE]
  /\ reading' = FALSE /\ expired' = FALSE /\ outcome' = "none" /\ UNCHANGED setting

Runner == Spawn \/ PollChild \/ ReadPipe \/ Collected \/ ThreadEnds \/ AwaitStep \/ JoinThread
          \/ NextStep
Command == LeaderWrites \/ LeaderForks \/ LeaderExits \/ HelperWrites \/ HelperEnds

ProcessNext == Runner \/ Command \/ Expire

ProcessSpec == ProcessInit /\ [][ProcessNext]_processVars

\* The waiting code and the clock go on; nothing makes a command write or end.
ProcessFairSpec ==
  /\ ProcessSpec /\ WF_processVars(Spawn) /\ WF_processVars(PollChild) /\ WF_processVars(ReadPipe) /\ WF_processVars(Collected)
  /\ WF_processVars(ThreadEnds) /\ WF_processVars(AwaitStep) /\ WF_processVars(JoinThread) /\ WF_processVars(Expire)

-----------------------------------------------------------------------------
PipelineVerdict == IF \E i \in DOMAIN codes : codes[i] # 0 THEN "Fail" ELSE "Pass"

\* After the timeout of a skill or a step nothing it started in its group runs
\* on, also what it left in the background.
GroupIsGone ==
  outcome = "timeout" /\ runner # "bash" => leader # "running" /\ (helper = "running" => detached)

\* What the runner can give of a stream: bash and a skill nothing of one that is no UTF-8.
Shown(s) == IF runner # "step" /\ ~legible[s] THEN 0 ELSE written[s]

\* A call that did not time out returns of each stream all that was written, by the
\* command and by what it left behind, although nobody reads before the command ends;
\* of a stream with a byte that is no text bash and a skill return nothing at all.
OutputIsWhole == outcome = "ok" => \A s \in Stream : answer[s] = Shown(s)

\* The next state of a finished pipeline step: one that was cut short, even
\* after its process had ended well, makes the verdict Fail.
CutShort == doing = "done" /\ outcome # "ok" /\ codes' # codes => PipelineVerdict' = "Fail"
CutShortFails == [][CutShort]_processVars

\* A stream has ended and was taken whole.
Taken(s) == AtEof(s) /\ answer[s] = Shown(s)
IsWhole  == \A s \in Stream : Taken(s)

\* Their inductive strengthening: what was written is in the pipe or has been read, a
\* reader that has ended has left nobody who could write, and so has the kill of a group
\* but for those who left it.
ProcessInv ==
  /\ ProcessTypeOK /\ GroupIsGone
  /\ \A s \in Stream : got[s] + pipe[s] = written[s]
  /\ written["stdout"] + written["stderr"] + toWrite <= MaxOutput + 1
  /\ doing = "done" <=> outcome # "none"
  /\ doing = "spawn" => leader = "none" /\ helper = "none" /\ ~reading
  /\ reading => runner = "step" /\ doing \in {"poll", "join"}
  /\ doing \in {"collect", "errors"} => runner # "step"
  /\ doing = "errors" => Taken("stdout")
  /\ runner = "step" /\ doing \in {"poll", "join"} /\ ~reading => IsWhole
  /\ doing = "join" => runner = "step" /\ leader # "running" /\ (helper = "running" => detached)
  /\ outcome = "ok" => IsWhole

\* A step with a timeout ends, whatever its command does to the pipe and to
\* its children, unless one of them leaves the group.
StepsEnd == (runner = "step" /\ limited /\ doing # "done") ~> (doing = "done" \/ detached)
=============================================================================
