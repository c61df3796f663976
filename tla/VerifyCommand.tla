--------------------------- MODULE VerifyCommand ---------------------------
(***************************************************************************)
(* forge verify, the gate of CI: the configuration, the steps, the evidence  *)
(* on disk and the exit code (forge-cli's main.rs over forge-verify's        *)
(* config.rs and lib.rs).  Runs with one --out follow each other; each can   *)
(* be killed, and the configuration be edited, at any time.  How a step      *)
(* comes by its code is in Processes.                                       *)
(***************************************************************************)
EXTENDS Naturals, Sequences

CONSTANTS StepName,
          DefaultSteps, \* default_steps()
          MaxDeclared,  \* bound: steps of a configuration
          MaxRuns, MaxConfigEdits

ASSUME VerifyAssumption ==
  /\ MaxDeclared \in Nat /\ MaxRuns \in Nat /\ MaxConfigEdits \in Nat
  /\ DefaultSteps \in Seq(StepName)

VARIABLES config,   \* forge.toml
          configEdits,
          stage,       \* the command's step
          runs,     \* runs so far
          declared, \* the configuration as this run read it
          executed, \* VerificationStep: names and exit codes
          evidence, \* the file of --out
          exit      \* of the last run
verifyVars == <<config, configEdits, stage, runs, declared, executed, evidence, exit>>

Declared == UNION {[1..n -> StepName] : n \in 0..MaxDeclared}
Absent   == [file |-> "absent", steps |-> <<>>]
Broken   == [file |-> "broken", steps |-> <<>>]
Config   == {Absent, Broken} \cup {[file |-> "toml", steps |-> s] : s \in Declared}

NoEvidence == [run |-> 0, steps |-> <<>>, verdict |-> "none"]
Truncated  == [run |-> 0, steps |-> <<>>, verdict |-> "truncated"]

VerifyTypeOK ==
  /\ config \in Config /\ declared \in Config /\ configEdits \in 0..MaxConfigEdits /\ runs \in 0..MaxRuns
  /\ stage \in {"idle", "load", "run", "store", "write", "print"}
  /\ exit \in {"none", "success", "fail", "error"}
  /\ executed \in Seq([name : StepName, code : {0, 1}])
  /\ evidence.verdict \in {"none", "truncated", "pass", "fail"} /\ evidence.run \in 0..runs

VerifyInit ==
  /\ config \in Config /\ configEdits = 0 /\ stage = "idle" /\ runs = 0 /\ declared = Absent
  /\ executed = <<>> /\ evidence = NoEvidence /\ exit = "none"

-----------------------------------------------------------------------------
\* Every `?`, a panic of println!, or a signal: a code that is not 0.
Ends(code) == stage' = "idle" /\ exit' = code

Start ==
  /\ stage = "idle" /\ runs < MaxRuns /\ runs' = runs + 1
  /\ \/ stage' = "load" /\ exit' = "none"
     \/ Ends("error")  \* .forge cannot be made
  /\ executed' = <<>> /\ UNCHANGED <<config, configEdits, declared, evidence>>

Steps(c) == IF c.file = "toml" THEN c.steps ELSE DefaultSteps

\* Faulty: a configuration that cannot be parsed counts as none.
LoadConfig_Lenient == stage' = "run" /\ exit' = exit

\* load_config: what exists must be valid; reading it may fail as well.
LoadConfig ==
  \/ config # Broken /\ stage' = "run" /\ exit' = exit
  \/ config # Absent /\ Ends("error")

Load ==
  /\ stage = "load" /\ declared' = config /\ LoadConfig
  /\ UNCHANGED <<config, configEdits, runs, executed, evidence>>

\* run_pipeline: a step after a failure still runs.
RunStep ==
  /\ stage = "run" /\ Len(executed) < Len(Steps(declared))
  /\ \E code \in {0, 1} :
       executed' = Append(executed, [name |-> Steps(declared)[Len(executed) + 1], code |-> code])
  /\ UNCHANGED <<config, configEdits, stage, runs, declared, evidence, exit>>

\* Faulty: the last step decides.
Verdict_OfLast(steps) ==
  IF steps # <<>> /\ steps[Len(steps)].code # 0 THEN "fail" ELSE "pass"

Verdict(steps) == IF \E i \in DOMAIN steps : steps[i].code # 0 THEN "fail" ELSE "pass"

EndPipeline ==
  /\ stage = "run" /\ Len(executed) = Len(Steps(declared)) /\ stage' = "store"
  /\ UNCHANGED <<config, configEdits, runs, declared, executed, evidence, exit>>

\* Faulty: a failing verdict leaves before the evidence is stored.
Truncate_PassOnly ==
  IF Verdict(executed) = "fail" THEN Ends("fail") /\ UNCHANGED evidence
  ELSE stage' = "write" /\ exit' = exit /\ evidence' = Truncated

\* The directory, and fs::write's open.
Truncate ==
  \/ stage' = "write" /\ exit' = exit /\ evidence' = Truncated
  \/ Ends("error") /\ UNCHANGED evidence

Store ==
  /\ stage = "store" /\ Truncate
  /\ UNCHANGED <<config, configEdits, runs, declared, executed>>

Write ==
  /\ stage = "write"
  /\ \/ /\ stage' = "print" /\ exit' = exit
        /\ evidence' = [run |-> runs, steps |-> executed, verdict |-> Verdict(executed)]
     \/ Ends("error") /\ UNCHANGED evidence
  /\ UNCHANGED <<config, configEdits, runs, declared, executed>>

Report ==
  /\ stage = "print"
  /\ \/ Ends(IF evidence.verdict = "fail" THEN "fail" ELSE "success")
     \/ Ends("error")
  /\ UNCHANGED <<config, configEdits, runs, declared, executed, evidence>>

Kill ==
  /\ stage # "idle" /\ Ends("error")
  /\ UNCHANGED <<config, configEdits, runs, declared, executed, evidence>>

EditConfig ==
  /\ configEdits < MaxConfigEdits /\ configEdits' = configEdits + 1 /\ config' \in Config
  /\ UNCHANGED <<stage, runs, declared, executed, evidence, exit>>

VerifyNext == Start \/ Load \/ RunStep \/ EndPipeline \/ Store \/ Write \/ Report \/ Kill \/ EditConfig

VerifySpec == VerifyInit /\ [][VerifyNext]_verifyVars

-----------------------------------------------------------------------------
\* The steps that a configuration asks for, all of them, in its order.
Ran(steps, c) ==
  /\ c # Broken
  /\ [i \in DOMAIN steps |-> steps[i].name] = IF c = Absent THEN DefaultSteps ELSE c.steps

\* A gate that opens has a reason on disk: its own evidence, whole, of every step the
\* configuration asked for when it was read, and none of them failed.
GateIsTrue ==
  exit = "success" =>
    /\ evidence = [run |-> runs, steps |-> executed, verdict |-> "pass"]
    /\ Ran(executed, declared) /\ \A i \in DOMAIN executed : executed[i].code = 0

\* A verdict that closes the gate, unlike an error, leaves its evidence: the file of an
\* earlier run that passed cannot be taken for that of one that failed.
FailureLeavesProof ==
  exit = "fail" =>
    /\ evidence.run = runs /\ evidence.verdict = "fail" /\ Ran(evidence.steps, declared)
    /\ \E i \in DOMAIN evidence.steps : evidence.steps[i].code # 0

\* forge verify as the gate of CI, through kills, a cut file and edits of forge.toml.
GateHasItsEvidence == VerifyTypeOK /\ GateIsTrue /\ FailureLeavesProof

\* Its inductive strengthening: what has been executed is a beginning of what this run's
\* configuration asks for, all of it once the pipeline has ended, and what is printed is
\* what was written.
PipelineInv ==
  /\ stage # "idle" => exit = "none"
  /\ stage = "load" => executed = <<>>
  /\ stage \in {"run", "store", "write", "print"} =>
       /\ declared # Broken /\ Len(executed) <= Len(Steps(declared))
       /\ \A i \in 1..Len(executed) : executed[i].name = Steps(declared)[i]
  /\ stage \in {"store", "write", "print"} => Len(executed) = Len(Steps(declared))
  /\ stage = "print" =>
       evidence = [run |-> runs, steps |-> executed, verdict |-> Verdict(executed)]

GateInv == GateHasItsEvidence /\ PipelineInv
=============================================================================
