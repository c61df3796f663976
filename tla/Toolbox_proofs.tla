---------------------------- MODULE Toolbox_proofs ----------------------------
(***************************************************************************)
(* Proofs about the tools that have a module's safety to themselves: the     *)
(* gate of CI (VerifyCommand), the registry of skills (Skills), the steps    *)
(* and containers of commands (Processes, Sandbox), the session with the    *)
(* language server (LspClient) and the file tools (WorkspaceFiles).          *)
(***************************************************************************)
EXTENDS Skills, VerifyCommand, LspClient, Sandbox, WorkspaceFiles, SequenceTheorems,
        FiniteSetTheorems, WellFoundedInduction, TLAPS

-----------------------------------------------------------------------------
(* forge verify *)

\* What a configuration asks for is a sequence of steps.
LEMMA StepsAreNames ==
  ASSUME NEW c \in Config PROVE Steps(c) \in Seq(StepName)
<1>1. CASE c = Absent BY <1>1, VerifyAssumption DEF Steps, Absent
<1>2. CASE c = Broken BY <1>2, VerifyAssumption DEF Steps, Broken
<1>3. ASSUME NEW s \in Declared, c = [file |-> "toml", steps |-> s] PROVE Steps(c) \in Seq(StepName)
  <2>1. PICK n \in 0..MaxDeclared : s \in [1..n -> StepName] BY <1>3 DEF Declared
  <2>2. n \in Nat BY VerifyAssumption
  <2>3. s \in Seq(StepName) BY <2>1, <2>2
  <2>. QED BY <2>3, <1>3 DEF Steps
<1>. QED BY <1>1, <1>2, <1>3 DEF Config

\* A run that has executed as many steps as its configuration asks for, each under its
\* name, has run them all.
LEMMA AllHaveRun ==
  ASSUME NEW c \in Config, c # Broken,
         NEW s \in Seq([name : StepName, code : {0, 1}]), Len(s) = Len(Steps(c)),
         \A i \in 1..Len(s) : s[i].name = Steps(c)[i]
  PROVE  Ran(s, c)
<1>. DEFINE names == [i \in DOMAIN s |-> s[i].name]
<1>1. Steps(c) = IF c = Absent THEN DefaultSteps ELSE c.steps BY DEF Steps, Config, Absent, Broken
<1>2. Steps(c) \in Seq(StepName) BY StepsAreNames
<1>3. DOMAIN s = 1..Len(s) /\ Len(s) \in Nat OBVIOUS
<1>4. names \in Seq(StepName) /\ Len(names) = Len(s)
  <2>. DEFINE T == [name : StepName, code : {0, 1}]
  <2>a. s \in Seq(T) /\ Len(s) \in Nat
    OBVIOUS
  <2>1. \A i \in 1..Len(s) : s[i] \in T
    <3>. HIDE DEF T
    <3>. QED
      BY <2>a
  <2>2. \A i \in 1..Len(s) : s[i].name \in StepName
    BY <2>1
  <2>. QED
    BY <1>3, <2>2
<1>5. \A i \in 1..Len(s) : names[i] = Steps(c)[i]
  BY <1>3
<1>6. names = Steps(c)
  <2>. HIDE DEF names
  <2>. QED BY <1>2, <1>4, <1>5, SeqEqual
<1>. QED BY <1>1, <1>6 DEF Ran

LEMMA GateStarts == VerifyInit => GateInv
<1>. SUFFICES ASSUME VerifyInit PROVE GateInv OBVIOUS
<1>1. VerifyTypeOK
  BY VerifyAssumption DEF VerifyInit, VerifyTypeOK, Config, NoEvidence
<1>. QED BY <1>1 DEF VerifyInit, GateInv, GateHasItsEvidence, GateIsTrue, FailureLeavesProof, PipelineInv

\* One step for each action; what it leaves alone is not shown again.
LEMMA GateNext == GateInv /\ [VerifyNext]_verifyVars => GateInv'
<1>. SUFFICES ASSUME GateInv, [VerifyNext]_verifyVars PROVE GateInv'
  OBVIOUS
<1>. USE DEF GateInv, GateHasItsEvidence
<1>a. /\ MaxRuns \in Nat /\ MaxConfigEdits \in Nat /\ runs \in Nat
      /\ \A c \in Config : Steps(c) \in Seq(StepName)
  BY VerifyAssumption, StepsAreNames DEF VerifyTypeOK
<1>t. VerifyTypeOK'
  <2>1. CASE Start
    BY <2>1, <1>a DEF Start, Ends, VerifyTypeOK
  <2>2. CASE Load
    BY <2>2 DEF Load, LoadConfig, Ends, VerifyTypeOK
  <2>3. CASE RunStep
    <3>1. PICK ending \in {0, 1} :
            executed' = Append(executed, [name |-> Steps(declared)[Len(executed) + 1], code |-> ending])
      BY <2>3 DEF RunStep
    <3>2. Len(executed) + 1 \in 1..Len(Steps(declared))
      BY <2>3, <1>a DEF RunStep, VerifyTypeOK
    <3>3. Steps(declared)[Len(executed) + 1] \in StepName
      BY <3>2, <1>a DEF VerifyTypeOK
    <3>4. executed' \in Seq([name : StepName, code : {0, 1}])
      BY <3>1, <3>3 DEF VerifyTypeOK
    <3>. QED
      BY <2>3, <3>4 DEF RunStep, VerifyTypeOK
  <2>4. CASE EndPipeline
    BY <2>4 DEF EndPipeline, VerifyTypeOK
  <2>5. CASE Store
    BY <2>5, <1>a DEF Store, Truncate, Truncated, Ends, VerifyTypeOK
  <2>6. CASE Write
    BY <2>6, <1>a DEF Write, Verdict, Ends, VerifyTypeOK
  <2>7. CASE Report
    BY <2>7 DEF Report, Ends, VerifyTypeOK
  <2>8. CASE Kill
    BY <2>8 DEF Kill, Ends, VerifyTypeOK
  <2>9. CASE EditConfig
    BY <2>9, <1>a DEF EditConfig, VerifyTypeOK
  <2>10. CASE UNCHANGED verifyVars
    BY <2>10 DEF verifyVars, VerifyTypeOK
  <2>. QED
    BY <2>1, <2>2, <2>3, <2>4, <2>5, <2>6, <2>7, <2>8, <2>9, <2>10 DEF VerifyNext
<1>p. PipelineInv'
  <2>1. CASE Start
    BY <2>1 DEF Start, Ends, PipelineInv
  <2>2. CASE Load
    <3>1. Len(<<>>) = 0
      OBVIOUS
    <3>2. Steps(config) \in Seq(StepName)
      BY <1>a DEF VerifyTypeOK
    <3>3. 0 <= Len(Steps(config))
      BY <3>2
    <3>. QED
      BY <2>2, <3>1, <3>3 DEF Load, LoadConfig, Ends, PipelineInv, Steps
  <2>3. CASE RunStep
    <3>. DEFINE n == Len(executed)
                m == Len(Steps(declared))
    <3>1. PICK ending \in {0, 1} :
            executed' = Append(executed, [name |-> Steps(declared)[n + 1], code |-> ending])
      BY <2>3 DEF RunStep
    <3>2. n \in Nat /\ m \in Nat /\ n < m /\ Len(executed') = n + 1
      BY <2>3, <3>1, <1>a DEF RunStep, VerifyTypeOK
    <3>3. \A i \in 1..n : executed'[i] = executed[i]
      BY <3>1 DEF VerifyTypeOK
    <3>4. executed'[n + 1].name = Steps(declared)[n + 1]
      BY <3>1 DEF VerifyTypeOK
    <3>5. \A i \in 1..(n + 1) : executed'[i].name = Steps(declared)[i]
      <4>1. \A i \in 1..n : executed[i].name = Steps(declared)[i]
        BY <2>3 DEF RunStep, PipelineInv
      <4>. HIDE DEF n
      <4>2. \A i \in 1..(n + 1) : i \in 1..n \/ i = n + 1
        BY <3>2
      <4>. QED
        BY <4>1, <4>2, <3>3, <3>4
    <3>6. stage' = "run" /\ exit' = exit /\ declared' = declared /\ Steps(declared)' = Steps(declared)
      BY <2>3 DEF RunStep, Steps
    <3>7. Len(executed') <= Len(Steps(declared'))
      BY <3>2, <3>6
    <3>8. exit = "none" /\ declared # Broken
      BY <2>3 DEF RunStep, PipelineInv
    <3>. QED
      BY <3>2, <3>5, <3>6, <3>7, <3>8 DEF PipelineInv
  <2>4. CASE EndPipeline
    BY <2>4 DEF EndPipeline, PipelineInv, Steps
  <2>5. CASE Store
    BY <2>5 DEF Store, Truncate, Ends, PipelineInv, Steps
  <2>6. CASE Write
    BY <2>6 DEF Write, Ends, PipelineInv, Steps, Verdict
  <2>7. CASE Report
    BY <2>7 DEF Report, Ends, PipelineInv
  <2>8. CASE Kill
    BY <2>8 DEF Kill, Ends, PipelineInv
  <2>9. CASE EditConfig
    BY <2>9 DEF EditConfig, PipelineInv, Steps, Verdict
  <2>10. CASE UNCHANGED verifyVars
    BY <2>10 DEF verifyVars, PipelineInv, Steps, Verdict
  <2>. QED
    BY <2>1, <2>2, <2>3, <2>4, <2>5, <2>6, <2>7, <2>8, <2>9, <2>10 DEF VerifyNext
<1>g. (GateIsTrue /\ FailureLeavesProof)'
  <2>1. CASE Start
    BY <2>1 DEF Start, Ends, GateIsTrue, FailureLeavesProof
  <2>2. CASE Load
    BY <2>2 DEF Load, LoadConfig, Ends, GateIsTrue, FailureLeavesProof, PipelineInv
  <2>3. CASE RunStep \/ EndPipeline
    BY <2>3 DEF RunStep, EndPipeline, GateIsTrue, FailureLeavesProof, PipelineInv
  <2>4. CASE Store
    BY <2>4 DEF Store, Truncate, Ends, GateIsTrue, FailureLeavesProof, PipelineInv
  <2>5. CASE Write
    BY <2>5 DEF Write, Ends, GateIsTrue, FailureLeavesProof, PipelineInv
  <2>6. CASE Report
    <3>1. evidence = [run |-> runs, steps |-> executed, verdict |-> Verdict(executed)]
      BY <2>6 DEF Report, PipelineInv
    <3>2. Ran(executed, declared)
      BY <2>6, AllHaveRun DEF Report, PipelineInv, VerifyTypeOK
    <3>4. UNCHANGED <<runs, declared, executed, evidence>> /\ exit' \in {"error", IF evidence.verdict = "fail" THEN "fail" ELSE "success"}
      BY <2>6 DEF Report, Ends
    <3>5. Ran(executed, declared)' = Ran(executed, declared) /\ Ran(evidence.steps, declared)' = Ran(evidence.steps, declared)
      BY <3>4 DEF Ran
    <3>6. CASE \E i \in DOMAIN executed : executed[i].code # 0
      <4>1. evidence.verdict = "fail" /\ evidence.run = runs /\ evidence.steps = executed
        BY <3>1, <3>6 DEF Verdict
      <4>. QED
        BY <4>1, <3>2, <3>4, <3>5, <3>6 DEF GateIsTrue, FailureLeavesProof
    <3>7. CASE ~(\E i \in DOMAIN executed : executed[i].code # 0)
      <4>1. evidence = [run |-> runs, steps |-> executed, verdict |-> "pass"]
        BY <3>1, <3>7 DEF Verdict
      <4>. QED
        BY <4>1, <3>2, <3>4, <3>5, <3>7 DEF GateIsTrue, FailureLeavesProof
    <3>. QED
      BY <3>6, <3>7
  <2>7. CASE Kill
    BY <2>7 DEF Kill, Ends, GateIsTrue, FailureLeavesProof
  <2>8. CASE EditConfig
    BY <2>8 DEF EditConfig, GateIsTrue, FailureLeavesProof, Ran
  <2>9. CASE UNCHANGED verifyVars
    BY <2>9 DEF verifyVars, GateIsTrue, FailureLeavesProof, Ran
  <2>. QED
    BY <2>1, <2>2, <2>3, <2>4, <2>5, <2>6, <2>7, <2>8, <2>9 DEF VerifyNext
<1>. QED
  BY <1>t, <1>p, <1>g

\* Exit code 0 means a passing run of every configured step, whose own evidence is in
\* place, and a verdict that closes the gate leaves its evidence; through kills, cut
\* files and edits of forge.toml.
THEOREM GateAlwaysHasItsEvidence == VerifySpec => []GateHasItsEvidence
<1>1. GateInv => GateHasItsEvidence
  BY DEF GateInv
<1>. QED
  BY <1>1, GateStarts, GateNext, PTL DEF VerifySpec

-----------------------------------------------------------------------------
(* The registry of skills *)

\* SetToSeq puts the elements of a finite set in a sequence, each of them once.
LEMMA SetToSeqOnce ==
  ASSUME NEW S, IsFiniteSet(S)
  PROVE  SetToSeq(S) \in Seq(S) /\ IsInjective(SetToSeq(S))
<1>. DEFINE n == Cardinality(S)
<1>1. n \in Nat /\ ExistsBijection(1..n, S)
  BY FS_CardinalityType
<1>2. \E f \in [1..n -> S] : IsInjective(f)
  BY <1>1 DEF ExistsBijection, Bijection, Injection
<1>3. SetToSeq(S) \in [1..n -> S] /\ IsInjective(SetToSeq(S))
  BY <1>2 DEF SetToSeq
<1>. HIDE DEF n
<1>. QED
  BY <1>1, <1>3

LEMMA PlainToolsAreFinite == IsFiniteSet({Plain(n) : n \in NativeName})
<1>. DEFINE S == {Plain(n) : n \in NativeName}
            f == [n \in NativeName |-> Plain(n)]
<1>1. f \in Surjection(NativeName, S)
  BY DEF Surjection
<1>. QED
  BY <1>1, SkillsAssumption, FS_Surjection

\* A tool that is appended is the last of the registry; the others stay where they were.
LEMMA AppendedTool ==
  ASSUME NEW s \in Seq(Tool), NEW t \in Tool
  PROVE  /\ Append(s, t) \in Seq(Tool) /\ DOMAIN Append(s, t) = 1..(Len(s) + 1)
         /\ Len(s) \in Nat /\ DOMAIN s = 1..Len(s)
         /\ Append(s, t)[Len(s) + 1] = t
         /\ \A i \in 1..Len(s) : s[i] \in Tool /\ Append(s, t)[i] = s[i]
         /\ \A i \in DOMAIN Append(s, t) : i \in DOMAIN s \/ i = Len(s) + 1
<1>. HIDE DEF Tool
<1>1. Append(s, t) \in Seq(Tool) /\ Len(Append(s, t)) = Len(s) + 1 /\ Len(s) \in Nat
  OBVIOUS
<1>2. DOMAIN Append(s, t) = 1..(Len(s) + 1) /\ DOMAIN s = 1..Len(s)
  BY <1>1
<1>3. Append(s, t)[Len(s) + 1] = t /\ \A i \in 1..Len(s) : s[i] \in Tool /\ Append(s, t)[i] = s[i]
  OBVIOUS
<1>. DEFINE k == Len(s)
<1>4. \A i \in 1..(k + 1) : i \in 1..k \/ i = k + 1
  <2>1. k \in Nat
    OBVIOUS
  <2>. HIDE DEF k
  <2>. QED
    BY <2>1
<1>. QED
  BY <1>1, <1>2, <1>3, <1>4

\* A name that no tool has yet keeps the names apart.
LEMMA NewNameIsUnique ==
  ASSUME tools \in Seq(Tool), NamesAreUnique, NEW t \in Tool, t.name \notin Names,
         tools' = Append(tools, t)
  PROVE  NamesAreUnique'
<1>. DEFINE n == Len(tools)
<1>1. /\ n \in Nat /\ DOMAIN tools = 1..n /\ tools'[n + 1] = t
      /\ \A i \in 1..n : tools'[i] = tools[i]
      /\ \A i \in DOMAIN tools' : i \in 1..n \/ i = n + 1
  BY AppendedTool
<1>2. \A i \in 1..n : tools[i].name # t.name
  BY <1>1 DEF Names
<1>. HIDE DEF n
<1>. QED
  BY <1>1, <1>2 DEF NamesAreUnique

LEMMA SkillsStart == Init => SkillsInv
<1>. SUFFICES ASSUME Init PROVE SkillsInv
  OBVIOUS
<1>. DEFINE S == {Plain(n) : n \in NativeName}
<1>1. tools \in Seq(S) /\ IsInjective(tools)
  BY PlainToolsAreFinite, SetToSeqOnce DEF Init
<1>2. \A i \in DOMAIN tools : tools[i] \in S
  <2>. HIDE DEF S
  <2>. QED
    BY <1>1
<1>3. S \subseteq Tool
  <2>1. ASSUME NEW n \in NativeName PROVE Plain(n) \in Tool
    <3>1. n \in Name
      BY DEF Name
    <3>. QED
      BY <3>1 DEF Plain, Tool
  <2>. QED
    BY <2>1
<1>4. tools \in Seq(Tool)
  <2>. HIDE DEF S
  <2>. QED
    BY <1>1, <1>3
<1>5. TypeOK
  BY <1>4, SkillsAssumption DEF Init, TypeOK, Dir
<1>6. \A i \in DOMAIN tools : tools[i].dir = None /\ tools[i] = Plain(tools[i].name)
  BY <1>2 DEF Plain
<1>7. NamesAreUnique
  BY <1>1, <1>6, Zenon DEF NamesAreUnique, IsInjective
<1>8. None \notin Dir
  BY SkillsAssumption
<1>9. OnlyVettedAreLoaded /\ RecordAgrees /\ LoaderInv
  BY <1>6, <1>8 DEF Init, OnlyVettedAreLoaded, RecordAgrees, LoaderInv, Dir
<1>. QED
  BY <1>5, <1>7, <1>9 DEF SkillsInv, SkillsAreVetted

LEMMA SkillsNext == SkillsInv /\ [Next]_vars => SkillsInv'
<1>. SUFFICES ASSUME SkillsInv, [Next]_vars PROVE SkillsInv'
  OBVIOUS
<1>a. TypeOK /\ NamesAreUnique /\ OnlyVettedAreLoaded /\ RecordAgrees /\ LoaderInv
  BY DEF SkillsInv, SkillsAreVetted
<1>b. /\ None \notin Dir /\ BuiltinDir \cap ThirdPartyDir = {} /\ Dir = BuiltinDir \cup ThirdPartyDir
      /\ MaxEdits \in Nat /\ Audited = Dir /\ None \notin Content
  BY SkillsAssumption DEF Dir, Audited
<1>c. \A c \in Content : c.name \in Name
  BY SkillsAssumption DEF ContentType
<1>. DEFINE Goal == SkillsInv'
\* The vetter passes a directory or not; none that has been loaded is vetted again.
<1>1. ASSUME NEW d \in Dir, VetSkill(d) PROVE Goal
  <2>1. TypeOK'
    BY <1>1, <1>a, <1>b DEF VetSkill, TypeOK
  <2>2. \A i \in DOMAIN tools : tools[i].dir # d
    BY <1>1, <1>a DEF VetSkill, LoaderInv
  <2>3. (NamesAreUnique /\ OnlyVettedAreLoaded /\ RecordAgrees)'
    BY <1>1, <1>a, <2>2 DEF VetSkill, NamesAreUnique, OnlyVettedAreLoaded, RecordAgrees
  <2>4. LoaderInv'
    BY <1>1, <1>a, <1>b, <2>2 DEF VetSkill, LoaderInv, TypeOK, Status
  <2>. QED
    BY <2>1, <2>3, <2>4 DEF SkillsInv, SkillsAreVetted
\* A skill is loaded under the name its manifest has now.
<1>2. ASSUME LoadSkill PROVE Goal
  <2>. DEFINE c == disk[dir]
              t == [name |-> c.name, source |-> at, dir |-> dir, sandboxed |-> at = "third-party"]
  <2>1. dir \in Dir /\ c \in Content /\ c.name \in Name /\ at \in {"builtin", "third-party"}
    BY <1>2, <1>a, <1>c DEF LoadSkill, TypeOK, LoaderInv
  <2>2. t \in Tool
    BY <2>1 DEF Tool
  <2>3. tools' = tools \/ (tools' = Append(tools, t) /\ t.name \notin Names)
    BY <1>2 DEF LoadSkill, Collides
  <2>4. UNCHANGED <<at, todo, disk, edits, passed, record, unrecorded>> /\ dir' = None /\ read' = None
    BY <1>2 DEF LoadSkill
  <2>5. tools \in Seq(Tool)
    BY <1>a DEF TypeOK
  <2>. HIDE DEF t
  <2>6. /\ NamesAreUnique' /\ tools' \in Seq(Tool)
        /\ \A i \in DOMAIN tools' : tools'[i] = t \/ (i \in DOMAIN tools /\ tools'[i] = tools[i])
    BY <1>a, <2>2, <2>3, <2>5, NewNameIsUnique, AppendedTool DEF NamesAreUnique
  <2>7. t.dir = dir /\ dir # None /\ dir \in passed /\ dir \notin todo
    BY <1>2, <1>a DEF LoadSkill, LoaderInv, t
  <2>8. TypeOK'
    BY <1>a, <2>4, <2>6 DEF TypeOK
  <2>9. OnlyVettedAreLoaded'
    BY <1>a, <2>4, <2>6, <2>7 DEF OnlyVettedAreLoaded, LoaderInv, Vets
  <2>10. RecordAgrees'
    BY <2>1, <2>4 DEF RecordAgrees
  <2>11. LoaderInv'
    BY <1>a, <1>b, <2>1, <2>4, <2>6, <2>7 DEF LoaderInv, Status
  <2>. QED
    BY <2>6, <2>8, <2>9, <2>10, <2>11 DEF SkillsInv, SkillsAreVetted
\* The tool of a server has no directory.
<1>3. ASSUME NEW s \in {"mcp", "lsp"}, NEW n \in ServerName, LoadServerTool(s, n) PROVE Goal
  <2>. DEFINE t == [name |-> n, source |-> s, dir |-> None, sandboxed |-> FALSE]
  <2>1. t \in Tool
    BY DEF Tool, Name
  <2>2. tools' = Append(tools, t) /\ t.name \notin Names /\ at = s
    BY <1>3 DEF LoadServerTool
  <2>3. UNCHANGED <<at, todo, dir, read, disk, edits, passed, record, unrecorded>>
    BY <1>3 DEF LoadServerTool
  <2>4. tools \in Seq(Tool) /\ t.dir = None
    BY <1>a DEF TypeOK
  <2>. HIDE DEF t
  <2>5. /\ NamesAreUnique' /\ tools' \in Seq(Tool)
        /\ \A i \in DOMAIN tools' : tools'[i] = t \/ (i \in DOMAIN tools /\ tools'[i] = tools[i])
    BY <1>a, <2>1, <2>2, <2>4, NewNameIsUnique, AppendedTool
  <2>6. TypeOK'
    BY <1>a, <2>3, <2>5 DEF TypeOK
  <2>7. (OnlyVettedAreLoaded /\ RecordAgrees)'
    BY <1>a, <2>2, <2>3, <2>4, <2>5 DEF OnlyVettedAreLoaded, RecordAgrees
  <2>8. todo \subseteq Dir
    BY <1>a DEF TypeOK
  <2>9. LoaderInv'
    BY <1>a, <1>b, <2>2, <2>3, <2>4, <2>5, <2>8 DEF LoaderInv, Status
  <2>. QED
    BY <2>5, <2>6, <2>7, <2>9 DEF SkillsInv, SkillsAreVetted
\* The third parties' skills come when none of theirs is in the registry, the audit when
\* all are, and it is done when it has recorded each.
<1>4. ASSUME NextSource PROVE Goal
  <2>1. UNCHANGED <<dir, read, disk, edits, tools, passed, record, unrecorded>> /\ dir = None /\ todo = {}
    BY <1>4 DEF NextSource
  <2>2. TypeOK'
    BY <1>4, <1>a, <1>b DEF NextSource, TypeOK
  <2>3. (NamesAreUnique /\ OnlyVettedAreLoaded)'
    BY <1>a, <2>1 DEF NamesAreUnique, OnlyVettedAreLoaded
  <2>4. CASE at = "audit"
    <3>1. Recorded /\ at' = "done" /\ todo' = {}
      BY <1>4, <1>a, <2>1, <2>4 DEF NextSource, LoaderInv
    <3>2. Recorded'
      BY <2>1, <3>1 DEF Recorded, Status
    <3>3. ASSUME edits = 0, NEW i \in DOMAIN tools, tools[i].dir \in Dir \ unrecorded
          PROVE  [dir |-> tools[i].dir, status |-> "aprovado"] \in record
      <4>1. tools[i].dir \in passed
        BY <1>a, <1>b, <3>3 DEF OnlyVettedAreLoaded
      <4>2. Status(tools[i].dir) = "aprovado"
        BY <1>a, <3>3, <4>1 DEF LoaderInv, Status
      <4>3. PICK r \in record : r.dir = tools[i].dir
        BY <2>1, <3>1, <3>3 DEF Recorded
      <4>4. r.status = "aprovado" /\ r \in [dir : Dir, status : {"aprovado", "bloqueado"}]
        BY <1>a, <3>1, <3>3, <4>2, <4>3 DEF Recorded, TypeOK
      <4>. QED
        BY <4>3, <4>4
    <3>4. RecordAgrees'
      BY <2>1, <3>1, <3>3 DEF RecordAgrees, Recorded
    <3>5. LoaderInv'
      BY <1>4, <1>a, <1>b, <2>1, <3>1, <3>2 DEF NextSource, LoaderInv, Status
    <3>. QED
      BY <2>2, <2>3, <3>4, <3>5 DEF SkillsInv, SkillsAreVetted
  <2>5. CASE at # "audit"
    <3>1. at' # "done" /\ at \notin {"audit", "done"}
      BY <1>4, <2>5 DEF NextSource
    <3>2. record = {} /\ unrecorded = {} /\ (at' = "audit" => todo' = Dir)
      BY <1>4, <1>a, <1>b, <3>1 DEF NextSource, LoaderInv
    <3>3. at' = "audit" => Recorded'
      BY <2>1, <3>2 DEF Recorded
    <3>4. LoaderInv'
      BY <1>4, <1>a, <1>b, <2>1, <3>1, <3>2, <3>3 DEF NextSource, LoaderInv, Status
    <3>. QED
      BY <2>2, <2>3, <3>1, <3>4 DEF RecordAgrees, SkillsInv, SkillsAreVetted
  <2>. QED
    BY <2>4, <2>5
<1>5. ASSUME NEW d \in Dir, RecordVetting(d) PROVE Goal
  <2>1. TypeOK'
    BY <1>5, <1>a DEF RecordVetting, TypeOK, Status
  <2>2. (NamesAreUnique /\ OnlyVettedAreLoaded /\ RecordAgrees)'
    BY <1>5, <1>a DEF RecordVetting, NamesAreUnique, OnlyVettedAreLoaded, RecordAgrees
  <2>3. at = "audit" /\ d \in todo /\ todo' = todo \ {d} /\ Recorded
        /\ UNCHANGED <<at, dir, read, disk, edits, tools, passed>>
    BY <1>5, <1>a DEF RecordVetting, LoaderInv
  <2>. DEFINE x == [dir |-> d, status |-> Status(d)]
  <2>4. ASSUME record' = record \cup {x}, UNCHANGED unrecorded PROVE Recorded'
    <3>1. x.dir = d /\ x.status = Status(d) /\ \A r \in record : r.dir # d
      BY <2>3 DEF Recorded
    <3>. HIDE DEF x
    <3>. QED
      BY <2>3, <2>4, <3>1 DEF Recorded, Status
  <2>5. ASSUME unrecorded' = unrecorded \cup {d}, UNCHANGED record PROVE Recorded'
    BY <2>3, <2>5 DEF Recorded, Status
  <2>6. Recorded'
    BY <1>5, <2>4, <2>5 DEF RecordVetting
  <2>7. LoaderInv'
    BY <1>a, <1>b, <2>3, <2>6 DEF LoaderInv, Status
  <2>. QED
    BY <2>1, <2>2, <2>7 DEF SkillsInv, SkillsAreVetted
\* After an edit nothing is said of what the directories hold.
<1>6. ASSUME NEW d \in Dir, Edit(d) PROVE Goal
  <2>1. edits' # 0 /\ edits' \in 0..MaxEdits
    BY <1>6, <1>a, <1>b DEF Edit, TypeOK
  <2>2. UNCHANGED <<at, todo, dir, read, tools, passed, record, unrecorded>> /\ disk' \in [Dir -> Content]
    BY <1>6, <1>a DEF Edit, TypeOK
  <2>3. TypeOK'
    BY <1>a, <2>1, <2>2 DEF TypeOK
  <2>4. (NamesAreUnique /\ OnlyVettedAreLoaded /\ RecordAgrees)'
    BY <1>a, <2>1, <2>2 DEF NamesAreUnique, OnlyVettedAreLoaded, RecordAgrees
  <2>5. LoaderInv'
    BY <1>a, <2>1, <2>2 DEF LoaderInv, Recorded
  <2>. QED
    BY <2>3, <2>4, <2>5 DEF SkillsInv, SkillsAreVetted
<1>7. ASSUME UNCHANGED vars PROVE Goal
  <2>1. TypeOK'
    BY <1>7, <1>a DEF vars, TypeOK
  <2>2. (NamesAreUnique /\ OnlyVettedAreLoaded /\ RecordAgrees)'
    BY <1>7, <1>a DEF vars, NamesAreUnique, OnlyVettedAreLoaded, RecordAgrees
  <2>3. LoaderInv'
    BY <1>7, <1>a DEF vars, LoaderInv, Recorded, Status
  <2>. QED
    BY <2>1, <2>2, <2>3 DEF SkillsInv, SkillsAreVetted
<1>. HIDE DEF Goal
<1>8. Goal
  BY <1>1, <1>2, <1>3, <1>4, <1>5, <1>6, <1>7 DEF Next, RegisterMcpServer, RegisterLspServer
<1>. QED
  BY <1>8 DEF Goal

\* Whatever changes in the directories while the sources are loaded, no tool hides
\* another and each skill comes from a directory that had just passed the vetter; the
\* audit tells of each directory once or has failed to, and unless they change, it
\* approves each skill it tells of.
THEOREM SkillsAreAlwaysVetted == Spec => []SkillsAreVetted
<1>1. SkillsInv => SkillsAreVetted
  BY DEF SkillsInv
<1>. QED
  BY <1>1, SkillsStart, SkillsNext, PTL DEF Spec

-----------------------------------------------------------------------------
(* Commands and containers *)

\* Units of the streams: what was written, read and answered, within the bounds.
Units == [Stream -> 0..(MaxOutput + 1)]
StreamsOK ==
  /\ pipe \in [Stream -> 0..Capacity] /\ written \in Units /\ got \in Units /\ answer \in Units
  /\ legible \in [Stream -> BOOLEAN] /\ toWrite \in 0..MaxOutput
  /\ \A s \in Stream : got[s] + pipe[s] = written[s]
  /\ written["stdout"] + written["stderr"] + toWrite <= MaxOutput + 1

LEMMA FreshStreams ==
  ASSUME toWrite \in 0..MaxOutput, written = NoUnits, pipe = NoUnits, got = NoUnits, answer = NoUnits,
         legible = [s \in Stream |-> TRUE]
  PROVE  StreamsOK
<1>1. NoUnits \in [Stream -> 0..Capacity] /\ NoUnits \in Units /\ \A s \in Stream : NoUnits[s] = 0
  BY ProcessesAssumption DEF NoUnits, Units
<1>2. "stdout" \in Stream /\ "stderr" \in Stream BY DEF Stream
<1>3. 0 + 0 = 0 /\ 0 + 0 + toWrite <= MaxOutput + 1 BY ProcessesAssumption
<1>. QED BY <1>1, <1>2, <1>3 DEF StreamsOK

LEMMA ProcessStarts == ProcessInit => ProcessInv
<1>. SUFFICES ASSUME ProcessInit PROVE ProcessInv OBVIOUS
<1>1. StreamsOK
  BY FreshStreams DEF ProcessInit
<1>2. codes \in Seq({0, 1, Timeout, Killed}) /\ Len(codes) <= MaxSteps
  BY ProcessesAssumption DEF ProcessInit
<1>3. limited \in BOOLEAN /\ detached \in BOOLEAN /\ reading \in BOOLEAN /\ expired \in BOOLEAN
  BY Zenon DEF ProcessInit
<1>4. ProcessTypeOK BY <1>1, <1>2, <1>3 DEF ProcessInit, ProcessTypeOK, StreamsOK, Units
<1>. QED BY <1>1, <1>4 DEF ProcessInit, ProcessInv, GroupIsGone, StreamsOK

\* A unit more in a stream that has room, when there is something left to write.
LEMMA UnitWritten ==
  ASSUME StreamsOK, NEW s \in Stream, WriteUnit(s), UNCHANGED <<got, answer>>,
         toWrite' \in 0..MaxOutput,
         written["stdout"] + written["stderr"] + toWrite' <= MaxOutput
  PROVE  StreamsOK'
<1>1. /\ written \in [Stream -> Nat] /\ pipe \in [Stream -> 0..Capacity] /\ got \in [Stream -> Nat]
      /\ written' = [written EXCEPT ![s] = @ + 1] /\ pipe' = [pipe EXCEPT ![s] = @ + 1]
      /\ pipe[s] < Capacity /\ Capacity \in Nat /\ MaxOutput \in Nat
  BY ProcessesAssumption DEF StreamsOK, Units, WriteUnit
<1>2. pipe' \in [Stream -> 0..Capacity]
  BY <1>1
<1>3. /\ s \in {"stdout", "stderr"} /\ written'[s] = written[s] + 1
      /\ \A t \in Stream : t # s => written'[t] = written[t]
  BY <1>1 DEF Stream
<1>4. written["stdout"] \in Nat /\ written["stderr"] \in Nat
  BY <1>1 DEF Stream
<1>5. written'["stdout"] + written'["stderr"] = written["stdout"] + written["stderr"] + 1
  <2>1. CASE s = "stdout" BY <1>3, <1>4, <2>1 DEF Stream
  <2>2. CASE s = "stderr" BY <1>3, <1>4, <2>2 DEF Stream
  <2>. QED BY <1>3, <2>1, <2>2
<1>6. written'["stdout"] + written'["stderr"] + toWrite' <= MaxOutput + 1
  BY <1>1, <1>4, <1>5
<1>7. written' \in [Stream -> Nat] BY <1>1
<1>8. written' \in Units
  <2>1. \A t \in Stream : written'[t] \in 0..(MaxOutput + 1)
    BY <1>1, <1>6, <1>7 DEF Stream
  <2>. QED BY <1>7, <2>1 DEF Units
<1>9. legible' \in [Stream -> BOOLEAN]
  BY DEF StreamsOK, WriteUnit
<1>10. \A t \in Stream : got[t] + pipe'[t] = written'[t]
  BY <1>1 DEF StreamsOK
<1>. QED BY <1>2, <1>6, <1>8, <1>9, <1>10 DEF StreamsOK

\* A unit less.
LEMMA UnitRead ==
  ASSUME StreamsOK, NEW s \in Stream, pipe[s] > 0, UNCHANGED <<written, legible, answer, toWrite>>,
         pipe' = [pipe EXCEPT ![s] = @ - 1], got' = [got EXCEPT ![s] = @ + 1]
  PROVE  StreamsOK'
<1>1. /\ written \in [Stream -> Nat] /\ pipe \in [Stream -> 0..Capacity] /\ got \in [Stream -> Nat]
      /\ Capacity \in Nat /\ MaxOutput \in Nat
      /\ \A t \in Stream : written[t] \in 0..(MaxOutput + 1)
      /\ \A t \in Stream : got[t] + pipe[t] = written[t]
  BY ProcessesAssumption DEF StreamsOK, Units
<1>2. pipe' \in [Stream -> 0..Capacity] BY <1>1
<1>3. \A t \in Stream : got'[t] \in Nat /\ pipe'[t] \in Nat /\ got'[t] + pipe'[t] = written[t]
  BY <1>1
<1>4. got' \in Units
  <2>1. \A t \in Stream : got'[t] \in 0..(MaxOutput + 1)
    BY <1>1, <1>3
  <2>. QED BY <1>1, <2>1 DEF Units
<1>. QED BY <1>2, <1>3, <1>4 DEF StreamsOK

\* The runner and the processes, apart from the streams.
ControlOK ==
  /\ runner \in {"bash", "skill", "step"} /\ limited \in BOOLEAN
  /\ doing \in {"spawn", "poll", "collect", "errors", "join", "done"}
  /\ leader \in {"none", "running", "exited"} /\ helper \in {"none", "running", "gone"}
  /\ detached \in BOOLEAN /\ code \in {0, 1, Killed} /\ reading \in BOOLEAN /\ expired \in BOOLEAN
  /\ outcome \in {"none", "ok", "timeout", "spawn_error"}
  /\ codes \in Seq({0, 1, Timeout, Killed}) /\ Len(codes) <= MaxSteps
  /\ GroupIsGone /\ (doing = "done" <=> outcome # "none")
  /\ doing = "spawn" => leader = "none" /\ helper = "none" /\ ~reading
  /\ reading => runner = "step" /\ doing \in {"poll", "join"}
  /\ doing \in {"collect", "errors"} => runner # "step"
  /\ doing = "join" => runner = "step" /\ leader # "running" /\ (helper = "running" => detached)

WholeOK ==
  /\ doing = "errors" => Taken("stdout")
  /\ runner = "step" /\ doing \in {"poll", "join"} /\ ~reading => IsWhole
  /\ outcome = "ok" => IsWhole

\* What is left to write is less, or none.
LEMMA StreamsStay ==
  ASSUME StreamsOK, UNCHANGED <<written, pipe, got, answer, legible>>,
         toWrite' \in 0..MaxOutput, toWrite' <= toWrite
  PROVE  StreamsOK'
<1>1. written["stdout"] \in Nat /\ written["stderr"] \in Nat
  BY ProcessesAssumption DEF StreamsOK, Units, Stream
<1>2. written["stdout"] + written["stderr"] + toWrite' <= MaxOutput + 1
  BY <1>1, ProcessesAssumption DEF StreamsOK
<1>. QED BY <1>2 DEF StreamsOK, Units

\* What has ended has no writer, and stays as it is while nobody touches the streams.
LEMMA EndedStreams ==
  /\ IsWhole \/ Taken("stdout") => leader # "running" /\ helper # "running"
  /\ /\ UNCHANGED <<runner, written, pipe, legible, answer>>
     /\ leader # "running" => leader' # "running"
     /\ helper # "running" => helper' # "running"
     => (IsWhole => IsWhole') /\ (Taken("stdout") => Taken("stdout")')
<1>1. "stdout" \in Stream BY DEF Stream
<1>. QED BY <1>1 DEF IsWhole, Taken, AtEof, Shown

\* A command writes, forks or ends by itself; the runner waits for its end or its time.
LEMMA ProcessStep == ProcessInv /\ [ProcessNext]_processVars => ProcessInv'
<1>. SUFFICES ASSUME ControlOK, StreamsOK, WholeOK, [ProcessNext]_processVars
              PROVE  ControlOK' /\ StreamsOK' /\ WholeOK'
  BY DEF ProcessInv, ProcessTypeOK, ControlOK, StreamsOK, WholeOK, Units
<1>. USE DEF ControlOK, WholeOK, GroupIsGone
<1>a. UNCHANGED <<toWrite, written, pipe, got, answer, legible>> => StreamsOK'
  BY DEF StreamsOK
<1>b. "stdout" \in Stream /\ "stderr" \in Stream /\ \A s \in Stream : s \in {"stdout", "stderr"}
  BY DEF Stream
<1>1. CASE Spawn
  <2>1. CASE doing' = "poll" BY <1>1, <1>a, <2>1, EndedStreams DEF Spawn, setting, streams
  <2>2. CASE doing' = "done" BY <1>1, <1>a, <2>2, EndedStreams DEF Spawn, setting, streams
  <2>. QED BY <1>1, <2>1, <2>2 DEF Spawn
<1>2. CASE LeaderWrites
  <2>1. PICK s \in Stream : WriteUnit(s)
    BY <1>2 DEF LeaderWrites
  <2>2. /\ leader = "running" /\ toWrite > 0 /\ toWrite' = toWrite - 1
        /\ UNCHANGED <<runner, limited, doing, leader, helper, detached, code, got, answer, reading,
                       expired, outcome, codes>>
    BY <1>2 DEF LeaderWrites, setting
  <2>3. StreamsOK'
    <3>1. /\ written["stdout"] \in Nat /\ written["stderr"] \in Nat /\ toWrite \in 0..MaxOutput
          /\ written["stdout"] + written["stderr"] + toWrite <= MaxOutput + 1 /\ MaxOutput \in Nat
      BY <1>b, ProcessesAssumption DEF StreamsOK, Units
    <3>2. toWrite' \in 0..MaxOutput /\ written["stdout"] + written["stderr"] + toWrite' <= MaxOutput
      BY <2>2, <3>1
    <3>. QED BY <2>1, <2>2, <3>2, UnitWritten
  <2>. QED BY <2>2, <2>3, EndedStreams
<1>3. CASE LeaderForks BY <1>3, <1>a, EndedStreams DEF LeaderForks, setting, streams
<1>4. CASE LeaderExits BY <1>4, <1>a, EndedStreams DEF LeaderExits, setting, streams
<1>5. CASE HelperWrites
  <2>1. PICK s \in Stream : WriteUnit(s)
    BY <1>5 DEF HelperWrites
  <2>2. /\ helper = "running" /\ helper' = "gone" /\ UNCHANGED toWrite
        /\ written["stdout"] + written["stderr"] + toWrite <= MaxOutput
        /\ UNCHANGED <<runner, limited, doing, leader, detached, code, got, answer, reading,
                       expired, outcome, codes>>
    BY <1>5 DEF HelperWrites, setting
  <2>3. StreamsOK'
    <3>1. toWrite' \in 0..MaxOutput BY <2>2 DEF StreamsOK
    <3>. QED BY <2>1, <2>2, <3>1, UnitWritten
  <2>. QED BY <2>2, <2>3, EndedStreams
<1>6. CASE HelperEnds BY <1>6, <1>a, EndedStreams DEF HelperEnds, setting, streams
<1>7. CASE Expire BY <1>7, <1>a, EndedStreams DEF Expire, setting, command
<1>8. CASE PollChild
  <2>1. StreamsOK'
    <3>1. toWrite' \in 0..MaxOutput /\ toWrite' <= toWrite
      BY <1>8, ProcessesAssumption DEF PollChild, KillGroup, KillLeader, StreamsOK
    <3>2. UNCHANGED <<written, pipe, got, answer, legible>>
      BY <1>8 DEF PollChild, streams
    <3>. QED BY <3>1, <3>2, StreamsStay
  <2>. QED BY <1>8, <2>1, EndedStreams DEF PollChild, setting, streams, KillGroup, KillLeader, Killed
<1>9. CASE ReadPipe
  <2>1. PICK s \in Stream :
          /\ reading \/ doing = (IF s = "stdout" THEN "collect" ELSE "errors")
          /\ pipe[s] > 0 /\ pipe' = [pipe EXCEPT ![s] = @ - 1] /\ got' = [got EXCEPT ![s] = @ + 1]
          /\ UNCHANGED <<runner, limited, doing, leader, helper, detached, code, toWrite, written,
                         legible, answer, reading, expired, outcome, codes>>
    BY <1>9 DEF ReadPipe, setting
  <2>2. StreamsOK'
    BY <2>1, UnitRead
  <2>3. doing # "done" /\ (doing = "errors" => s # "stdout")
    BY <2>1
  <2>4. doing = "errors" => Taken("stdout")'
    BY <1>b, <2>1, <2>3 DEF Taken, AtEof, Shown, StreamsOK
  <2>. QED BY <2>1, <2>2, <2>3, <2>4
<1>10. CASE Collected
  <2>1. UNCHANGED <<runner, limited, leader, helper, detached, code, toWrite, written, pipe, legible,
                    got, reading, expired, codes>>
    BY <1>10 DEF Collected, setting, command
  <2>2. \A s \in Stream : AtEof(s) => got[s] = written[s]
    BY DEF StreamsOK, Units, AtEof
  <2>3. ASSUME NEW s \in Stream, runner # "step", AtEof(s), ReadToString(s)
        PROVE  Taken(s)' /\ answer' \in Units /\ \A t \in Stream : t # s => (Taken(t) => Taken(t)')
    <3>1. answer \in Units /\ got \in Units /\ 0 \in 0..(MaxOutput + 1)
      <4>1. 0 \in 0..(MaxOutput + 1) BY ProcessesAssumption
      <4>. QED BY <4>1 DEF StreamsOK
    <3>2. answer' = [answer EXCEPT ![s] = Shown(s)]
      BY <2>2, <2>3 DEF ReadToString, Shown
    <3>3. Shown(s) \in 0..(MaxOutput + 1)
      BY <2>2, <2>3, <3>1 DEF Shown, Units
    <3>. QED BY <2>1, <2>3, <3>1, <3>2, <3>3 DEF Taken, AtEof, Shown, Units
  <2>4. CASE doing = "collect"
    <3>1. AtEof("stdout") /\ ReadToString("stdout") /\ doing' = "errors" /\ outcome' = outcome
      BY <1>10, <2>4 DEF Collected, ReadEnds
    <3>2. Taken("stdout")' /\ answer' \in Units
      BY <1>b, <2>3, <2>4, <3>1
    <3>. QED BY <2>1, <2>4, <3>1, <3>2 DEF StreamsOK
  <2>5. CASE doing = "errors"
    <3>1. AtEof("stderr") /\ ReadToString("stderr") /\ doing' = "done" /\ outcome' = "ok"
      BY <1>10, <2>5 DEF Collected, ReadEnds
    <3>2. Taken("stdout")' /\ Taken("stderr")' /\ answer' \in Units
      BY <1>b, <2>3, <2>5, <3>1
    <3>3. IsWhole'
      BY <1>b, <3>2 DEF IsWhole
    <3>. QED BY <2>1, <2>5, <3>1, <3>2, <3>3 DEF StreamsOK
  <2>. QED BY <1>10, <2>4, <2>5 DEF Collected
<1>11. CASE ThreadEnds
  <2>1. /\ reading /\ (\A s \in Stream : AtEof(s)) /\ answer' = got /\ reading' = FALSE
        /\ UNCHANGED <<runner, limited, doing, leader, helper, detached, code, toWrite, written, pipe,
                       legible, got, expired, outcome, codes>>
    BY <1>11 DEF ThreadEnds, ReadEnds, setting, command
  <2>2. IsWhole'
    BY <2>1 DEF IsWhole, Taken, AtEof, Shown, StreamsOK, Units
  <2>3. StreamsOK'
    BY <2>1 DEF StreamsOK
  <2>. QED BY <2>1, <2>2, <2>3
<1>12. CASE AwaitStep
  <2>1. StreamsOK'
    <3>1. toWrite' \in 0..MaxOutput /\ toWrite' <= toWrite
      BY <1>12, ProcessesAssumption DEF AwaitStep, KillGroup, KillLeader, StreamsOK
    <3>2. UNCHANGED <<written, pipe, got, answer, legible>>
      BY <1>12 DEF AwaitStep, streams
    <3>. QED BY <3>1, <3>2, StreamsStay
  <2>. QED BY <1>12, <2>1, EndedStreams DEF AwaitStep, setting, streams, KillGroup, KillLeader, Killed
<1>13. CASE JoinThread BY <1>13, <1>a, EndedStreams DEF JoinThread, setting, command
<1>14. CASE NextStep
  <2>1. StepCode \in {0, 1, Timeout, Killed} BY <1>14 DEF NextStep, StepCode
  <2>2. codes' \in Seq({0, 1, Timeout, Killed}) /\ Len(codes') <= MaxSteps
    BY <1>14, <2>1, ProcessesAssumption DEF NextStep
  <2>3. /\ doing' = "spawn" /\ leader' = "none" /\ helper' = "none" /\ outcome' = "none"
        /\ ~detached' /\ ~reading' /\ ~expired' /\ detached' \in BOOLEAN /\ reading' \in BOOLEAN
        /\ expired' \in BOOLEAN /\ runner' = runner /\ limited' = limited /\ code' \in {0, 1}
    BY <1>14 DEF NextStep, setting
  <2>4. /\ toWrite' \in 0..MaxOutput /\ written' = NoUnits /\ pipe' = NoUnits /\ got' = NoUnits
        /\ answer' = NoUnits /\ legible' = [s \in Stream |-> TRUE]
    BY <1>14 DEF NextStep
  <2>5. StreamsOK'
    <3>1. /\ NoUnits \in [Stream -> 0..Capacity] /\ NoUnits \in Units
          /\ \A s \in Stream : NoUnits[s] + NoUnits[s] = NoUnits[s]
          /\ NoUnits["stdout"] + NoUnits["stderr"] = 0
      BY <1>b, ProcessesAssumption DEF NoUnits, Units
    <3>2. 0 + toWrite' <= MaxOutput + 1
      <4>1. ASSUME NEW n \in Nat, NEW m \in 0..n PROVE 0 + m <= n + 1 OBVIOUS
      <4>. HIDE DEF ControlOK, WholeOK
      <4>. QED BY <2>4, <4>1, ProcessesAssumption
    <3>. QED BY <2>4, <3>1, <3>2 DEF StreamsOK
  <2>. QED BY <2>2, <2>3, <2>5
<1>15. CASE UNCHANGED processVars BY <1>15, <1>a, EndedStreams DEF processVars
<1>. QED
  BY <1>1, <1>2, <1>3, <1>4, <1>5, <1>6, <1>7, <1>8, <1>9, <1>10, <1>11, <1>12, <1>13, <1>14, <1>15
  DEF ProcessNext, Runner, Command

\* A step that is cut short fails, whatever its process ended with.
LEMMA CutsFail == ProcessInv /\ [ProcessNext]_processVars => [CutShort]_processVars
<1>. SUFFICES ASSUME ProcessInv, ProcessNext, doing = "done", outcome # "ok", codes' # codes
              PROVE  PipelineVerdict' = "Fail"
  BY DEF CutShort
<1>1. NextStep
  BY DEF ProcessNext, Runner, Command, Spawn, PollChild, ReadPipe, Collected, ThreadEnds, AwaitStep,
     JoinThread, LeaderWrites, LeaderForks, LeaderExits, HelperWrites, HelperEnds, Expire
<1>2. StepCode # 0 BY DEF StepCode, ProcessInv, ProcessTypeOK, Killed, Timeout
<1>3. Len(codes) + 1 \in DOMAIN codes' /\ codes'[Len(codes) + 1] # 0
  BY <1>1, <1>2 DEF NextStep, ProcessInv, ProcessTypeOK
<1>. QED BY <1>3 DEF PipelineVerdict

LEMMA SandboxStarts == SandboxInit => SandboxInv
<1>. SUFFICES ASSUME SandboxInit PROVE SandboxInv OBVIOUS
<1>1. local \in BOOLEAN /\ timedOut \in BOOLEAN /\ overdue \in BOOLEAN /\ stuck \in BOOLEAN
  BY Zenon DEF SandboxInit
<1>2. /\ output \in Seq(Chunk) /\ Len(output) <= MaxLogs /\ logs \in Seq({"text", "replaced"})
      /\ refused \in 0..MaxRefused
  BY SandboxAssumption DEF SandboxInit
<1>. QED
  BY <1>1, <1>2 DEF SandboxInit, SandboxInv, SandboxTypeOK, NothingLeft, Unknown

\* A text is made of any chunks, one for one.
LEMMA LossyText ==
  ASSUME NEW s \in Seq(Chunk)
  PROVE  /\ Lossy(s) \in Seq({"text", "replaced"}) /\ Len(Lossy(s)) = Len(s)
         /\ \A i \in DOMAIN s : s[i] = "text" <=> Lossy(s)[i] = "text"
<1>1. DOMAIN s = 1..Len(s) /\ Len(s) \in Nat /\ \A i \in DOMAIN s : s[i] \in Chunk
  OBVIOUS
<1>2. Lossy(s) \in [1..Len(s) -> {"text", "replaced"}]
  BY <1>1 DEF Lossy
<1>. QED BY <1>1, <1>2 DEF Lossy, Chunk

\* Each call to the daemon, and what the container does meanwhile.
LEMMA SandboxSteps == SandboxInv /\ [SandboxNext]_sandboxVars => SandboxInv'
<1>. SUFFICES ASSUME SandboxInv, [SandboxNext]_sandboxVars PROVE SandboxInv' OBVIOUS
<1>. USE SandboxAssumption DEF SandboxInv, SandboxTypeOK, NothingLeft, Unknown, Fault, Give, Abandon
<1>1. CASE Ping BY <1>1 DEF Ping
<1>2. CASE EnsureImage
  <2>1. local' \in BOOLEAN BY <1>2 DEF EnsureImage
  <2>2. CASE calling' = "create" BY <1>2, <2>1, <2>2 DEF EnsureImage
  <2>3. CASE calling' = "done" BY <1>2, <2>1, <2>3 DEF EnsureImage
  <2>. QED BY <1>2, <2>2, <2>3 DEF EnsureImage
<1>3. CASE Create BY <1>3 DEF Create
<1>4. CASE StartContainer BY <1>4 DEF StartContainer
<1>5. CASE Wait
  <2>1. CASE calling' = "remove" BY <1>5, <2>1 DEF Wait, TimeIsUp
  <2>2. CASE calling' = "logs" BY <1>5, <2>2 DEF Wait, TimeIsUp
  <2>3. CASE calling' = "kill" BY <1>5, <2>3 DEF Wait, TimeIsUp
  <2>. QED BY <1>5, <2>1, <2>2, <2>3 DEF Wait
<1>6. CASE KillContainer BY <1>6 DEF KillContainer
<1>7. CASE Logs
  <2>1. CASE logs' = Lossy(output) /\ UNCHANGED refused
    <3>1. logs' \in Seq({"text", "replaced"}) BY <2>1, LossyText
    <3>. QED BY <1>7, <2>1, <3>1 DEF Logs
  <2>2. CASE /\ Fault
             /\ \E i \in 0..Len(output) : \E j \in i..Len(output) :
                  logs' = Lossy(SubSeq(output, 1, i) \o SubSeq(output, j + 1, Len(output)))
    <3>0. PICK i \in 0..Len(output) : \E j \in i..Len(output) :
            logs' = Lossy(SubSeq(output, 1, i) \o SubSeq(output, j + 1, Len(output)))
      BY <2>2
    <3>1. PICK j \in i..Len(output) :
            logs' = Lossy(SubSeq(output, 1, i) \o SubSeq(output, j + 1, Len(output)))
      BY <3>0
    <3>2. SubSeq(output, 1, i) \in Seq(Chunk) /\ SubSeq(output, j + 1, Len(output)) \in Seq(Chunk)
      <4>. HIDE DEF SandboxInv, NothingLeft
      <4>1. output \in Seq(Chunk) /\ Len(output) \in Nat BY DEF SandboxInv
      <4>. HIDE DEF SandboxTypeOK
      <4>. QED BY <4>1
    <3>3. logs' \in Seq({"text", "replaced"})
      BY <3>1, <3>2, LossyText, ConcatProperties
    <3>4. refused' # 0 /\ refused' \in 0..MaxRefused BY <2>2
    <3>. QED BY <1>7, <3>3, <3>4 DEF Logs
  <2>. QED BY <1>7, <2>1, <2>2 DEF Logs
<1>8. CASE RemoveContainer
  <2>1. CASE container' = "removed" /\ UNCHANGED <<stuck, refused>>
    BY <1>8, <2>1 DEF RemoveContainer
  <2>2. CASE stuck' = TRUE /\ Fault /\ UNCHANGED container
    BY <1>8, <2>2 DEF RemoveContainer
  <2>. QED BY <1>8, <2>1, <2>2 DEF RemoveContainer, RemoveQuiet
<1>9. CASE ContainerWrites
  <2>1. output' \in Seq(Chunk) /\ Len(output') <= MaxLogs
    <3>1. output \in Seq(Chunk) /\ Len(output) < MaxLogs
      BY <1>9 DEF ContainerWrites
    <3>2. PICK c \in Chunk : output' = Append(output, c)
      BY <1>9 DEF ContainerWrites
    <3>. HIDE DEF SandboxInv, SandboxTypeOK, NothingLeft
    <3>. QED BY <3>1, <3>2
  <2>. QED BY <1>9, <2>1 DEF ContainerWrites
<1>10. CASE ContainerExits BY <1>10 DEF ContainerExits
<1>11. CASE TimePasses BY <1>11 DEF TimePasses
<1>12. CASE UNCHANGED sandboxVars BY <1>12 DEF sandboxVars
<1>. QED
  BY <1>1, <1>2, <1>3, <1>4, <1>5, <1>6, <1>7, <1>8, <1>9, <1>10, <1>11, <1>12 DEF SandboxNext, SandboxStep

\* Whatever a command leaves behind, however its end races the timeout, and whichever call
\* to the daemon fails: processes and containers are gone, success is true, output is
\* whole as far as it is text, and a step that was cut fails.
THEOREM CommandsAlwaysContained == ProcessSpec /\ SandboxSpec => CommandsAreContained
<1>1. ProcessInv => ProcessTypeOK /\ GroupIsGone /\ OutputIsWhole
  BY DEF ProcessInv, OutputIsWhole, IsWhole, Taken
<1>2. SandboxInv => SandboxTypeOK /\ NothingLeft /\ SuccessIsWhole
  <2>. SUFFICES ASSUME SandboxInv PROVE SuccessIsWhole
    BY DEF SandboxInv
  <2>1. output \in Seq(Chunk)
    BY DEF SandboxInv, SandboxTypeOK
  <2>2. Len(Lossy(output)) = Len(output) /\ \A i \in DOMAIN output : output[i] = "text" <=> Lossy(output)[i] = "text"
    BY <2>1, LossyText
  <2>3. returned = "ok" /\ status = 0 => exitCode = 0 /\ ~timedOut /\ (refused = 0 => logs = Lossy(output))
    BY DEF SandboxInv, SandboxTypeOK, Unknown
  <2>. QED BY <2>2, <2>3 DEF SuccessIsWhole
<1>3. ProcessSpec => []ProcessInv BY ProcessStarts, ProcessStep, PTL DEF ProcessSpec
<1>4. ProcessSpec => CutShortFails BY <1>3, CutsFail, PTL DEF ProcessSpec, CutShortFails
<1>5. SandboxSpec => []SandboxInv BY SandboxStarts, SandboxSteps, PTL DEF SandboxSpec
<1>. QED BY <1>1, <1>2, <1>3, <1>4, <1>5, PTL DEF CommandsAreContained

-----------------------------------------------------------------------------
(* The session with the language server *)

\* A message that was taken from a pipe leaves the others in their order.
LEMMA TailKeeps ==
  ASSUME NEW S, NEW s \in Seq(S), s # <<>>
  PROVE  /\ Head(s) \in S /\ Tail(s) \in Seq(S) /\ 1 \in DOMAIN s /\ Head(s) = s[1]
         /\ \A i \in DOMAIN Tail(s) : i + 1 \in DOMAIN s /\ Tail(s)[i] = s[i + 1]
<1>1. Len(s) \in Nat /\ Len(s) >= 1 /\ DOMAIN s = 1..Len(s)
  BY EmptySeq
<1>2. Tail(s) \in Seq(S) /\ DOMAIN Tail(s) = 1..(Len(s) - 1)
  BY <1>1, HeadTailProperties
<1>3. \A i \in 1..(Len(s) - 1) : Tail(s)[i] = s[i + 1]
  BY <1>1, HeadTailProperties
<1>4. Head(s) = s[1] /\ Head(s) \in S
  BY HeadTailProperties
<1>. QED
  BY <1>1, <1>2, <1>3, <1>4

LEMMA WithoutKeeps ==
  ASSUME NEW S, NEW s \in Seq(S), NEW n \in DOMAIN s
  PROVE  /\ Without(s, n) \in Seq(S)
         /\ \A i \in DOMAIN Without(s, n) :
              (i < n /\ i \in DOMAIN s /\ Without(s, n)[i] = s[i])
              \/ (i >= n /\ i + 1 \in DOMAIN s /\ Without(s, n)[i] = s[i + 1])
<1>1. Len(s) \in Nat /\ DOMAIN s = 1..Len(s) /\ n \in Nat /\ Len(s) - 1 \in Nat
  OBVIOUS
<1>2. DOMAIN Without(s, n) = 1..(Len(s) - 1)
  BY DEF Without
<1>3. ASSUME NEW i \in 1..(Len(s) - 1)
      PROVE  /\ Without(s, n)[i] \in S /\ i \in Nat
             /\ \/ i < n /\ i \in DOMAIN s /\ Without(s, n)[i] = s[i]
                \/ i >= n /\ i + 1 \in DOMAIN s /\ Without(s, n)[i] = s[i + 1]
  <2>1. Without(s, n)[i] = IF i < n THEN s[i] ELSE s[i + 1]
    BY DEF Without
  <2>2. i \in 1..Len(s) /\ i + 1 \in 1..Len(s)
    BY <1>1
  <2>3. s[i] \in S /\ s[i + 1] \in S
    BY <2>2, ElementOfSeq
  <2>. QED
    BY <1>1, <2>1, <2>2, <2>3
<1>4. Without(s, n) \in [1..(Len(s) - 1) -> S]
  BY <1>3 DEF Without
<1>. QED
  BY <1>1, <1>2, <1>3, <1>4

\* t is s and a last message m.
Longer(t, s, m) ==
  \E l : \A i \in DOMAIN t : \/ i \in DOMAIN s /\ t[i] = s[i]
                             \/ i = l /\ i \notin DOMAIN s /\ t[i] = m

LEMMA AppendAdds ==
  ASSUME NEW S, NEW s \in Seq(S), NEW m \in S
  PROVE  Append(s, m) \in Seq(S) /\ Longer(Append(s, m), s, m)
<1>1. PICK l : l = Len(s) + 1
  OBVIOUS
<1>2. Append(s, m) \in Seq(S) /\ \A i \in DOMAIN Append(s, m) :
        \/ i \in DOMAIN s /\ Append(s, m)[i] = s[i]
        \/ i = l /\ i \notin DOMAIN s /\ Append(s, m)[i] = m
  BY <1>1
<1>3. PICK t : t = Append(s, m)
  OBVIOUS
<1>4. Longer(t, s, m)
  BY <1>2, <1>3 DEF Longer
<1>. QED BY <1>2, <1>3, <1>4

\* No document is opened twice in a pipe, and the server has seen none of them.
OpensOnce(s, o, n) ==
  \A i \in DOMAIN s : s[i].k = "open" =>
    /\ s[i].file \in o /\ n[s[i].file] = 0
    /\ \A j \in DOMAIN s : s[j].k = "open" /\ s[j].file = s[i].file => j = i

LEMMA TailOpensOnce ==
  ASSUME NEW S, NEW s \in Seq(S), s # <<>>, NEW o, NEW n, OpensOnce(s, o, n)
  PROVE  /\ OpensOnce(Tail(s), o, n)
         /\ Head(s).k = "open" =>
              \A i \in DOMAIN Tail(s) : Tail(s)[i].k = "open" => Tail(s)[i].file # Head(s).file
<1>1. \A i \in DOMAIN Tail(s) : i + 1 \in DOMAIN s /\ Tail(s)[i] = s[i + 1] /\ i \in Nat \ {0}
  <2>1. DOMAIN Tail(s) \subseteq Nat \ {0} BY TailKeeps
  <2>. QED BY <2>1, TailKeeps
<1>2. 1 \in DOMAIN s /\ Head(s) = s[1]
  BY TailKeeps
<1>. DEFINE t == Tail(s)
<1>3. \A i \in DOMAIN t : i + 1 \in DOMAIN s /\ t[i] = s[i + 1] /\ i \in Nat \ {0}
  BY <1>1
<1>4. Head(s).k = "open" => \A i \in DOMAIN t : t[i].k = "open" => t[i].file # Head(s).file
  <2>. HIDE DEF t
  <2>. SUFFICES ASSUME s[1].k = "open", NEW i \in DOMAIN t, t[i].k = "open", t[i].file = s[1].file
                PROVE FALSE
    BY <1>2
  <2>1. i + 1 = 1 BY <1>2, <1>3 DEF OpensOnce
  <2>. QED BY <2>1, <1>3
<1>5. OpensOnce(t, o, n)
  <2>. HIDE DEF t
  <2>. SUFFICES ASSUME NEW i \in DOMAIN t, t[i].k = "open"
                PROVE  /\ t[i].file \in o /\ n[t[i].file] = 0
                       /\ \A j \in DOMAIN t : t[j].k = "open" /\ t[j].file = t[i].file => j = i
    BY DEF OpensOnce
  <2>1. s[i + 1].k = "open" /\ i + 1 \in DOMAIN s /\ t[i] = s[i + 1] BY <1>3
  <2>2. ASSUME NEW j \in DOMAIN t, t[j].k = "open", t[j].file = t[i].file PROVE j = i
    <3>1. j + 1 = i + 1 BY <2>1, <2>2, <1>3 DEF OpensOnce
    <3>. QED BY <3>1, <1>3
  <2>. QED BY <2>1, <2>2 DEF OpensOnce
<1>. QED BY <1>4, <1>5

LEMMA WithoutOpensOnce ==
  ASSUME NEW S, NEW s \in Seq(S), NEW k \in DOMAIN s, NEW o, NEW n, OpensOnce(s, o, n)
  PROVE  OpensOnce(Without(s, k), o, n)
<1>. DEFINE t == Without(s, k)
            from_(i) == IF i < k THEN i ELSE i + 1
<1>1. \A i \in DOMAIN t : i \in Nat /\ from_(i) \in DOMAIN s /\ t[i] = s[from_(i)]
  <2>1. DOMAIN t \subseteq Nat BY DEF Without
  <2>2. k \in Nat OBVIOUS
  <2>3. ASSUME NEW i \in DOMAIN t PROVE i \in Nat /\ from_(i) \in DOMAIN s /\ t[i] = s[from_(i)]
    <3>1. \/ i < k /\ i \in DOMAIN s /\ t[i] = s[i]
          \/ i >= k /\ i + 1 \in DOMAIN s /\ t[i] = s[i + 1]
      BY WithoutKeeps
    <3>2. i \in Nat BY <2>1
    <3>. HIDE DEF t
    <3>. QED BY <3>1, <3>2, <2>2
  <2>. QED BY <2>3
<1>2. \A i, j \in Nat : from_(i) = from_(j) => i = j
  <2>1. k \in Nat OBVIOUS
  <2>. QED BY <2>1
<1>. HIDE DEF t, from_
<1>3. SUFFICES ASSUME NEW i \in DOMAIN t, t[i].k = "open"
               PROVE  /\ t[i].file \in o /\ n[t[i].file] = 0
                      /\ \A j \in DOMAIN t : t[j].k = "open" /\ t[j].file = t[i].file => j = i
  BY DEF OpensOnce, t
<1>4. ASSUME NEW j \in DOMAIN t, t[j].k = "open", t[j].file = t[i].file PROVE j = i
  BY <1>1, <1>2, <1>3, <1>4 DEF OpensOnce
<1>. QED BY <1>1, <1>3, <1>4 DEF OpensOnce

LEMMA LongerOpensOnce ==
  ASSUME NEW s, NEW m, NEW t, Longer(t, s, m), NEW o, NEW n, OpensOnce(s, o, n)
  PROVE  /\ m.k # "open" => OpensOnce(t, o, n)
         /\ m.k = "open" /\ m.file \notin o /\ n[m.file] = 0 => OpensOnce(t, o \cup {m.file}, n)
<1>1. PICK l : \A i \in DOMAIN t :
        (i \in DOMAIN s /\ t[i] = s[i]) \/ (i = l /\ i \notin DOMAIN s /\ t[i] = m)
  BY DEF Longer
<1>2. m.k # "open" => OpensOnce(t, o, n)
  BY <1>1 DEF OpensOnce
<1>3. m.k = "open" /\ m.file \notin o /\ n[m.file] = 0 => OpensOnce(t, o \cup {m.file}, n)
  BY <1>1 DEF OpensOnce
<1>. QED BY <1>2, <1>3

\* The requests or the answers of a pipe have ids of their queries.
OwnedIn(s, k, n, p, a) ==
  \A i \in DOMAIN s : s[i].k = k =>
    /\ s[i].id <= 1 \/ s[i].id <= n
    /\ \A q \in Query : p[q] = "read" /\ s[i].id = a[q] => s[i].of = q

\* t has only messages of s.
Part(t, s) == \A i \in DOMAIN t : \E j \in DOMAIN s : t[i] = s[j]

LEMMA PartOwned ==
  ASSUME NEW s, NEW t, Part(t, s), NEW k, NEW n, NEW p, NEW a, OwnedIn(s, k, n, p, a)
  PROVE  OwnedIn(t, k, n, p, a)
BY DEF Part, OwnedIn

LEMMA LongerOwned ==
  ASSUME NEW s, NEW t, NEW m, Longer(t, s, m), NEW k, NEW n, NEW p, NEW a, OwnedIn(s, k, n, p, a),
         m.k = k => /\ m.id <= 1 \/ m.id <= n
                    /\ \A q \in Query : p[q] = "read" /\ m.id = a[q] => m.of = q
  PROVE  OwnedIn(t, k, n, p, a)
<1>1. PICK l : \A i \in DOMAIN t :
        (i \in DOMAIN s /\ t[i] = s[i]) \/ (i = l /\ i \notin DOMAIN s /\ t[i] = m)
  BY DEF Longer
<1>. QED BY <1>1 DEF OwnedIn

\* While no query begins to read, ids stay owned.
LEMMA OwnedStays ==
  ASSUME NEW s, NEW k, NEW n, NEW p, NEW a, OwnedIn(s, k, n, p, a), NEW p2,
         \A q \in Query : p2[q] = "read" => p[q] = "read"
  PROVE  OwnedIn(s, k, n, p2, a)
BY DEF OwnedIn

\* A query that reads alone has an id that no earlier message has.
LEMMA OwnedByNext ==
  ASSUME NEW s, NEW k, NEW n \in Nat, n >= 1, NEW p, NEW a, OwnedIn(s, k, n, p, a), NEW p2, NEW a2,
         \A i \in DOMAIN s : s[i].k = k => s[i].id \in Nat,
         \A q \in Query : p2[q] = "read" => a2[q] = n + 1
  PROVE  OwnedIn(s, k, n + 1, p2, a2)
<1>1. ASSUME NEW i \in DOMAIN s, s[i].k = k
      PROVE  s[i].id <= n + 1 /\ s[i].id # n + 1
  <2>1. s[i].id \in Nat /\ s[i].id <= n BY <1>1 DEF OwnedIn
  <2>. QED BY <2>1
<1>. QED BY <1>1 DEF OwnedIn

\* The answer to initialize has the first id.
LEMMA OwnedByFirst ==
  ASSUME NEW s, NEW k, NEW p, NEW a, OwnedIn(s, k, 0, p, a), NEW p2,
         \A i \in DOMAIN s : s[i].k = k => s[i].id \in Nat,
         \A q \in Query : p2[q] # "read"
  PROVE  OwnedIn(s, k, 1, p2, a)
<1>1. \A n \in Nat : n <= 0 => n <= 1 OBVIOUS
<1>. QED BY <1>1 DEF OwnedIn

LEMMA TailIsPart ==
  ASSUME NEW S, NEW s \in Seq(S), s # <<>>
  PROVE  Part(Tail(s), s)
BY TailKeeps DEF Part

LEMMA WithoutIsPart ==
  ASSUME NEW S, NEW s \in Seq(S), NEW n \in DOMAIN s
  PROVE  Part(Without(s, n), s)
BY WithoutKeeps DEF Part

-----------------------------------------------------------------------------
(* The parts of type correctness. *)

QueryTypes ==
  /\ phase \in [Query -> {"idle", "lock", "shake", "ask", "read", "done"}]
  /\ kind \in [Query -> {"position", "diagnostics"}] /\ file \in [Query -> Document]
  /\ result \in [Query -> {"none", "found", "empty", "error"}]
  /\ asks \in [Query -> 0..MaxAsks] /\ asked \in [Query -> Nat]
  /\ from \in [Query -> Query \cup {Nobody}]
  /\ lock \in Query \cup {Nobody} /\ \A q \in Query : phase[q] \in {"shake", "ask", "read"} => lock = q
ProcessTypes ==
  /\ slot \in 0..spawned /\ shaking \in 0..spawned
  /\ running \subseteq 1..spawned /\ abandoned \subseteq 1..spawned /\ spawned \in 0..MaxServers
  /\ faults \in 0..MaxFaults /\ closed \in BOOLEAN
DocumentTypes ==
  /\ nextId \in Nat /\ opened \subseteq Document /\ stash \in [Document -> Published]
  /\ owes \in BOOLEAN /\ seen \in [Document -> 0..2] /\ pushed \in 0..MaxPush
PipeTypes == toServer \in Seq(ToServer) /\ fromServer \in Seq(FromServer)

LEMMA RequestIds ==
  ASSUME NEW s \in Seq(ToServer)
  PROVE  \A i \in DOMAIN s : s[i].k = "request" => s[i].id \in Nat
BY ElementOfSeq DEF ToServer

LEMMA ResponseIds ==
  ASSUME NEW s \in Seq(FromServer)
  PROVE  \A i \in DOMAIN s : s[i].k = "response" => s[i].id \in Nat
BY ElementOfSeq DEF FromServer

LEMMA TypeParts == LspTypeOK <=> QueryTypes /\ ProcessTypes /\ DocumentTypes /\ PipeTypes
BY DEF LspTypeOK, QueryTypes, ProcessTypes, DocumentTypes, PipeTypes

\* The invariant in these parts.
Ids == /\ IF slot = 0 THEN nextId = 0 ELSE nextId >= 1
       /\ \A q \in Query : phase[q] = "read" => asked[q] = nextId /\ nextId >= 2
       /\ OwnedIn(toServer, "request", nextId, phase, asked)
       /\ OwnedIn(fromServer, "response", nextId, phase, asked)
Noted == /\ slot = 0 => opened = {}
         /\ \A f \in Document : seen[f] <= 1 /\ (seen[f] # 0 => f \in opened)
         /\ OpensOnce(toServer, opened, seen)
SessionInv == QueryTypes /\ ProcessTypes /\ DocumentTypes /\ PipeTypes
       /\ ServerIsCurrent /\ Ids /\ Noted /\ AnswersOwnQuery

LEMMA InvIsLspInv == SessionInv <=> LspInv
<1>1. Noted <=> OpenedIsNoted BY DEF Noted, OpenedIsNoted, OpensOnce
<1>2. Ids <=> IdsAreOwn BY DEF Ids, IdsAreOwn, Owned, OwnedIn
<1>. QED BY <1>1, <1>2, TypeParts DEF SessionInv, LspInv

\* A query that is over has an answer of its own, or none; or it asks again.
Settles(q) ==
  \/ \E r \in {"found", "empty", "error"}, w \in Query \cup {Nobody} :
       Finish(q, r, w) /\ (r = "found" => w = q)
  \/ Advance(q, "ask") /\ UNCHANGED <<lock, result, from>>

LEMMA FailedSettles == ASSUME NEW q \in Query, Failed(q) PROVE Settles(q)
BY DEF Failed, Pumped, Settles

LEMMA AnsweredSettles ==
  ASSUME SessionInv, NEW q \in Query, phase[q] = "read", NEW i \in DOMAIN fromServer,
         fromServer[i].k = "response", fromServer[i].id = asked[q], Answered(q, fromServer[i])
  PROVE  Settles(q)
<1>. DEFINE m == fromServer[i]
<1>1. m \in FromServer BY DEF SessionInv, PipeTypes
<1>2. m.val \in {"found", "empty", "error"} /\ m.of \in Query \cup {Nobody}
  BY <1>1 DEF FromServer
<1>3. m.of = q BY DEF SessionInv, Ids, OwnedIn
<1>. HIDE DEF m
<1>4. Answered(q, m) BY DEF m
<1>. QED BY <1>2, <1>3, <1>4 DEF Answered, Pumped, Settles

-----------------------------------------------------------------------------
LEMMA InitInv == LspInit => SessionInv
<1>. SUFFICES ASSUME LspInit PROVE SessionInv
  OBVIOUS
<1>. USE DEF LspInit
<1>1. QueryTypes
  BY LspAssumption DEF QueryTypes
<1>2. ProcessTypes
  <2>1. 0 \in 0..MaxServers /\ 0 \in 0..MaxFaults /\ 0 \in 0..0
    BY LspAssumption
  <2>. QED BY <2>1 DEF ProcessTypes
<1>3. DocumentTypes
  <2>1. 0 \in 0..MaxPush /\ 0 \in 0..2 /\ 0 \in Nat
    BY LspAssumption
  <2>. QED BY <2>1 DEF DocumentTypes, Published
<1>4. PipeTypes
  BY DEF PipeTypes
<1>5. ServerIsCurrent
  BY LspAssumption DEF ServerIsCurrent, Peer
<1>6. Ids
  BY DEF Ids, OwnedIn
<1>7. Noted
  BY DEF Noted, OpensOnce
<1>8. AnswersOwnQuery
  BY DEF AnswersOwnQuery
<1>. QED
  BY <1>1, <1>2, <1>3, <1>4, <1>5, <1>6, <1>7, <1>8 DEF SessionInv

\* What a step leaves alone.
LEMMA BeginInv == ASSUME SessionInv, NEW q \in Query, Begin(q) \/ FileMissing(q) PROVE SessionInv'
<1>. USE DEF SessionInv
<1>1. /\ phase[q] = "idle" /\ ~closed /\ phase' \in {[phase EXCEPT ![q] = "lock"], [phase EXCEPT ![q] = "done"]}
      /\ result' \in {result, [result EXCEPT ![q] = "error"]}
      /\ UNCHANGED <<kind, file, asks, asked, from, sessionVars, serverVars, closed>>
  BY DEF Begin, FileMissing, Advance
<1>. USE DEF sessionVars, serverVars
<1>2. QueryTypes'
  BY <1>1 DEF QueryTypes
<1>3. ProcessTypes' /\ DocumentTypes' /\ PipeTypes'
  BY <1>1 DEF ProcessTypes, DocumentTypes, PipeTypes
<1>4. ServerIsCurrent'
  BY <1>1 DEF ServerIsCurrent, QueryTypes, Peer
<1>5. \A r \in Query : phase'[r] = "read" => phase[r] = "read"
  BY <1>1 DEF QueryTypes
<1>6. /\ OwnedIn(toServer, "request", nextId, phase', asked)
      /\ OwnedIn(fromServer, "response", nextId, phase', asked)
  BY <1>5, OwnedStays DEF Ids
<1>7. Ids'
  BY <1>1, <1>5, <1>6 DEF Ids
<1>8. Noted'
  BY <1>1 DEF Noted
<1>9. AnswersOwnQuery'
  BY <1>1 DEF AnswersOwnQuery, QueryTypes
<1>. QED
  BY <1>2, <1>3, <1>4, <1>7, <1>8, <1>9

\* A query that leaves the session, or asks again, when it settles.
LEMMA SettlesInv ==
  ASSUME SessionInv, NEW q \in Query, phase[q] \in {"ask", "read"}, Settles(q), asks' \in [Query -> 0..MaxAsks],
         UNCHANGED <<kind, file, asked, slot, shaking, running, abandoned, closed>>
  PROVE  /\ QueryTypes' /\ ServerIsCurrent' /\ AnswersOwnQuery'
         /\ \A r \in Query : phase'[r] # "read"
<1>. USE DEF SessionInv
<1>1. lock = q /\ \A r \in Query : phase[r] \in {"shake", "ask", "read"} => r = q
  BY DEF QueryTypes
<1>2. CASE Advance(q, "ask") /\ UNCHANGED <<lock, result, from>>
  <2>1. phase' = [phase EXCEPT ![q] = "ask"] BY <1>2 DEF Advance
  <2>2. QueryTypes' BY <1>1, <1>2, <2>1 DEF QueryTypes
  <2>3. ServerIsCurrent' BY <1>1, <1>2, <2>1 DEF ServerIsCurrent, QueryTypes, Peer
  <2>4. AnswersOwnQuery' BY <1>2 DEF AnswersOwnQuery
  <2>. QED BY <1>1, <2>1, <2>2, <2>3, <2>4 DEF QueryTypes
<1>3. ASSUME NEW r \in {"found", "empty", "error"}, NEW w \in Query \cup {Nobody},
             Finish(q, r, w), r = "found" => w = q
      PROVE  /\ QueryTypes' /\ ServerIsCurrent' /\ AnswersOwnQuery'
             /\ \A p \in Query : phase'[p] # "read"
  <2>1. /\ phase' = [phase EXCEPT ![q] = "done"] /\ lock' = Nobody
        /\ result' = [result EXCEPT ![q] = r] /\ from' = [from EXCEPT ![q] = w]
    BY <1>3 DEF Finish, Advance
  <2>2. QueryTypes' BY <1>1, <2>1 DEF QueryTypes
  <2>3. ServerIsCurrent' BY <1>1, <2>1 DEF ServerIsCurrent, QueryTypes, Peer
  <2>4. AnswersOwnQuery' BY <1>3, <2>1 DEF AnswersOwnQuery, QueryTypes
  <2>. QED BY <1>1, <2>1, <2>2, <2>3, <2>4 DEF QueryTypes
<1>. QED BY <1>2, <1>3 DEF Settles
LEMMA AcquireInv == ASSUME SessionInv, NEW q \in Query, Acquire(q) PROVE SessionInv'
<1>. USE DEF SessionInv, Acquire
<1>1. /\ phase[q] = "lock" /\ lock = Nobody /\ Nobody \notin Query
      /\ \A r \in Query : phase[r] \notin {"shake", "ask", "read"}
  BY LspAssumption DEF LockFree, QueryTypes
<1>2. shaking = 0 /\ ~closed
  BY <1>1 DEF ServerIsCurrent
<1>3. CASE slot # 0 /\ Advance(q, "ask") /\ lock' = q
           /\ UNCHANGED <<result, from, shaking, toServer, fromServer, owes, seen, running, spawned>>
  <2>1. phase' = [phase EXCEPT ![q] = "ask"] BY <1>3 DEF Advance
  <2>2. QueryTypes' BY <1>1, <1>3, <2>1 DEF QueryTypes
  <2>3. ProcessTypes' /\ DocumentTypes' /\ PipeTypes' BY <1>3 DEF ProcessTypes, DocumentTypes, PipeTypes
  <2>4. ServerIsCurrent' BY <1>1, <1>2, <1>3, <2>1 DEF ServerIsCurrent, QueryTypes, Peer
  <2>5. \A r \in Query : phase'[r] # "read" BY <1>1, <2>1 DEF QueryTypes
  <2>6. /\ OwnedIn(toServer, "request", nextId, phase', asked)
        /\ OwnedIn(fromServer, "response", nextId, phase', asked)
    BY <2>5, OwnedStays DEF Ids
  <2>7. Ids' BY <1>3, <2>5, <2>6 DEF Ids
  <2>8. Noted' /\ AnswersOwnQuery' BY <1>3 DEF Noted, AnswersOwnQuery
  <2>. QED BY <2>2, <2>3, <2>4, <2>7, <2>8
<1>4. CASE slot = 0 /\ Advance(q, "shake") /\ lock' = q /\ StartServer /\ UNCHANGED <<result, from>>
  <2>1. phase' = [phase EXCEPT ![q] = "shake"] BY <1>4 DEF Advance
  <2>2. QueryTypes' BY <1>1, <1>4, <2>1 DEF QueryTypes
  <2>3. /\ spawned \in Nat /\ spawned' = spawned + 1 /\ shaking' = spawned + 1 /\ slot' = 0 /\ shaking' # 0
        /\ running \subseteq abandoned /\ running' = running \cup {spawned + 1} /\ abandoned' = abandoned
    <3>1. running \subseteq 1..spawned /\ running \ abandoned \subseteq {0} /\ spawned \in Nat
      BY <1>2, <1>4, LspAssumption DEF ProcessTypes, ServerIsCurrent, Peer
    <3>. QED BY <1>4, <3>1 DEF StartServer
  <2>4. ProcessTypes' BY <1>4, <2>3, LspAssumption DEF ProcessTypes, StartServer
  <2>5. DocumentTypes'
    <3>1. owes' = FALSE /\ seen' = [f \in Document |-> 0] /\ UNCHANGED <<nextId, opened, stash, pushed>>
      BY <1>4 DEF StartServer
    <3>2. seen' \in [Document -> 0..2] BY <3>1
    <3>. QED BY <3>1, <3>2 DEF DocumentTypes
  <2>6. PipeTypes'
    <3>1. Msg("initialize", 1, Nobody, Nobody) \in ToServer BY DEF Msg, ToServer
    <3>. QED BY <1>4, <3>1 DEF PipeTypes, StartServer
  <2>7. ServerIsCurrent' BY <1>1, <1>2, <1>4, <2>1, <2>3 DEF ServerIsCurrent, QueryTypes, Peer
  <2>8. \A r \in Query : phase'[r] # "read" BY <1>1, <2>1 DEF QueryTypes
  <2>9. Ids' BY <1>4, <2>8 DEF Ids, StartServer, OwnedIn, Msg
  <2>10. Noted'
    <3>1. \A f \in Document : seen'[f] = 0 BY <1>4 DEF StartServer
    <3>2. toServer' = <<Msg("initialize", 1, Nobody, Nobody)>> BY <1>4 DEF StartServer
    <3>3. OpensOnce(toServer', opened', seen') BY <3>2 DEF OpensOnce, Msg
    <3>. QED BY <1>4, <3>1, <3>3 DEF Noted
  <2>11. AnswersOwnQuery' BY <1>4 DEF AnswersOwnQuery
  <2>. QED BY <2>2, <2>4, <2>5, <2>6, <2>7, <2>9, <2>10, <2>11
<1>5. CASE slot = 0 /\ Finish(q, "error", Nobody)
           /\ UNCHANGED <<shaking, toServer, fromServer, owes, seen, running, spawned>>
  <2>1. /\ phase' = [phase EXCEPT ![q] = "done"] /\ lock' = Nobody
        /\ result' = [result EXCEPT ![q] = "error"] /\ from' = [from EXCEPT ![q] = Nobody]
    BY <1>5 DEF Finish, Advance
  <2>2. QueryTypes' BY <1>1, <1>5, <2>1 DEF QueryTypes
  <2>3. ProcessTypes' /\ DocumentTypes' /\ PipeTypes' BY <1>5 DEF ProcessTypes, DocumentTypes, PipeTypes
  <2>4. ServerIsCurrent' BY <1>1, <1>2, <1>5, <2>1 DEF ServerIsCurrent, QueryTypes, Peer
  <2>5. \A r \in Query : phase'[r] # "read" BY <1>1, <2>1 DEF QueryTypes
  <2>6. /\ OwnedIn(toServer, "request", nextId, phase', asked)
        /\ OwnedIn(fromServer, "response", nextId, phase', asked)
    BY <2>5, OwnedStays DEF Ids
  <2>7. Ids' BY <1>5, <2>5, <2>6 DEF Ids
  <2>8. Noted' BY <1>5 DEF Noted
  <2>9. AnswersOwnQuery' BY <2>1 DEF AnswersOwnQuery, QueryTypes
  <2>. QED BY <2>2, <2>3, <2>4, <2>7, <2>8, <2>9
<1>. QED BY <1>3, <1>4, <1>5

\* The reply to a request of the server is a message of no query.
LEMMA ReplyInv ==
  ASSUME SessionInv, toServer' = RespondServerRequest,
         UNCHANGED <<slot, phase, asked, nextId, opened, seen>>
  PROVE  /\ toServer' \in Seq(ToServer) /\ OpensOnce(toServer', opened', seen')
         /\ OwnedIn(toServer', "request", nextId', phase', asked')
<1>. DEFINE m == Msg("reply", 0, Nobody, Nobody)
<1>1. m \in ToServer /\ m.k = "reply"
  BY DEF Msg, ToServer
<1>2. toServer \in Seq(ToServer) /\ toServer' = Append(toServer, m)
  BY DEF SessionInv, PipeTypes, RespondServerRequest
<1>. HIDE DEF m
<1>3. toServer' \in Seq(ToServer) /\ Longer(toServer', toServer, m)
  BY <1>1, <1>2, AppendAdds
<1>4. OpensOnce(toServer', opened, seen)
  BY <1>1, <1>3, LongerOpensOnce DEF SessionInv, Noted
<1>5. OwnedIn(toServer', "request", nextId, phase, asked)
  BY <1>1, <1>3, LongerOwned DEF SessionInv, Ids
<1>. QED BY <1>3, <1>4, <1>5

\* What the client took from its pipe.
LEMMA ReadInv ==
  ASSUME SessionInv, fromServer # <<>>, fromServer' = Tail(fromServer)
  PROVE  /\ Head(fromServer) \in FromServer /\ fromServer' \in Seq(FromServer)
         /\ OwnedIn(fromServer', "response", nextId, phase, asked)
<1>1. fromServer \in Seq(FromServer)
  BY DEF SessionInv, PipeTypes
<1>2. Head(fromServer) \in FromServer /\ fromServer' \in Seq(FromServer)
  BY <1>1, TailKeeps
<1>3. OwnedIn(fromServer', "response", nextId, phase, asked)
  BY <1>1, TailIsPart, PartOwned DEF SessionInv, Ids
<1>. QED BY <1>2, <1>3
LEMMA HandshakeInv == ASSUME SessionInv, NEW q \in Query, Handshake(q) PROVE SessionInv'
<1>. USE DEF SessionInv
<1>. DEFINE m == Head(fromServer)
<1>. Nobody \notin Query
  BY LspAssumption
<1>1. /\ phase[q] = "shake" /\ lock = q /\ slot = 0 /\ shaking # 0 /\ ~closed
      /\ \A r \in Query : r # q => phase[r] \notin {"shake", "ask", "read"}
      /\ UNCHANGED <<kind, file, asks, asked, owes, seen, pushed, running, spawned, faults, closed>>
  <2>1. /\ phase[q] = "shake"
        /\ UNCHANGED <<kind, file, asks, asked, owes, seen, pushed, running, spawned, faults, closed>>
    BY DEF Handshake
  <2>2. lock = q /\ \A r \in Query : r # q => phase[r] \notin {"shake", "ask", "read"}
    BY <2>1 DEF QueryTypes
  <2>3. slot = 0 /\ shaking # 0
    BY <2>1 DEF ServerIsCurrent
  <2>4. ~closed
    BY <2>1, Zenon DEF ServerIsCurrent
  <2>. QED BY <2>1, <2>2, <2>3, <2>4
<1>2. /\ fromServer' \in Seq(FromServer) /\ OwnedIn(fromServer', "response", nextId, phase, asked)
  <2>1. CASE fromServer' = fromServer BY <2>1 DEF PipeTypes, Ids
  <2>2. CASE fromServer # <<>> /\ fromServer' = Tail(fromServer) BY <2>2, ReadInv
  <2>. QED BY <2>1, <2>2 DEF Handshake
<1>3. CASE HandshakeFails(q)
  <2>1. /\ phase' = [phase EXCEPT ![q] = "done"] /\ lock' = Nobody
        /\ result' = [result EXCEPT ![q] = "error"] /\ from' = [from EXCEPT ![q] = Nobody]
        /\ abandoned' = abandoned \cup {shaking} /\ shaking' = 0
        /\ UNCHANGED <<slot, nextId, opened, stash, toServer>>
    BY <1>3 DEF HandshakeFails, Finish, Advance
  <2>2. QueryTypes' BY <1>1, <2>1 DEF QueryTypes
  <2>3. ProcessTypes'
    <3>1. shaking \in 1..spawned /\ 0 \in 0..spawned
      BY <1>1, LspAssumption DEF ProcessTypes
    <3>. QED BY <1>1, <2>1, <3>1 DEF ProcessTypes
  <2>4. DocumentTypes' /\ PipeTypes' BY <1>1, <1>2, <2>1 DEF DocumentTypes, PipeTypes
  <2>5. ServerIsCurrent' BY <1>1, <2>1 DEF ServerIsCurrent, QueryTypes, Peer
  <2>6. \A r \in Query : phase'[r] # "read" BY <1>1, <2>1 DEF QueryTypes
  <2>7. /\ OwnedIn(toServer, "request", nextId, phase', asked)
        /\ OwnedIn(fromServer', "response", nextId, phase', asked)
    BY <1>2, <2>6, OwnedStays DEF Ids
  <2>8. Ids' BY <1>1, <2>1, <2>6, <2>7 DEF Ids
  <2>9. Noted' BY <1>1, <2>1 DEF Noted
  <2>10. AnswersOwnQuery' BY <2>1 DEF AnswersOwnQuery, QueryTypes
  <2>. QED BY <2>2, <2>3, <2>4, <2>5, <2>8, <2>9, <2>10
<1>4. CASE /\ slot' = shaking /\ shaking' = 0 /\ nextId' = 1 /\ opened' = {}
           /\ stash' = [f \in Document |-> "none"]
           /\ Advance(q, "ask") /\ UNCHANGED <<lock, result, from, abandoned, toServer>>
  <2>1. phase' = [phase EXCEPT ![q] = "ask"] BY <1>4 DEF Advance
  <2>2. QueryTypes' BY <1>1, <1>4, <2>1 DEF QueryTypes
  <2>3. ProcessTypes'
    <3>1. 0 \in 0..spawned
      BY LspAssumption DEF ProcessTypes
    <3>. QED BY <1>1, <1>4, <3>1 DEF ProcessTypes
  <2>4. DocumentTypes' /\ PipeTypes' BY <1>1, <1>2, <1>4 DEF DocumentTypes, PipeTypes, Published
  <2>5. ServerIsCurrent' BY <1>1, <1>4, <2>1 DEF ServerIsCurrent, QueryTypes, Peer
  <2>6. \A r \in Query : phase'[r] # "read" BY <1>1, <2>1 DEF QueryTypes
  <2>7. nextId = 0 /\ opened = {} BY <1>1 DEF Ids, Noted
  <2>8. /\ OwnedIn(toServer, "request", 1, phase', asked)
        /\ OwnedIn(fromServer', "response", 1, phase', asked)
    <3>1. \A i \in DOMAIN toServer : toServer[i].k = "request" => toServer[i].id \in Nat
      BY RequestIds DEF PipeTypes
    <3>2. \A i \in DOMAIN fromServer' : fromServer'[i].k = "response" => fromServer'[i].id \in Nat
      BY <1>2, ResponseIds
    <3>3. /\ OwnedIn(toServer, "request", 0, phase, asked)
          /\ OwnedIn(fromServer', "response", 0, phase, asked)
      BY <1>2, <2>7 DEF Ids
    <3>. QED BY <2>6, <3>1, <3>2, <3>3, OwnedByFirst
  <2>9. Ids' BY <1>1, <1>4, <2>6, <2>8 DEF Ids
  <2>10. Noted' BY <1>1, <1>4, <2>7 DEF Noted
  <2>11. AnswersOwnQuery' BY <1>4 DEF AnswersOwnQuery
  <2>. QED BY <2>2, <2>3, <2>4, <2>5, <2>9, <2>10, <2>11
<1>5. CASE /\ toServer' \in {toServer, RespondServerRequest}
           /\ UNCHANGED <<phase, lock, result, from, abandoned, shaking, slot, nextId, opened, stash>>
  <2>1. /\ toServer' \in Seq(ToServer) /\ OpensOnce(toServer', opened', seen')
        /\ OwnedIn(toServer', "request", nextId', phase', asked')
    <3>1. CASE toServer' = toServer BY <1>1, <1>5, <3>1 DEF PipeTypes, Noted, Ids
    <3>2. CASE toServer' = RespondServerRequest BY <1>1, <1>5, <3>2, ReplyInv
    <3>. QED BY <1>5, <3>1, <3>2
  <2>2. QueryTypes' /\ ProcessTypes' /\ DocumentTypes'
    BY <1>1, <1>5 DEF QueryTypes, ProcessTypes, DocumentTypes
  <2>3. PipeTypes' BY <1>2, <2>1 DEF PipeTypes
  <2>4. ServerIsCurrent' BY <1>1, <1>5 DEF ServerIsCurrent, Peer
  <2>5. Ids' BY <1>1, <1>2, <1>5, <2>1 DEF Ids
  <2>6. Noted' BY <1>1, <1>5, <2>1 DEF Noted
  <2>7. AnswersOwnQuery' BY <1>5 DEF AnswersOwnQuery
  <2>. QED BY <2>2, <2>3, <2>4, <2>5, <2>6, <2>7
<1>. QED BY <1>3, <1>4, <1>5 DEF Handshake

\* didOpen, when it is needed, and the request are what a query sends.
Sent(q, f) == Append(DidOpen(f), Msg("request", nextId + 1, f, q))

LEMMA AskSends ==
  ASSUME SessionInv, NEW q \in Query, phase[q] = "ask", NEW f \in Document, NEW p, NEW a,
         \A r \in Query : p[r] = "read" => r = q /\ a[r] = nextId + 1
  PROVE  /\ Sent(q, f) \in Seq(ToServer) /\ OwnedIn(Sent(q, f), "request", nextId + 1, p, a)
         /\ OpensOnce(Sent(q, f), opened \cup {f}, seen)
<1>. DEFINE o == Msg("open", 0, f, Nobody)
            m == Msg("request", nextId + 1, f, q)
<1>1. /\ o \in ToServer /\ o.k = "open" /\ o.file = f
      /\ m \in ToServer /\ m.k = "request" /\ m.id = nextId + 1 /\ m.of = q
  BY DEF Msg, ToServer, SessionInv, DocumentTypes
<1>2. /\ toServer \in Seq(ToServer) /\ nextId \in Nat /\ nextId >= 1
      /\ OwnedIn(toServer, "request", nextId, phase, asked) /\ OpensOnce(toServer, opened, seen)
      /\ f \notin opened => seen[f] = 0
  BY DEF SessionInv, PipeTypes, Ids, Noted, ServerIsCurrent, DocumentTypes
<1>3. PICK s : s = DidOpen(f)
  OBVIOUS
<1>4. /\ s \in Seq(ToServer) /\ OwnedIn(s, "request", nextId, phase, asked)
      /\ OpensOnce(s, opened \cup {f}, seen)
  <2>1. CASE f \in opened
    <3>1. s = toServer /\ opened \cup {f} = opened BY <1>3, <2>1 DEF DidOpen
    <3>. QED BY <1>2, <3>1
  <2>2. CASE f \notin opened
    <3>1. s = Append(toServer, o) BY <1>3, <2>2 DEF DidOpen
    <3>. HIDE DEF o
    <3>2. s \in Seq(ToServer) /\ Longer(s, toServer, o) BY <1>1, <1>2, <3>1, AppendAdds
    <3>3. OwnedIn(s, "request", nextId, phase, asked) BY <1>1, <1>2, <3>2, LongerOwned
    <3>4. OpensOnce(s, opened \cup {f}, seen)
      <4>1. OpensOnce(s, opened \cup {o.file}, seen) BY <1>1, <1>2, <2>2, <3>2, LongerOpensOnce
      <4>. QED BY <1>1, <4>1
    <3>. QED BY <3>2, <3>3, <3>4
  <2>. QED BY <2>1, <2>2
<1>5. PICK t : t = Sent(q, f)
  OBVIOUS
<1>6. t = Append(s, m)
  BY <1>3, <1>5 DEF Sent
<1>. HIDE DEF o, m
<1>7. t \in Seq(ToServer) /\ Longer(t, s, m)
  BY <1>1, <1>4, <1>6, AppendAdds
<1>8. OpensOnce(t, opened \cup {f}, seen)
  BY <1>1, <1>4, <1>7, LongerOpensOnce
<1>9. OwnedIn(s, "request", nextId + 1, p, a)
  <2>1. \A i \in DOMAIN s : s[i].k = "request" => s[i].id \in Nat BY <1>4, RequestIds
  <2>. QED BY <1>2, <1>4, <2>1, OwnedByNext
<1>10. OwnedIn(t, "request", nextId + 1, p, a)
  <2>1. m.id <= nextId + 1 /\ \A r \in Query : p[r] = "read" /\ m.id = a[r] => m.of = r
    BY <1>1, <1>2
  <2>. QED BY <1>7, <1>9, <2>1, LongerOwned
<1>. QED BY <1>5, <1>7, <1>8, <1>10

LEMMA AskInv == ASSUME SessionInv, NEW q \in Query, Ask(q) PROVE SessionInv'
<1>. USE DEF SessionInv
<1>1. /\ phase[q] = "ask" /\ asks' = [asks EXCEPT ![q] = IF @ < MaxAsks THEN @ + 1 ELSE @]
      /\ UNCHANGED <<kind, file, slot, shaking, stash, fromServer, owes, seen, pushed, running,
                     abandoned, spawned, faults, closed>>
  BY DEF Ask
<1>2. /\ lock = q /\ \A r \in Query : phase[r] \in {"shake", "ask", "read"} => r = q
      /\ slot # 0 /\ nextId \in Nat /\ nextId >= 1
  <2>1. lock = q /\ \A r \in Query : phase[r] \in {"shake", "ask", "read"} => r = q
    BY <1>1 DEF QueryTypes
  <2>2. slot # 0 BY <1>1 DEF ServerIsCurrent
  <2>. QED BY <2>1, <2>2 DEF Ids, DocumentTypes
<1>3. asks' \in [Query -> 0..MaxAsks]
  <2>1. \A n \in 0..MaxAsks : n < MaxAsks => n + 1 \in 0..MaxAsks BY LspAssumption
  <2>. QED BY <1>1, <2>1 DEF QueryTypes
<1>4. ProcessTypes'
  BY <1>1 DEF ProcessTypes
<1>5. CASE /\ nextId' = nextId + 1 /\ asked' = [asked EXCEPT ![q] = nextId + 1]
           /\ toServer' = Append(DidOpen(file[q]), Msg("request", nextId + 1, file[q], q))
           /\ opened' = NowOpen(file[q])
           /\ Advance(q, "read") /\ UNCHANGED <<lock, result, from>>
  <2>1. phase' = [phase EXCEPT ![q] = "read"] BY <1>5 DEF Advance
  <2>2. /\ file[q] \in Document /\ opened' = opened \cup {file[q]} /\ nextId + 1 \in Nat
        /\ \A r \in Query : phase'[r] = "read" => r = q /\ asked'[r] = nextId + 1
    BY <1>2, <1>5, <2>1 DEF QueryTypes, NowOpen
  <2>3. QueryTypes' BY <1>1, <1>2, <1>3, <1>5, <2>1 DEF QueryTypes
  <2>4. /\ toServer' \in Seq(ToServer) /\ OwnedIn(toServer', "request", nextId + 1, phase', asked')
        /\ OpensOnce(toServer', opened \cup {file[q]}, seen)
    <3>. PICK f \in Document : f = file[q]
      BY <2>2
    <3>1. PICK p, a : p = phase' /\ a = asked'
      OBVIOUS
    <3>2. \A r \in Query : p[r] = "read" => r = q /\ a[r] = nextId + 1
      BY <2>2, <3>1
    <3>3. /\ Sent(q, f) \in Seq(ToServer) /\ OwnedIn(Sent(q, f), "request", nextId + 1, p, a)
          /\ OpensOnce(Sent(q, f), opened \cup {f}, seen)
      BY <1>1, <3>2, AskSends
    <3>4. toServer' = Sent(q, f)
      BY <1>5 DEF Sent
    <3>. QED BY <3>1, <3>3, <3>4
  <2>5. OwnedIn(fromServer, "response", nextId + 1, phase', asked')
    <3>1. \A i \in DOMAIN fromServer : fromServer[i].k = "response" => fromServer[i].id \in Nat
      BY ResponseIds DEF PipeTypes
    <3>2. OwnedIn(fromServer, "response", nextId, phase, asked) BY DEF Ids
    <3>3. \A r \in Query : phase'[r] = "read" => asked'[r] = nextId + 1 BY <2>2
    <3>. QED BY <1>2, <3>1, <3>2, <3>3, OwnedByNext
  <2>6. DocumentTypes' /\ PipeTypes' BY <1>1, <1>5, <2>2, <2>4 DEF DocumentTypes, PipeTypes
  <2>7. ServerIsCurrent' BY <1>1, <1>2, <1>5, <2>1 DEF ServerIsCurrent, QueryTypes, Peer
  <2>8. Ids' BY <1>1, <1>2, <1>5, <2>2, <2>4, <2>5 DEF Ids
  <2>9. Noted' BY <1>1, <1>2, <2>2, <2>4 DEF Noted
  <2>10. AnswersOwnQuery' BY <1>5 DEF AnswersOwnQuery
  <2>. QED BY <1>4, <2>3, <2>6, <2>7, <2>8, <2>9, <2>10
<1>6. CASE /\ UNCHANGED <<nextId, asked, toServer, opened>>
           /\ IF file[q] \in opened THEN Failed(q) ELSE Finish(q, "error", Nobody)
  <2>1. Settles(q) BY <1>6, FailedSettles DEF Settles
  <2>2. QueryTypes' /\ ServerIsCurrent' /\ AnswersOwnQuery' /\ \A r \in Query : phase'[r] # "read"
    BY <1>1, <1>3, <1>6, <2>1, SettlesInv
  <2>3. DocumentTypes' /\ PipeTypes' BY <1>1, <1>6 DEF DocumentTypes, PipeTypes
  <2>4. /\ OwnedIn(toServer, "request", nextId, phase', asked)
        /\ OwnedIn(fromServer, "response", nextId, phase', asked)
    BY <2>2, OwnedStays DEF Ids
  <2>5. Ids' BY <1>1, <1>6, <2>2, <2>4 DEF Ids
  <2>6. Noted' BY <1>1, <1>6 DEF Noted
  <2>. QED BY <1>4, <2>2, <2>3, <2>5, <2>6
<1>. QED BY <1>5, <1>6 DEF Ask

LEMMA ReadMessageInv == ASSUME SessionInv, NEW q \in Query, ReadMessage(q) PROVE SessionInv'
<1>. USE DEF SessionInv
<1>1. /\ phase[q] = "read"
      /\ UNCHANGED <<kind, file, asks, asked, slot, shaking, nextId, opened, owes, seen, pushed, running,
                     abandoned, spawned, faults, closed>>
  BY DEF ReadMessage
<1>2. /\ fromServer' \in Seq(FromServer) /\ OwnedIn(fromServer', "response", nextId, phase, asked)
  <2>1. CASE fromServer' = fromServer BY <2>1 DEF PipeTypes, Ids
  <2>2. CASE fromServer # <<>> /\ fromServer' = Tail(fromServer) BY <2>2, ReadInv
  <2>. QED BY <2>1, <2>2 DEF ReadMessage
<1>3. ProcessTypes'
  BY <1>1 DEF ProcessTypes
<1>4. CASE Settles(q) /\ UNCHANGED <<toServer, stash>>
  <2>1. asks' \in [Query -> 0..MaxAsks] BY <1>1 DEF QueryTypes
  <2>2. QueryTypes' /\ ServerIsCurrent' /\ AnswersOwnQuery' /\ \A r \in Query : phase'[r] # "read"
    BY <1>1, <1>4, <2>1, SettlesInv
  <2>3. DocumentTypes' /\ PipeTypes' BY <1>1, <1>2, <1>4 DEF DocumentTypes, PipeTypes
  <2>4. /\ OwnedIn(toServer, "request", nextId, phase', asked)
        /\ OwnedIn(fromServer', "response", nextId, phase', asked)
    BY <1>2, <2>2, OwnedStays DEF Ids
  <2>5. Ids' BY <1>1, <1>4, <2>2, <2>4 DEF Ids
  <2>6. Noted' BY <1>1, <1>4 DEF Noted
  <2>. QED BY <1>3, <2>2, <2>3, <2>5, <2>6
<1>5. CASE /\ toServer' \in {toServer, RespondServerRequest} /\ stash' \in [Document -> Published]
           /\ UNCHANGED <<phase, lock, result, from>>
  <2>1. /\ toServer' \in Seq(ToServer) /\ OpensOnce(toServer', opened', seen')
        /\ OwnedIn(toServer', "request", nextId', phase', asked')
    <3>1. CASE toServer' = toServer BY <1>1, <1>5, <3>1 DEF PipeTypes, Noted, Ids
    <3>2. CASE toServer' = RespondServerRequest BY <1>1, <1>5, <3>2, ReplyInv
    <3>. QED BY <1>5, <3>1, <3>2
  <2>2. QueryTypes' /\ DocumentTypes'
    BY <1>1, <1>5 DEF QueryTypes, DocumentTypes
  <2>3. PipeTypes' BY <1>2, <2>1 DEF PipeTypes
  <2>4. ServerIsCurrent' BY <1>1, <1>5 DEF ServerIsCurrent, Peer
  <2>5. Ids' BY <1>1, <1>2, <1>5, <2>1 DEF Ids
  <2>6. Noted' BY <1>1, <1>5, <2>1 DEF Noted
  <2>7. AnswersOwnQuery' BY <1>5 DEF AnswersOwnQuery
  <2>. QED BY <1>3, <2>2, <2>3, <2>4, <2>5, <2>6, <2>7
<1>6. CASE Failed(q) /\ UNCHANGED <<toServer, stash>>
  BY <1>4, <1>6, FailedSettles
<1>7. CASE fromServer # <<>> /\ Head(fromServer).k = "response" /\ Matches(Head(fromServer), q)
           /\ Answered(q, Head(fromServer)) /\ UNCHANGED <<toServer, stash>>
  <2>1. 1 \in DOMAIN fromServer /\ Head(fromServer) = fromServer[1]
    BY <1>7, TailKeeps DEF PipeTypes
  <2>2. Settles(q) BY <1>1, <1>7, <2>1, AnsweredSettles DEF Matches
  <2>. QED BY <1>4, <1>7, <2>2
<1>8. CASE fromServer # <<>> /\ Head(fromServer).k = "push" /\ UNCHANGED <<toServer, phase, lock, result, from>>
           /\ stash' = [stash EXCEPT ![Head(fromServer).file] = Head(fromServer).val]
  <2>1. Head(fromServer) \in FromServer
    BY <1>8, TailKeeps DEF PipeTypes
  <2>2. Head(fromServer).val \in Published BY <1>8, <2>1 DEF FromServer, Published
  <2>3. stash' \in [Document -> Published] BY <1>8, <2>2 DEF DocumentTypes
  <2>. QED BY <1>5, <1>8, <2>3
<1>9. CASE toServer' \in {toServer, RespondServerRequest} /\ UNCHANGED <<stash, phase, lock, result, from>>
  BY <1>5, <1>9 DEF DocumentTypes
<1>. QED BY <1>6, <1>7, <1>8, <1>9 DEF ReadMessage
LEMMA DropSessionInv == ASSUME SessionInv, DropSession PROVE SessionInv'
<1>. USE DEF SessionInv
<1>1. /\ closed' = TRUE /\ running' = running \ {slot} /\ \A q \in Query : phase[q] \in {"idle", "done"}
      /\ UNCHANGED <<phase, kind, file, result, asks, asked, from, lock, slot, shaking, nextId, opened,
                     stash, toServer, fromServer, owes, seen, pushed, abandoned, spawned, faults>>
  BY DEF DropSession, queryVars, sessionVars
<1>2. shaking = 0
  <2>1. lock = Nobody \/ phase[lock] # "shake" BY <1>1 DEF QueryTypes
  <2>. QED BY <2>1 DEF ServerIsCurrent
<1>3. running \ abandoned \subseteq {slot}
  BY <1>2 DEF ServerIsCurrent, Peer
<1>4. ProcessTypes'
  BY <1>1 DEF ProcessTypes
<1>5. ServerIsCurrent'
  BY <1>1, <1>2, <1>3 DEF ServerIsCurrent, Peer
<1>6. QueryTypes' /\ DocumentTypes' /\ PipeTypes'
  BY <1>1 DEF QueryTypes, DocumentTypes, PipeTypes
<1>7. Ids' /\ Noted' /\ AnswersOwnQuery'
  BY <1>1 DEF Ids, Noted, AnswersOwnQuery
<1>. QED BY <1>4, <1>5, <1>6, <1>7

LEMMA SaysInv ==
  ASSUME SessionInv, NEW m \in FromServer, Says(m),
         m.k = "response" => /\ m.id <= 1 \/ m.id <= nextId
                             /\ \A q \in Query : phase[q] = "read" /\ m.id = asked[q] => m.of = q
  PROVE  fromServer' \in Seq(FromServer) /\ OwnedIn(fromServer', "response", nextId, phase, asked)
<1>1. fromServer \in Seq(FromServer) /\ fromServer' = Append(fromServer, m)
  BY DEF SessionInv, PipeTypes, Says
<1>2. fromServer' \in Seq(FromServer) /\ Longer(fromServer', fromServer, m)
  BY <1>1, AppendAdds
<1>3. OwnedIn(fromServer, "response", nextId, phase, asked)
  BY DEF SessionInv, Ids
<1>. QED BY <1>2, <1>3, LongerOwned

\* A step of the server alone keeps the invariant when its pipes do.
LEMMA ServerStepInv ==
  ASSUME SessionInv, UNCHANGED <<queryVars, sessionVars, abandoned, spawned, closed>>,
         running' \subseteq running, faults' \in 0..MaxFaults, owes' \in BOOLEAN, pushed' \in 0..MaxPush,
         toServer' \in Seq(ToServer), OwnedIn(toServer', "request", nextId, phase, asked),
         fromServer' \in Seq(FromServer), OwnedIn(fromServer', "response", nextId, phase, asked),
         seen' \in [Document -> 0..2], \A f \in Document : seen'[f] <= 1 /\ (seen'[f] # 0 => f \in opened),
         OpensOnce(toServer', opened, seen')
  PROVE  SessionInv'
<1>. USE DEF SessionInv, queryVars, sessionVars
<1>1. QueryTypes'
  BY DEF QueryTypes
<1>2. ProcessTypes'
  BY DEF ProcessTypes
<1>3. DocumentTypes' /\ PipeTypes'
  BY DEF DocumentTypes, PipeTypes
<1>4. ServerIsCurrent'
  BY DEF ServerIsCurrent, Peer
<1>5. Ids'
  BY DEF Ids
<1>6. Noted'
  BY DEF Noted
<1>7. AnswersOwnQuery'
  BY DEF AnswersOwnQuery
<1>. QED BY <1>1, <1>2, <1>3, <1>4, <1>5, <1>6, <1>7

LEMMA ServeInv == ASSUME SessionInv, Serve PROVE SessionInv'
<1>. USE DEF SessionInv
<1>. DEFINE m == Head(toServer)
<1>1. /\ toServer # <<>> /\ UNCHANGED <<queryVars, sessionVars, running, abandoned, spawned, faults, closed>>
  BY DEF Serve
<1>2. /\ toServer \in Seq(ToServer) /\ OwnedIn(toServer, "request", nextId, phase, asked)
      /\ fromServer \in Seq(FromServer) /\ OwnedIn(fromServer, "response", nextId, phase, asked)
      /\ OpensOnce(toServer, opened, seen) /\ \A f \in Document : seen[f] <= 1 /\ (seen[f] # 0 => f \in opened)
      /\ seen \in [Document -> 0..2] /\ faults \in 0..MaxFaults /\ owes \in BOOLEAN /\ pushed \in 0..MaxPush
  BY DEF PipeTypes, Ids, Noted, DocumentTypes, ProcessTypes
<1>3. 1 \in DOMAIN toServer /\ m = toServer[1] /\ m \in ToServer
  BY <1>1, <1>2, TailKeeps
<1>4. CASE ~owes /\ toServer' = Tail(toServer) /\ UNCHANGED <<owes, pushed>>
           /\ \/ m.k = "initialize" /\ Says(Reply("response", 1, Nobody, Nobody, "found")) /\ UNCHANGED seen
              \/ m.k = "open" /\ seen' = [seen EXCEPT ![m.file] = IF @ < 2 THEN @ + 1 ELSE @]
                 /\ UNCHANGED fromServer
              \/ /\ m.k = "request" /\ UNCHANGED seen
                 /\ \E v \in {"found", "empty", "error"} : Says(Reply("response", m.id, m.file, m.of, v))
              \/ m.k = "reply" /\ UNCHANGED <<seen, fromServer>>
  <2>1. /\ toServer' \in Seq(ToServer) /\ OwnedIn(toServer', "request", nextId, phase, asked)
        /\ OpensOnce(toServer', opened, seen)
        /\ m.k = "open" => \A i \in DOMAIN toServer' : toServer'[i].k = "open" => toServer'[i].file # m.file
    <3>1. PICK t : t = Tail(toServer) OBVIOUS
    <3>2. t \in Seq(ToServer) /\ Part(t, toServer) BY <1>1, <1>2, <3>1, TailKeeps, TailIsPart
    <3>3. OwnedIn(t, "request", nextId, phase, asked) BY <1>2, <3>2, PartOwned
    <3>4. OpensOnce(Tail(toServer), opened, seen)
          /\ (m.k = "open" => \A i \in DOMAIN Tail(toServer) :
                                 Tail(toServer)[i].k = "open" => Tail(toServer)[i].file # m.file)
      BY <1>1, <1>2, TailOpensOnce
    <3>. QED BY <1>4, <3>1, <3>2, <3>3, <3>4
  <2>2. CASE m.k = "open" /\ seen' = [seen EXCEPT ![m.file] = IF @ < 2 THEN @ + 1 ELSE @]
             /\ UNCHANGED fromServer
    <3>1. m.file \in Document BY <1>3, <2>2 DEF ToServer
    <3>2. m.file \in opened /\ seen[m.file] = 0 BY <1>2, <1>3, <2>2 DEF OpensOnce
    <3>3. seen' = [seen EXCEPT ![m.file] = 1] BY <2>2, <3>2
    <3>4. seen' \in [Document -> 0..2] /\ \A f \in Document : seen'[f] <= 1 /\ (seen'[f] # 0 => f \in opened)
      BY <1>2, <3>1, <3>2, <3>3
    <3>5. OpensOnce(toServer', opened, seen')
      <4>. HIDE DEF m
      <4>1. \A i \in DOMAIN toServer' : toServer'[i].k = "open" => seen'[toServer'[i].file] = 0
        <5>. SUFFICES ASSUME NEW i \in DOMAIN toServer', toServer'[i].k = "open"
                      PROVE  seen'[toServer'[i].file] = 0
          OBVIOUS
        <5>1. toServer'[i] \in ToServer BY <2>1, ElementOfSeq
        <5>2. toServer'[i].file \in Document /\ toServer'[i].file # m.file BY <2>1, <2>2, <5>1 DEF ToServer
        <5>3. seen[toServer'[i].file] = 0 BY <2>1 DEF OpensOnce
        <5>. QED BY <1>2, <3>3, <5>2, <5>3
      <4>. QED BY <2>1, <4>1 DEF OpensOnce
    <3>. QED BY <1>1, <1>2, <1>4, <2>1, <2>2, <3>4, <3>5, ServerStepInv
  <2>3. CASE seen' = seen /\ fromServer' \in Seq(FromServer)
             /\ OwnedIn(fromServer', "response", nextId, phase, asked)
    BY <1>1, <1>2, <1>4, <2>1, <2>3, ServerStepInv
  <2>4. CASE Says(Reply("response", 1, Nobody, Nobody, "found")) /\ UNCHANGED seen
    <3>1. PICK r : r = Reply("response", 1, Nobody, Nobody, "found") OBVIOUS
    <3>2. r \in FromServer /\ r.id = 1 BY <3>1 DEF Reply, FromServer
    <3>3. \A q \in Query : phase[q] = "read" => asked[q] # 1 BY DEF Ids
    <3>4. Says(r) BY <2>4, <3>1
    <3>. QED BY <2>3, <2>4, <3>2, <3>3, <3>4, SaysInv
  <2>5. ASSUME NEW v \in {"found", "empty", "error"}, m.k = "request",
               Says(Reply("response", m.id, m.file, m.of, v)), seen' = seen
        PROVE  SessionInv'
    <3>1. PICK r : r = Reply("response", m.id, m.file, m.of, v) OBVIOUS
    <3>2. m.id \in Nat /\ m.file \in Document \cup {Nobody} /\ m.of \in Query \cup {Nobody}
      BY <1>3, <2>5 DEF ToServer
    <3>3. r \in FromServer /\ r.id = m.id /\ r.of = m.of BY <3>1, <3>2 DEF Reply, FromServer
    <3>4. /\ m.id <= 1 \/ m.id <= nextId
          /\ \A q \in Query : phase[q] = "read" /\ m.id = asked[q] => m.of = q
      BY <1>2, <1>3, <2>5 DEF OwnedIn
    <3>5. Says(r) BY <2>5, <3>1
    <3>6. fromServer' \in Seq(FromServer) /\ OwnedIn(fromServer', "response", nextId, phase, asked)
      BY <3>3, <3>4, <3>5, SaysInv
    <3>. QED BY <2>3, <2>5, <3>6
  <2>. QED BY <1>2, <1>4, <2>2, <2>3, <2>4, <2>5
<1>5. CASE /\ pushed < MaxPush /\ pushed' = pushed + 1
           /\ owes' = TRUE /\ Says(Reply("request", 0, Nobody, Nobody, "none")) /\ UNCHANGED <<toServer, seen>>
  <2>1. PICK r : r = Reply("request", 0, Nobody, Nobody, "none") OBVIOUS
  <2>2. r \in FromServer /\ r.k = "request" BY <2>1 DEF Reply, FromServer
  <2>3. Says(r) BY <1>5, <2>1
  <2>4. fromServer' \in Seq(FromServer) /\ OwnedIn(fromServer', "response", nextId, phase, asked)
    BY <2>2, <2>3, SaysInv
  <2>5. pushed' \in 0..MaxPush BY <1>2, <1>5, LspAssumption
  <2>. QED BY <1>1, <1>2, <1>5, <2>4, <2>5, ServerStepInv
<1>6. CASE /\ owes' = FALSE /\ UNCHANGED <<fromServer, seen, pushed>>
           /\ \E i \in DOMAIN toServer : toServer[i].k = "reply" /\ toServer' = Without(toServer, i)
  <2>1. PICK i \in DOMAIN toServer : toServer' = Without(toServer, i) BY <1>6
  <2>2. PICK t : t = Without(toServer, i) OBVIOUS
  <2>3. t \in Seq(ToServer) /\ Part(t, toServer) BY <1>2, <2>2, WithoutKeeps, WithoutIsPart
  <2>4. OwnedIn(t, "request", nextId, phase, asked) BY <1>2, <2>3, PartOwned
  <2>5. OpensOnce(t, opened, seen) BY <1>2, <2>2, WithoutOpensOnce
  <2>. QED BY <1>1, <1>2, <1>6, <2>1, <2>2, <2>3, <2>4, <2>5, ServerStepInv
<1>. QED BY <1>4, <1>5, <1>6 DEF Serve

LEMMA ServerAloneInv == ASSUME SessionInv, PublishDiagnostics \/ ServerFails PROVE SessionInv'
<1>. USE DEF SessionInv
<1>1. /\ toServer \in Seq(ToServer) /\ OwnedIn(toServer, "request", nextId, phase, asked)
      /\ fromServer \in Seq(FromServer) /\ OwnedIn(fromServer, "response", nextId, phase, asked)
      /\ OpensOnce(toServer, opened, seen) /\ \A f \in Document : seen[f] <= 1 /\ (seen[f] # 0 => f \in opened)
      /\ seen \in [Document -> 0..2] /\ faults \in 0..MaxFaults /\ owes \in BOOLEAN /\ pushed \in 0..MaxPush
  BY DEF PipeTypes, Ids, Noted, DocumentTypes, ProcessTypes
<1>2. CASE PublishDiagnostics
  <2>1. PICK f \in Document, v \in {"clean", "issues"} : Says(Reply("push", 0, f, Nobody, v))
    BY <1>2 DEF PublishDiagnostics
  <2>2. PICK r : r = Reply("push", 0, f, Nobody, v) OBVIOUS
  <2>3. r \in FromServer /\ r.k = "push" BY <2>2 DEF Reply, FromServer
  <2>4. Says(r) BY <2>1, <2>2
  <2>5. fromServer' \in Seq(FromServer) /\ OwnedIn(fromServer', "response", nextId, phase, asked)
    BY <2>3, <2>4, SaysInv
  <2>6. /\ pushed' \in 0..MaxPush
        /\ UNCHANGED <<queryVars, sessionVars, toServer, owes, seen, running, abandoned, spawned, faults, closed>>
    BY <1>1, <1>2, LspAssumption DEF PublishDiagnostics
  <2>. QED BY <1>1, <2>5, <2>6, ServerStepInv
<1>3. CASE ServerFails
  <2>1. /\ faults' \in 0..MaxFaults
        /\ UNCHANGED <<queryVars, sessionVars, toServer, owes, seen, pushed, abandoned, spawned, closed>>
    BY <1>1, <1>3, LspAssumption DEF ServerFails
  <2>2. running' \subseteq running BY <1>3 DEF ServerFails
  <2>3. fromServer' \in Seq(FromServer) /\ OwnedIn(fromServer', "response", nextId, phase, asked)
    <3>1. CASE fromServer' = fromServer BY <1>1, <3>1
    <3>2. CASE Says(Reply("garbled", 0, Nobody, Nobody, "none"))
      <4>1. PICK r : r = Reply("garbled", 0, Nobody, Nobody, "none") OBVIOUS
      <4>2. r \in FromServer /\ r.k = "garbled" BY <4>1 DEF Reply, FromServer
      <4>3. Says(r) BY <3>2, <4>1
      <4>. QED BY <4>2, <4>3, SaysInv
    <3>. QED BY <1>3, <3>1, <3>2 DEF ServerFails
  <2>. QED BY <1>1, <2>1, <2>2, <2>3, ServerStepInv
<1>. QED BY <1>2, <1>3

LEMMA LspStep == SessionInv /\ [LspNext]_lspVars => SessionInv'
<1>. SUFFICES ASSUME SessionInv, [LspNext]_lspVars PROVE SessionInv'
  OBVIOUS
<1>1. CASE UNCHANGED lspVars
  <2>1. /\ UNCHANGED <<queryVars, sessionVars, abandoned, spawned, closed, running, faults, owes, pushed>>
        /\ UNCHANGED <<toServer, fromServer, seen>>
    BY <1>1 DEF lspVars, serverVars
  <2>2. QueryTypes' /\ ProcessTypes' /\ DocumentTypes' /\ PipeTypes'
    BY <2>1 DEF SessionInv, QueryTypes, ProcessTypes, DocumentTypes, PipeTypes, queryVars, sessionVars
  <2>3. ServerIsCurrent' /\ Ids' /\ Noted' /\ AnswersOwnQuery'
    BY <2>1 DEF SessionInv, ServerIsCurrent, Peer, Ids, Noted, AnswersOwnQuery, queryVars, sessionVars
  <2>. QED BY <2>2, <2>3 DEF SessionInv
<1>2. CASE LspNext
  BY <1>2, BeginInv, AcquireInv, HandshakeInv, AskInv, ReadMessageInv, DropSessionInv, ServeInv,
     ServerAloneInv DEF LspNext, QueryStep
<1>. QED BY <1>1, <1>2

LEMMA InvMeansOwn == SessionInv => LspAnswersAreOwn
<1>. SUFFICES ASSUME SessionInv PROVE LspAnswersAreOwn
  OBVIOUS
<1>1. LspTypeOK
  BY TypeParts DEF SessionInv
<1>2. Cardinality(running \ abandoned) <= 1
  <2>1. running \ abandoned \subseteq {Peer} BY DEF SessionInv, ServerIsCurrent
  <2>2. IsFiniteSet({Peer}) /\ Cardinality({Peer}) = 1 BY FS_Singleton
  <2>. QED BY <2>1, <2>2, FS_Subset, FS_CardinalityType
<1>3. OneServer
  BY <1>2 DEF SessionInv, ServerIsCurrent, OneServer
<1>4. OpenedOnce
  BY DEF SessionInv, Noted, OpenedOnce
<1>. QED BY <1>1, <1>3, <1>4 DEF SessionInv, LspAnswersAreOwn

\* LspSession: one server at a time, a document opened once in it, and each query
\* gets the answer to its own request, whatever earlier queries left in the pipe.
THEOREM LspAnswersAlwaysOwn == LspSpec => []LspAnswersAreOwn
<1>1. LspInit => SessionInv
  BY InitInv
<1>2. SessionInv /\ [LspNext]_lspVars => SessionInv'
  BY LspStep
<1>3. SessionInv => LspAnswersAreOwn
  BY InvMeansOwn
<1>. QED BY <1>1, <1>2, <1>3, PTL DEF LspSpec

-----------------------------------------------------------------------------
(* The file tools: loops, and what they compute. *)

\* A set of numbers has a least one.
LEMMA LeastOfNaturals ==
  ASSUME NEW S, S \subseteq Nat, S # {}
  PROVE  \E n \in S : \A m \in S : n <= m
<1>. DEFINE R == OpToRel(<, Nat)
<1>1. \A m, n \in Nat : <<m, n>> \in R <=> m < n
  BY DEF OpToRel
<1>2. IsWellFoundedOn(R, Nat)
  BY NatLessThanWellFounded
<1>. HIDE DEF R
<1>3. PICK n \in S : \A m \in S : ~(<<m, n>> \in R)
  BY <1>2, WFMin
<1>4. \A m \in S : ~(m < n)
  BY <1>1, <1>3, Zenon
<1>. QED
  BY <1>4

\* A bounded sequence is a sequence of at most so many elements.
LEMMA BoundedSeqs ==
  ASSUME NEW S, NEW n \in Nat, NEW s \in BoundedSeq(S, n)
  PROVE  s \in Seq(S) /\ Len(s) <= n
<1>1. PICK m \in 0..n : s \in [1..m -> S]
  BY DEF BoundedSeq, SeqOf
<1>2. s \in Seq(S) /\ Len(s) = m
  BY <1>1
<1>. QED
  BY <1>2

\* The loop over equal lines stops somewhere, from the front ...
LEMMA LoopStops ==
  ASSUME NEW a \in Seq(Line), NEW b \in Seq(Line), NEW n \in Nat, n <= Len(a), n <= Len(b)
  PROVE  \E k \in 0..n : StopsAt(a, b, n, k)
<1>. DEFINE T == {k \in 0..n : k = n \/ a[k + 1] # b[k + 1]}
<1>1. PICK m \in T : \A k \in T : m <= k
  <2>1. T \subseteq Nat /\ n \in T
    OBVIOUS
  <2>. HIDE DEF T
  <2>. QED
    BY <2>1, LeastOfNaturals
<1>2. m \in 0..n /\ (m < n => a[m + 1] # b[m + 1])
  OBVIOUS
<1>3. ASSUME NEW i \in 1..m PROVE a[i] = b[i]
  <2>1. i - 1 \in 0..n /\ i - 1 # n /\ i - 1 < m
    BY <1>2
  <2>2. ASSUME i - 1 \in T PROVE FALSE
    <3>1. m <= i - 1
      BY <1>1, <2>2
    <3>. QED
      BY <2>1, <3>1, <1>2
  <2>. QED
    BY <2>1, <2>2
<1>. QED
  BY <1>2, <1>3 DEF StopsAt

\* ... and from the back.
LEMMA LoopStopsBack ==
  ASSUME NEW a \in Seq(Line), NEW b \in Seq(Line), NEW n \in Nat, n <= Len(a), n <= Len(b)
  PROVE  \E k \in 0..n : StopsBack(a, b, n, k)
<1>. DEFINE T == {k \in 0..n : k = n \/ a[Len(a) - k] # b[Len(b) - k]}
<1>1. PICK m \in T : \A k \in T : m <= k
  <2>1. T \subseteq Nat /\ n \in T
    OBVIOUS
  <2>. HIDE DEF T
  <2>. QED
    BY <2>1, LeastOfNaturals
<1>2. m \in 0..n /\ (m < n => a[Len(a) - m] # b[Len(b) - m])
  OBVIOUS
<1>3. ASSUME NEW i \in 0..(m - 1) PROVE a[Len(a) - i] = b[Len(b) - i]
  <2>1. i \in 0..n /\ i # n /\ i < m
    BY <1>2
  <2>2. i \notin T
    BY <1>1, <2>1
  <2>. QED
    BY <2>1, <2>2
<1>. QED
  BY <1>2, <1>3 DEF StopsBack

LEMMA CommonLines ==
  ASSUME NEW a \in Seq(Line), NEW b \in Seq(Line)
  PROVE  /\ Common(a, b) \in Nat /\ Common(a, b) <= Len(a) /\ Common(a, b) <= Len(b)
         /\ Prefix(a, b) \in 0..Common(a, b)
         /\ StopsAt(a, b, Common(a, b), Prefix(a, b))
         /\ Suffix(a, b) \in 0..(Common(a, b) - Prefix(a, b))
         /\ StopsBack(a, b, Common(a, b) - Prefix(a, b), Suffix(a, b))
<1>1. Common(a, b) \in Nat /\ Common(a, b) <= Len(a) /\ Common(a, b) <= Len(b)
  BY DEF Common, Least
<1>2. Prefix(a, b) \in 0..Common(a, b) /\ StopsAt(a, b, Common(a, b), Prefix(a, b))
  <2>1. \E k \in 0..Common(a, b) : StopsAt(a, b, Common(a, b), k)
    BY <1>1, LoopStops
  <2>. QED
    BY <2>1, Zenon DEF Prefix
<1>3. /\ Suffix(a, b) \in 0..(Common(a, b) - Prefix(a, b))
      /\ StopsBack(a, b, Common(a, b) - Prefix(a, b), Suffix(a, b))
  <2>. DEFINE n == Common(a, b) - Prefix(a, b)
  <2>1. n \in Nat /\ n <= Len(a) /\ n <= Len(b)
    BY <1>1, <1>2
  <2>2. \E k \in 0..n : StopsBack(a, b, n, k)
    BY <2>1, LoopStopsBack
  <2>. QED
    BY <2>2, Zenon DEF Suffix
<1>. QED
  BY <1>1, <1>2, <1>3

LEMMA JoinedLines ==
  \A u, v, w \in Seq(Line) : (u \o v) \o w = u \o (v \o w)
<1>. SUFFICES ASSUME NEW u \in Seq(Line), NEW v \in Seq(Line), NEW w \in Seq(Line)
              PROVE  (u \o v) \o w = u \o (v \o w)
  OBVIOUS
<1>. QED
  BY ConcatAssociative, SMTT(30)

\* Two sequences are equal when each part is.
LEMMA Split ==
  ASSUME NEW s \in Seq(Line), NEW i \in 0..Len(s), NEW j \in i..Len(s)
  PROVE  s = SubSeq(s, 1, i) \o SubSeq(s, i + 1, j) \o SubSeq(s, j + 1, Len(s))
<1>1. SubSeq(s, 1, i) \o SubSeq(s, i + 1, j) = SubSeq(s, 1, j)
  BY ConcatAdjacentSubSeq
<1>2. SubSeq(s, 1, j) \o SubSeq(s, j + 1, Len(s)) = SubSeq(s, 1, Len(s))
  <2>1. 1 \in 1..(Len(s) + 1) /\ j \in 0..Len(s) /\ Len(s) \in j..Len(s) /\ 1 - 1 = 0
    OBVIOUS
  <2>. QED
    BY <2>1, ConcatAdjacentSubSeq
<1>. QED
  BY <1>1, <1>2, SubSeqFull

LEMMA DiffPatches ==
  ASSUME NEW a \in Seq(Line), NEW b \in Seq(Line), a # b
  PROVE  /\ LineDiff(a, b) \in Seq(Hunk) /\ Len(LineDiff(a, b)) = 1
         /\ LET h == LineDiff(a, b)[1] IN
              /\ a = Patched(a, [h EXCEPT !.added = h.removed]) /\ b = Patched(a, h)
              /\ Len(h.lead) <= ContextLines /\ Len(h.trail) <= ContextLines
<1>. DEFINE p == Prefix(a, b)  q == Suffix(a, b)  end == Len(a) - q
            removed == SubSeq(a, p + 1, end)  added == SubSeq(b, p + 1, Len(b) - q)
            start == Minus(p, ContextLines)  to == Least(end + ContextLines, Len(a))
            lead == SubSeq(a, start + 1, p)  trail == SubSeq(a, end + 1, to)
            h == [skip |-> start, lead |-> lead, removed |-> removed, added |-> added,
                  trail |-> trail, rest |-> Len(a) - to]
<1>0. Len(a) \in Nat /\ Len(b) \in Nat /\ ContextLines \in Nat
  BY WorkspaceAssumption
<1>1. /\ p \in Nat /\ q \in Nat /\ p + q <= Len(a) /\ p + q <= Len(b)
      /\ \A i \in 1..p : a[i] = b[i]
      /\ \A i \in 0..(q - 1) : a[Len(a) - i] = b[Len(b) - i]
  <2>1. p \in 0..Common(a, b) /\ q \in 0..(Common(a, b) - p) /\ Common(a, b) \in Nat
        /\ Common(a, b) <= Len(a) /\ Common(a, b) <= Len(b)
    BY CommonLines
  <2>2. StopsAt(a, b, Common(a, b), p) /\ StopsBack(a, b, Common(a, b) - p, q)
    BY CommonLines
  <2>. HIDE DEF p, q
  <2>3. p \in Nat /\ q \in Nat /\ p + q <= Len(a) /\ p + q <= Len(b)
    BY <1>0, <2>1
  <2>. QED
    BY <2>2, <2>3, Zenon DEF StopsAt, StopsBack
<1>2. /\ end \in p..Len(a) /\ start \in 0..p /\ to \in end..Len(a)
      /\ p - start <= ContextLines /\ to - end <= ContextLines
  <2>. HIDE DEF p, q
  <2>1. end \in p..Len(a)
    BY <1>0, <1>1
  <2>. HIDE DEF end
  <2>. QED
    BY <1>0, <1>1, <2>1 DEF Minus, Least
<1>. HIDE DEF p, q, end, start, to
<1>. USE <1>0
<1>3. SubSeq(a, 1, p) = SubSeq(b, 1, p)
  BY <1>1
<1>4. SubSeq(a, end + 1, Len(a)) = SubSeq(b, Len(b) - q + 1, Len(b))
  <2>. DEFINE u == SubSeq(a, end + 1, Len(a))  v == SubSeq(b, Len(b) - q + 1, Len(b))
  <2>1. u \in Seq(Line) /\ v \in Seq(Line) /\ Len(u) = q /\ Len(v) = q
    BY <1>1 DEF end
  <2>2. ASSUME NEW i \in 1..q PROVE u[i] = v[i]
    <3>1. u[i] = a[Len(a) - (q - i)] /\ v[i] = b[Len(b) - (q - i)]
      BY <1>1, <2>1 DEF end
    <3>2. q - i \in 0..(q - 1)
      BY <1>1
    <3>. QED
      BY <1>1, <3>1, <3>2
  <2>. HIDE DEF u, v
  <2>3. u = v
    BY <2>1, <2>2, SeqEqual
  <2>. QED
    BY <2>3 DEF u, v
<1>5. removed \in Seq(Line) /\ added \in Seq(Line) /\ lead \in Seq(Line) /\ trail \in Seq(Line)
  BY <1>1, <1>2
<1>6. a = SubSeq(a, 1, p) \o removed \o SubSeq(a, end + 1, Len(a))
  <2>1. p \in 0..Len(a)
    BY <1>1
  <2>. QED
    BY <1>2, <2>1, Split
<1>7. b = SubSeq(a, 1, p) \o added \o SubSeq(a, end + 1, Len(a))
  <2>1. b = SubSeq(b, 1, p) \o added \o SubSeq(b, Len(b) - q + 1, Len(b))
    <3>1. Len(b) - q \in p..Len(b) /\ p \in 0..Len(b)
      BY <1>1
    <3>. QED
      BY <3>1, Split
  <2>. QED
    BY <2>1, <1>3, <1>4
<1>8. ~(removed = <<>> /\ added = <<>>)
  BY <1>6, <1>7
<1>9. LineDiff(a, b) = <<h>>
  BY <1>8 DEF LineDiff, p, q, end, start, to
<1>10. SubSeq(a, 1, p) = SubSeq(a, 1, start) \o lead
  <2>1. 1 \in 1..(Len(a) + 1) /\ start \in (1 - 1)..Len(a) /\ p \in start..Len(a)
    BY <1>1, <1>2
  <2>. QED
    BY <2>1, ConcatAdjacentSubSeq
<1>11. SubSeq(a, end + 1, Len(a)) = trail \o SubSeq(a, to + 1, Len(a))
  <2>. DEFINE after1 == end + 1
  <2>1. after1 \in 1..(Len(a) + 1) /\ to \in (after1 - 1)..Len(a) /\ Len(a) \in to..Len(a)
    BY <1>1, <1>2
  <2>. HIDE DEF after1
  <2>2. SubSeq(a, after1, to) \o SubSeq(a, to + 1, Len(a)) = SubSeq(a, after1, Len(a))
    BY <2>1, ConcatAdjacentSubSeq
  <2>. QED
    BY <2>2 DEF after1
<1>12. ASSUME NEW m \in Seq(Line)
       PROVE  SubSeq(a, 1, p) \o m \o SubSeq(a, end + 1, Len(a))
                = SubSeq(a, 1, start) \o lead \o m \o trail \o SubSeq(a, to + 1, Len(a))
  <2>. DEFINE x == SubSeq(a, 1, start)  y == SubSeq(a, to + 1, Len(a))
  <2>1. x \in Seq(Line) /\ y \in Seq(Line)
    BY <1>1, <1>2
  <2>. HIDE DEF x, y, lead, trail
  <2>2. (x \o lead) \o m \in Seq(Line)
    BY <1>5, <2>1, ConcatProperties
  <2>3. ((x \o lead) \o m) \o (trail \o y) = (((x \o lead) \o m) \o trail) \o y
    <3>. DEFINE z == (x \o lead) \o m
    <3>1. z \in Seq(Line) /\ trail \in Seq(Line) /\ y \in Seq(Line)
      BY <1>5, <2>1, <2>2
    <3>. HIDE DEF z
    <3>2. \A v, w \in Seq(Line) : (z \o v) \o w = z \o (v \o w)
      BY <3>1, JoinedLines, Zenon
    <3>3. (z \o trail) \o y = z \o (trail \o y)
      BY <3>1, <3>2, Zenon
    <3>. QED
      BY <3>3 DEF z
  <2>. QED
    BY <1>10, <1>11, <2>3 DEF x, y
<1>13. Len(a) - (Len(a) - to) + 1 = to + 1
  BY <1>2
<1>14. b = Patched(a, h)
  BY <1>5, <1>7, <1>12, <1>13 DEF Patched
<1>15. a = Patched(a, [h EXCEPT !.added = h.removed])
  BY <1>5, <1>6, <1>12, <1>13 DEF Patched
<1>16. Len(lead) <= ContextLines /\ Len(trail) <= ContextLines
  BY <1>1, <1>2
<1>17. h \in Hunk
  BY <1>2, <1>5 DEF Hunk
<1>. HIDE DEF h
<1>18. LineDiff(a, b) \in Seq(Hunk) /\ Len(LineDiff(a, b)) = 1 /\ LineDiff(a, b)[1] = h
  BY <1>9, <1>17
<1>19. Len(h.lead) <= ContextLines /\ Len(h.trail) <= ContextLines
  BY <1>16 DEF h
<1>. QED
  BY <1>14, <1>15, <1>18, <1>19
-----------------------------------------------------------------------------
(* The cut of an output. *)

\* Going back from k, a boundary is found.
LEMMA BoundaryBelow ==
  ASSUME NEW s \in Seq(Nat), NEW k \in Nat
  PROVE  \E m \in 0..k : IsBoundary(s, m) /\ \A j \in (m + 1)..k : ~IsBoundary(s, j)
<1>. DEFINE T == {d \in 0..k : IsBoundary(s, k - d)}
<1>1. PICK d \in T : \A c \in T : d <= c
  <2>1. T \subseteq Nat /\ k \in T
    BY DEF IsBoundary
  <2>. HIDE DEF T
  <2>. QED
    BY <2>1, LeastOfNaturals
<1>2. d \in 0..k /\ k - d \in 0..k /\ IsBoundary(s, k - d)
  OBVIOUS
<1>3. ASSUME NEW j \in (k - d + 1)..k PROVE ~IsBoundary(s, j)
  <2>1. k - j \in 0..k /\ k - j < d /\ k - (k - j) = j
    BY <1>2
  <2>2. k - j \in T => d <= k - j
    BY <1>1
  <2>3. k - j \notin T
    BY <1>2, <2>1, <2>2
  <2>. QED
    BY <2>1, <2>3
<1>. QED
  BY <1>2, <1>3

Loop(s, f) == f = [k \in 0..InlineLimit |-> IF IsBoundary(s, k) THEN k ELSE f[k - 1]]

\* The loop of the cut computes the last boundary within the limit.
LEMMA CutIsBoundary ==
  ASSUME NEW s \in Seq(Nat)
  PROVE  /\ Cut(s) \in 0..InlineLimit /\ IsBoundary(s, Cut(s))
         /\ \A j \in (Cut(s) + 1)..InlineLimit : ~IsBoundary(s, j)
<1>. DEFINE Found(k, m) == m \in 0..k /\ IsBoundary(s, m) /\ \A j \in (m + 1)..k : ~IsBoundary(s, j)
            g == [k \in 0..InlineLimit |-> CHOOSE m \in 0..k : Found(k, m)]
            back == CHOOSE f : Loop(s, f)
<1>0. InlineLimit \in Nat
  BY WorkspaceAssumption
<1>1. ASSUME NEW k \in 0..InlineLimit PROVE Found(k, g[k])
  <2>1. \E m \in 0..k : Found(k, m)
    <3>1. k \in Nat
      BY <1>0
    <3>2. PICK m \in 0..k : IsBoundary(s, m) /\ \A j \in (m + 1)..k : ~IsBoundary(s, j)
      BY <3>1, BoundaryBelow
    <3>. QED
      BY <3>2
  <2>2. g[k] = CHOOSE m \in 0..k : Found(k, m)
    OBVIOUS
  <2>. HIDE DEF Found, g
  <2>. QED
    BY <2>1, <2>2, Zenon
<1>2. ASSUME NEW k \in Nat, NEW m \in Nat, NEW n \in Nat, Found(k, m), Found(k, n) PROVE m = n
  <2>1. CASE m < n
    BY <1>2, <2>1
  <2>2. CASE n < m
    BY <1>2, <2>2
  <2>. QED
    BY <2>1, <2>2
<1>. HIDE DEF g
<1>3. ASSUME NEW k \in 0..InlineLimit
      PROVE  g[k] = IF IsBoundary(s, k) THEN k ELSE g[k - 1]
  <2>1. CASE IsBoundary(s, k)
    <3>1. Found(k, k)
      BY <1>0, <2>1
    <3>2. Found(k, g[k]) /\ g[k] \in Nat /\ k \in Nat
      BY <1>0, <1>1
    <3>. HIDE DEF Found
    <3>. QED
      BY <1>2, <2>1, <3>1, <3>2
  <2>2. CASE ~IsBoundary(s, k)
    <3>1. k # 0 /\ k - 1 \in 0..InlineLimit
      BY <1>0, <2>2 DEF IsBoundary
    <3>2. Found(k - 1, g[k - 1])
      BY <1>1, <3>1
    <3>3. Found(k, g[k - 1])
      BY <1>0, <2>2, <3>1, <3>2
    <3>4. Found(k, g[k]) /\ g[k] \in Nat /\ g[k - 1] \in Nat /\ k \in Nat
      BY <1>0, <1>1, <3>3
    <3>. HIDE DEF Found
    <3>. QED
      BY <1>2, <2>2, <3>3, <3>4
  <2>. QED
    BY <2>1, <2>2
<1>4. Loop(s, g)
  <2>1. g = [k \in 0..InlineLimit |-> g[k]]
    BY DEF g
  <2>. QED
    BY <1>3, <2>1 DEF Loop
<1>5. Loop(s, back)
  BY <1>4, Zenon
<1>6. Cut(s) = back[InlineLimit]
  BY DEF Cut, Loop
<1>. HIDE DEF back
<1>7. \A k \in 0..InlineLimit : back[k] = IF IsBoundary(s, k) THEN k ELSE back[k - 1]
  BY <1>5 DEF Loop
<1>8. \A k \in 0..InlineLimit : back[k] = g[k]
  <2>. DEFINE T == {k \in 0..InlineLimit : back[k] # g[k]}
  <2>. SUFFICES ASSUME T # {} PROVE FALSE
    OBVIOUS
  <2>1. PICK k \in T : \A j \in T : k <= j
    <3>1. T \subseteq Nat
      BY <1>0
    <3>. HIDE DEF T
    <3>. QED
      BY <3>1, LeastOfNaturals
  <2>2. k \in 0..InlineLimit /\ back[k] # g[k]
    OBVIOUS
  <2>3. ~IsBoundary(s, k)
    BY <1>3, <1>7, <2>2
  <2>4. k # 0 /\ k - 1 \in 0..InlineLimit
    BY <1>0, <2>2, <2>3 DEF IsBoundary
  <2>5. k - 1 \notin T
    <3>1. k - 1 \in T => k <= k - 1
      BY <2>1
    <3>. HIDE DEF T
    <3>. QED
      BY <2>2, <3>1, <1>0
  <2>6. back[k - 1] = g[k - 1]
    BY <2>4, <2>5
  <2>. QED
    BY <1>3, <1>7, <2>2, <2>3, <2>6
<1>9. Found(InlineLimit, Cut(s))
  BY <1>0, <1>1, <1>6, <1>8
<1>. QED
  BY <1>9

\* Characters end one after the other.
LEMMA EndsIncrease ==
  ASSUME NEW s \in Seq(Nat), IsText(s)
  PROVE  \A i \in DOMAIN s : s[i] > 0 /\ \A j \in 1..i : s[j] <= s[i]
<1>. DEFINE P(i) == s[i] > 0 /\ \A j \in 1..i : s[j] <= s[i]
            T == {i \in DOMAIN s : ~P(i)}
<1>. SUFFICES ASSUME T # {} PROVE FALSE
  OBVIOUS
<1>1. PICK i \in T : \A j \in T : i <= j
  <2>1. T \subseteq Nat
    OBVIOUS
  <2>. HIDE DEF T
  <2>. QED
    BY <2>1, LeastOfNaturals
<1>2. i \in 1..Len(s) /\ ~P(i) /\ s[i] \in Nat
  OBVIOUS
<1>3. PICK w \in 1..MaxWidth : s[i] = w + (IF i = 1 THEN 0 ELSE s[i - 1])
  BY <1>2 DEF IsText
<1>4. w \in Nat /\ w > 0
  BY WorkspaceAssumption
<1>5. i # 1
  BY <1>2, <1>3, <1>4
<1>6. i - 1 \in DOMAIN s /\ s[i - 1] \in Nat /\ P(i - 1)
  <2>1. i - 1 \in DOMAIN s /\ s[i - 1] \in Nat
    BY <1>2, <1>5
  <2>2. i - 1 \in T => i <= i - 1
    BY <1>1
  <2>3. i - 1 \notin T
    BY <1>2, <2>2
  <2>. QED
    BY <2>1, <2>3
<1>7. s[i] = w + s[i - 1]
  BY <1>3, <1>5
<1>8. ASSUME NEW j \in 1..i PROVE s[j] <= s[i]
  <2>1. s[j] \in Nat
    BY <1>2
  <2>2. CASE j = i
    BY <2>1, <2>2
  <2>3. CASE j \in 1..(i - 1)
    <3>1. s[j] <= s[i - 1]
      BY <1>6, <2>3
    <3>2. s[i] = w + s[i - 1] /\ w \in Nat /\ s[i - 1] \in Nat
      BY <1>4, <1>6, <1>7
    <3>. HIDE DEF T
    <3>. QED
      BY <2>1, <3>1, <3>2
  <2>. QED
    BY <1>2, <2>2, <2>3
<1>9. s[i] > 0
  BY <1>4, <1>6, <1>7
<1>. QED
  BY <1>2, <1>8, <1>9

-----------------------------------------------------------------------------
(* What an edit writes. *)

\* The pieces q that are put together up to the nth.
Joined(q, n, f) == f = [i \in 1..n |-> IF i = 1 THEN q[i] ELSE f[i - 1] \o q[i]]

LEMMA PiecesJoin ==
  ASSUME NEW q, NEW n \in Nat
  PROVE  \E f : Joined(q, n, f)
<1>. DEFINE T == {m \in Nat : ~\E f : Joined(q, m, f)}
<1>. SUFFICES ASSUME T # {} PROVE FALSE
  OBVIOUS
<1>1. PICK m \in T : \A k \in T : m <= k
  <2>1. T \subseteq Nat
    OBVIOUS
  <2>. HIDE DEF T
  <2>. QED
    BY <2>1, LeastOfNaturals
<1>2. m \in Nat /\ ~\E f : Joined(q, m, f)
  OBVIOUS
<1>3. m # 0
  <2>1. Joined(q, 0, [i \in 1..0 |-> 0])
    BY DEF Joined
  <2>. QED
    BY <1>2, <2>1
<1>4. PICK f : Joined(q, m - 1, f)
  <2>1. m - 1 \in Nat
    BY <1>2, <1>3
  <2>2. m - 1 \in T => m <= m - 1
    BY <1>1
  <2>. QED
    BY <1>2, <2>1, <2>2
<1>. DEFINE g == [i \in 1..m |-> IF i = m THEN (IF i = 1 THEN q[i] ELSE f[i - 1] \o q[i]) ELSE f[i]]
<1>5. \A i \in 1..(m - 1) : f[i] = IF i = 1 THEN q[i] ELSE f[i - 1] \o q[i]
  BY <1>4 DEF Joined
<1>6. ASSUME NEW i \in 1..m PROVE g[i] = IF i = 1 THEN q[i] ELSE g[i - 1] \o q[i]
  <2>1. CASE i = 1
    BY <1>2, <1>5, <2>1
  <2>2. CASE i # 1
    <3>1. i - 1 \in 1..m /\ i - 1 # m
      BY <1>2, <2>2
    <3>2. g[i - 1] = f[i - 1]
      BY <3>1
    <3>3. g[i] = f[i - 1] \o q[i]
      <4>1. CASE i = m
        BY <2>2, <4>1
      <4>2. CASE i # m
        <5>1. i \in 1..(m - 1)
          BY <1>2, <4>2
        <5>2. f[i] = f[i - 1] \o q[i]
          BY <1>5, <2>2, <5>1
        <5>. QED
          BY <4>2, <5>2
      <4>. QED
        BY <4>1, <4>2
    <3>. QED
      BY <2>2, <3>2, <3>3
  <2>. QED
    BY <2>1, <2>2
<1>7. g = [i \in 1..m |-> g[i]]
  OBVIOUS
<1>. HIDE DEF g
<1>8. Joined(q, m, g)
  BY <1>6, <1>7 DEF Joined
<1>. QED
  BY <1>2, <1>8

\* FlattenSeq puts its pieces together one by one.
LEMMA FlattenSteps ==
  ASSUME NEW S, NEW q \in Seq(Seq(S)), q # <<>>
  PROVE  \E f \in [DOMAIN q -> Seq(S)] :
           /\ f[1] = q[1] /\ \A i \in 2..Len(q) : f[i] = f[i - 1] \o q[i]
           /\ FlattenSeq(q) = f[Len(q)]
<1>. DEFINE f == CHOOSE h : Joined(q, Len(q), h)
<1>1. Len(q) \in Nat /\ Len(q) # 0 /\ DOMAIN q = 1..Len(q)
  OBVIOUS
<1>2. Joined(q, Len(q), f)
  BY <1>1, PiecesJoin, Zenon
<1>3. FlattenSeq(q) = f[Len(q)]
  BY <1>1 DEF FlattenSeq, Joined
<1>. HIDE DEF f
<1>4. \A i \in 1..Len(q) : f[i] = IF i = 1 THEN q[i] ELSE f[i - 1] \o q[i]
  BY <1>2 DEF Joined
<1>5. \A i \in 1..Len(q) : f[i] \in Seq(S)
  <2>. DEFINE T == {i \in 1..Len(q) : f[i] \notin Seq(S)}
  <2>. SUFFICES ASSUME T # {} PROVE FALSE
    OBVIOUS
  <2>1. PICK i \in T : \A j \in T : i <= j
    <3>1. T \subseteq Nat
      BY <1>1
    <3>. HIDE DEF T
    <3>. QED
      BY <3>1, LeastOfNaturals
  <2>2. i \in 1..Len(q) /\ f[i] \notin Seq(S)
    OBVIOUS
  <2>3. i # 1
    BY <1>4, <2>2
  <2>4. f[i - 1] \in Seq(S)
    <3>1. i - 1 \in 1..Len(q)
      BY <2>2, <2>3
    <3>2. i - 1 \in T => i <= i - 1
      BY <2>1
    <3>. QED
      BY <2>2, <3>1, <3>2
  <2>5. f[i] = f[i - 1] \o q[i]
    BY <1>4, <2>2, <2>3
  <2>6. q[i] \in Seq(S)
    BY <1>1, <2>2
  <2>. QED
    BY <2>2, <2>4, <2>5, <2>6, ConcatProperties
<1>6. f \in [DOMAIN q -> Seq(S)]
  BY <1>1, <1>2, <1>5 DEF Joined
<1>7. f[1] = q[1] /\ \A i \in 2..Len(q) : f[i] = f[i - 1] \o q[i]
  <2>1. 1 \in 1..Len(q) /\ \A i \in 2..Len(q) : i \in 1..Len(q) /\ i # 1
    BY <1>1
  <2>. QED
    BY <1>4, <2>1, Zenon
<1>. QED
  BY <1>3, <1>6, <1>7


\* What is put in the place of the ith character, and the text as far as it has been put
\* together.
Piece(s, p, by, i) ==
  (IF i \in Matched(s, p) THEN by ELSE <<>>)
    \o (IF i > Len(s) \/ (\E j \in Matched(s, p) : j <= i /\ i < j + Len(p)) THEN <<>> ELSE <<s[i]>>)

PutTogether(s, p, by, f) ==
  /\ f \in [0..(Len(s) + 1) -> Seq(Char)] /\ f[0] = <<>>
  /\ \A i \in 1..(Len(s) + 1) : f[i] = f[i - 1] \o Piece(s, p, by, i)

LEMMA PieceIsText ==
  ASSUME NEW s \in Seq(Char), NEW p, NEW by \in Seq(Char), NEW i \in 1..(Len(s) + 1)
  PROVE  Piece(s, p, by, i) \in Seq(Char)
<1>. DEFINE u == IF i \in Matched(s, p) THEN by ELSE <<>>
            w == IF i > Len(s) \/ (\E j \in Matched(s, p) : j <= i /\ i < j + Len(p))
                 THEN <<>> ELSE <<s[i]>>
<1>1. u \in Seq(Char)
  OBVIOUS
<1>2. w \in Seq(Char)
  <2>1. i <= Len(s) => s[i] \in Char
    OBVIOUS
  <2>. QED BY <2>1
<1>3. Piece(s, p, by, i) = u \o w
  BY DEF Piece
<1>. HIDE DEF u, w
<1>. QED BY <1>1, <1>2, <1>3, ConcatProperties

LEMMA ReplacedSteps ==
  ASSUME NEW s \in Seq(Char), NEW p, NEW by \in Seq(Char)
  PROVE  \E f : PutTogether(s, p, by, f) /\ Replaced(s, p, by) = f[Len(s) + 1]
<1>. DEFINE q == [i \in 1..(Len(s) + 1) |-> Piece(s, p, by, i)]
<1>1. /\ q \in Seq(Seq(Char)) /\ Len(q) = Len(s) + 1 /\ q # <<>> /\ Len(s) \in Nat
      /\ DOMAIN q = 1..(Len(s) + 1)
  <2>1. Len(s) \in Nat
    OBVIOUS
  <2>2. q \in [1..(Len(s) + 1) -> Seq(Char)]
    BY PieceIsText
  <2>. HIDE DEF q
  <2>3. q \in Seq(Seq(Char)) /\ Len(q) = Len(s) + 1
    BY <2>1, <2>2
  <2>. QED BY <2>1, <2>2, <2>3
<1>2. \A i \in 1..(Len(s) + 1) : q[i] = Piece(s, p, by, i)
  OBVIOUS
<1>3. Replaced(s, p, by) = FlattenSeq(q)
  BY DEF Replaced, Piece
<1>. HIDE DEF q
<1>4. PICK f \in [DOMAIN q -> Seq(Char)] :
         /\ f[1] = q[1] /\ \A i \in 2..Len(q) : f[i] = f[i - 1] \o q[i]
         /\ FlattenSeq(q) = f[Len(q)]
  BY <1>1, FlattenSteps
<1>. DEFINE g == [i \in 0..(Len(s) + 1) |-> IF i = 0 THEN <<>> ELSE f[i]]
<1>5. g \in [0..(Len(s) + 1) -> Seq(Char)]
  <2>1. \A i \in 0..(Len(s) + 1) : i # 0 => i \in DOMAIN q
    BY <1>1
  <2>2. <<>> \in Seq(Char)
    OBVIOUS
  <2>. QED BY <1>4, <2>1, <2>2
<1>6. g[0] = <<>> /\ \A i \in 1..(Len(s) + 1) : g[i] = f[i]
  BY <1>1
<1>7. ASSUME NEW i \in 1..(Len(s) + 1) PROVE g[i] = g[i - 1] \o Piece(s, p, by, i)
  <2>1. q[i] = Piece(s, p, by, i) /\ q[i] \in Seq(Char)
    BY <1>1, <1>2
  <2>2. CASE i = 1
    <3>1. g[i] = q[1] /\ g[i - 1] = <<>>
      BY <1>4, <1>6, <2>2
    <3>. HIDE DEF g
    <3>. QED BY <2>1, <2>2, <3>1, ConcatEmptySeq
  <2>3. CASE i # 1
    <3>1. i \in 2..Len(q) /\ i - 1 \in 1..(Len(s) + 1)
      BY <1>1, <2>3
    <3>2. g[i] = f[i] /\ g[i - 1] = f[i - 1]
      BY <1>6, <3>1
    <3>. HIDE DEF g
    <3>. QED BY <1>4, <2>1, <3>1, <3>2
  <2>. QED BY <2>2, <2>3
<1>8. Replaced(s, p, by) = g[Len(s) + 1]
  <2>1. Len(s) + 1 \in 1..(Len(s) + 1)
    BY <1>1
  <2>. HIDE DEF g
  <2>. QED BY <1>1, <1>3, <1>4, <1>6, <2>1
<1>. HIDE DEF g
<1>9. PutTogether(s, p, by, g)
  BY <1>5, <1>6, <1>7 DEF PutTogether
<1>. QED BY <1>8, <1>9

LEMMA ReplacedIsText ==
  ASSUME NEW s \in Seq(Char), NEW p, NEW by \in Seq(Char)
  PROVE  Replaced(s, p, by) \in Seq(Char)
<1>1. PICK f : PutTogether(s, p, by, f) /\ Replaced(s, p, by) = f[Len(s) + 1]
  BY ReplacedSteps
<1>2. Len(s) + 1 \in 0..(Len(s) + 1)
  OBVIOUS
<1>. QED BY <1>1, <1>2 DEF PutTogether

LEMMA JoinedTexts ==
  ASSUME NEW u \in Seq(Char), NEW v \in Seq(Char), NEW w \in Seq(Char)
  PROVE  (u \o v) \o w = u \o (v \o w)
BY ConcatAssociative, SMTT(30)

\* What matches is in the text, and there are finitely many matches.
LEMMA MatchedAreStarts ==
  ASSUME NEW s \in Seq(Char), NEW p \in Seq(Char)
  PROVE  /\ Matched(s, p) \subseteq Starts(s, p) /\ IsFiniteSet(Matched(s, p))
         /\ Cardinality(Matched(s, p)) \in Nat
<1>1. Matched(s, p) \subseteq Starts(s, p)
  BY DEF Matched
<1>2. Starts(s, p) \subseteq 1..(Len(s) + 1 - Len(p))
  BY DEF Starts
<1>3. IsFiniteSet(1..(Len(s) + 1 - Len(p)))
  <2>1. Len(s) + 1 - Len(p) \in Int
    OBVIOUS
  <2>. QED BY <2>1, FS_Interval
<1>4. IsFiniteSet(Matched(s, p))
  BY <1>1, <1>2, <1>3, FS_Subset
<1>. QED BY <1>1, <1>4, FS_CardinalityType

\* The one match is replaced, and the rest stays.
LEMMA ReplacedOne ==
  ASSUME NEW s \in Seq(Char), NEW p \in Seq(Char), NEW by \in Seq(Char), NEW n, Matched(s, p) = {n}
  PROVE  /\ n \in Starts(s, p)
         /\ Replaced(s, p, by) = SubSeq(s, 1, n - 1) \o by \o SubSeq(s, n + Len(p), Len(s))
<1>. DEFINE L == Len(p)  lead == SubSeq(s, 1, n - 1) \o by
            w(k) == IF k > Len(s) \/ (n <= k /\ k < n + L) THEN <<>> ELSE <<s[k]>>
            to(k) == Least(k, Len(s))
            R(k, t) == t = IF k < n THEN SubSeq(s, 1, k) ELSE lead \o SubSeq(s, n + L, to(k))
<1>0. /\ n \in Starts(s, p) /\ Len(s) \in Nat /\ L \in Nat /\ n \in Nat \ {0} /\ n + L <= Len(s) + 1
  <2>1. n \in Starts(s, p)
    BY MatchedAreStarts
  <2>. QED BY <2>1 DEF Starts
<1>1. PICK f : PutTogether(s, p, by, f) /\ Replaced(s, p, by) = f[Len(s) + 1]
  BY ReplacedSteps
<1>2. SubSeq(s, 1, n - 1) \in Seq(Char) /\ lead \in Seq(Char)
  <2>1. SubSeq(s, 1, n - 1) \in Seq(Char)
    BY <1>0
  <2>. QED BY <2>1, ConcatProperties
<1>3. \A k \in 1..(Len(s) + 1) : w(k) \in Seq(Char)
  <2>1. \A k \in 1..(Len(s) + 1) : ~(k > Len(s)) => s[k] \in Char
    BY <1>0
  <2>. QED BY <2>1
<1>4. \A k \in 1..(Len(s) + 1) : Piece(s, p, by, k) = (IF k = n THEN by ELSE <<>>) \o w(k)
  BY DEF Piece
<1>5. \A k \in 1..(Len(s) + 1) : f[k] = f[k - 1] \o Piece(s, p, by, k) /\ f[k - 1] \in Seq(Char)
  <2>1. \A k \in 1..(Len(s) + 1) : k - 1 \in 0..(Len(s) + 1)
    BY <1>0
  <2>. QED BY <1>1, <2>1 DEF PutTogether
<1>6. R(0, f[0])
  <2>1. SubSeq(s, 1, 0) = <<>> /\ 0 < n
    BY <1>0
  <2>. QED BY <1>1, <2>1 DEF PutTogether
<1>. HIDE DEF L, w, lead, to
<1>7. ASSUME NEW k \in 1..(Len(s) + 1), k < n, R(k - 1, f[k - 1]) PROVE R(k, f[k])
  <2>1. k \in 1..Len(s) /\ 1 \in 1..Len(s) /\ k - 1 < n
    BY <1>0, <1>7
  <2>2. w(k) = <<s[k]>> /\ s[k] \in Char
    BY <1>0, <1>7, <2>1 DEF w
  <2>3. Piece(s, p, by, k) = w(k)
    <3>1. k # n
      BY <1>0, <1>7
    <3>. QED BY <1>3, <1>4, <3>1, ConcatEmptySeq
  <2>4. SubSeq(s, 1, k) = SubSeq(s, 1, k - 1) \o <<s[k]>>
    BY <2>1, SubSeqRecursiveSecond
  <2>. QED BY <1>5, <1>7, <2>1, <2>2, <2>3, <2>4
<1>8. \A k \in 1..(Len(s) + 1) : k >= n => SubSeq(s, n + L, to(k)) \in Seq(Char)
  BY <1>0 DEF Least, to
<1>9. ASSUME R(n - 1, f[n - 1]) PROVE R(n, f[n])
  <2>1. n \in 1..(Len(s) + 1) /\ n - 1 < n
    BY <1>0
  <2>2. f[n] = SubSeq(s, 1, n - 1) \o (by \o w(n))
    BY <1>4, <1>5, <1>9, <2>1
  <2>3. f[n] = lead \o w(n)
    <3>. DEFINE u == SubSeq(s, 1, n - 1)  c == w(n)
    <3>1. u \in Seq(Char) /\ c \in Seq(Char)
      BY <1>2, <1>3, <2>1
    <3>2. f[n] = u \o (by \o c) /\ lead = u \o by
      BY <2>2 DEF lead
    <3>. HIDE DEF u, c
    <3>3. (u \o by) \o c = u \o (by \o c)
      BY <3>1, JoinedTexts
    <3>4. f[n] = lead \o c
      BY <3>2, <3>3
    <3>. QED BY <3>4 DEF c
  <2>4. w(n) = SubSeq(s, n + L, to(n))
    <3>1. CASE n > Len(s) BY <1>0, <3>1 DEF w, Least, to
    <3>2. CASE n <= Len(s) /\ L > 0 BY <1>0, <3>2 DEF w, Least, to
    <3>3. CASE n <= Len(s) /\ L = 0
      <4>1. to(n) = n /\ w(n) = <<s[n]>> /\ n + L = n
        BY <1>0, <3>3 DEF w, Least, to
      <4>. QED BY <1>0, <3>3, <4>1
    <3>. QED BY <1>0, <3>1, <3>2, <3>3
  <2>5. ~(n < n) BY <1>0
  <2>. QED BY <2>3, <2>4, <2>5
<1>10. ASSUME NEW k \in 1..(Len(s) + 1), k > n, R(k - 1, f[k - 1]) PROVE R(k, f[k])
  <2>. DEFINE v == SubSeq(s, n + L, to(k - 1))
  <2>1. ~(k < n) /\ ~(k - 1 < n) /\ k # n /\ k - 1 \in 1..(Len(s) + 1) /\ k - 1 >= n
    BY <1>0, <1>10
  <2>2. f[k] = (lead \o v) \o w(k)
    <3>1. Piece(s, p, by, k) = w(k)
      BY <1>3, <1>4, <2>1, ConcatEmptySeq
    <3>. QED BY <1>5, <1>10, <2>1, <3>1
  <2>3. v \in Seq(Char) /\ w(k) \in Seq(Char)
    BY <1>3, <1>8, <2>1
  <2>. HIDE DEF v
  <2>4. f[k] = lead \o (v \o w(k))
    <3>. DEFINE c == w(k)
    <3>1. c \in Seq(Char) /\ lead \in Seq(Char) /\ v \in Seq(Char)
      BY <1>2, <2>3
    <3>. HIDE DEF c
    <3>a. \A x1, x2 \in Seq(Char) : (lead \o x1) \o x2 = lead \o (x1 \o x2)
      BY <3>1, JoinedTexts
    <3>2. (lead \o v) \o c = lead \o (v \o c)
      BY <3>1, <3>a, Zenon
    <3>. QED BY <2>2, <3>2 DEF c
  <2>5. v \o w(k) = SubSeq(s, n + L, to(k))
    <3>1. CASE k > Len(s)
      <4>1. w(k) = <<>> /\ to(k) = to(k - 1)
        BY <1>0, <2>1, <3>1 DEF w, Least, to
      <4>. QED BY <2>3, <4>1, ConcatEmptySeq DEF v
    <3>2. CASE k <= Len(s) /\ k < n + L
      <4>1. w(k) = <<>> /\ to(k) = k /\ to(k - 1) = k - 1
        BY <1>0, <2>1, <3>2 DEF w, Least, to
      <4>2. v = <<>> /\ SubSeq(s, n + L, to(k)) = <<>>
        BY <1>0, <3>2, <4>1 DEF v
      <4>3. <<>> \o <<>> = <<>> OBVIOUS
      <4>. QED BY <4>1, <4>2, <4>3
    <3>3. CASE k <= Len(s) /\ k >= n + L
      <4>. DEFINE m == n + L
      <4>1. w(k) = <<s[k]>> /\ to(k) = k /\ to(k - 1) = k - 1
        BY <1>0, <2>1, <3>3 DEF w, Least, to
      <4>2. m \in 1..Len(s) /\ k \in m..Len(s)
        BY <1>0, <3>3
      <4>. HIDE DEF m
      <4>3. SubSeq(s, m, k) = SubSeq(s, m, k - 1) \o <<s[k]>>
        BY <4>2, SubSeqRecursiveSecond
      <4>. QED BY <4>1, <4>3 DEF m, v
    <3>4. k > Len(s) \/ (k <= Len(s) /\ k < n + L) \/ (k <= Len(s) /\ k >= n + L)
      BY <1>0
    <3>. QED BY <3>1, <3>2, <3>3, <3>4, Zenon
  <2>. QED BY <2>1, <2>4, <2>5
<1>. HIDE DEF R
<1>11. \A k \in 0..(Len(s) + 1) : R(k, f[k])
  <2>. DEFINE T == {k \in 0..(Len(s) + 1) : ~R(k, f[k])}
  <2>. SUFFICES ASSUME T # {} PROVE FALSE
    OBVIOUS
  <2>1. PICK k \in T : \A j \in T : k <= j
    <3>1. T \subseteq Nat
      BY <1>0
    <3>. HIDE DEF T
    <3>. QED BY <3>1, LeastOfNaturals
  <2>2. k \in 1..(Len(s) + 1) /\ ~R(k, f[k])
    <3>1. k \in 0..(Len(s) + 1) /\ ~R(k, f[k])
      OBVIOUS
    <3>2. k # 0
      BY <1>6, <3>1
    <3>. QED BY <3>1, <3>2
  <2>3. R(k - 1, f[k - 1])
    <3>1. k - 1 \in 0..(Len(s) + 1)
      BY <1>0, <2>2
    <3>2. k - 1 \in T => k <= k - 1
      BY <2>1
    <3>. QED BY <2>2, <3>1, <3>2
  <2>4. k < n \/ k = n \/ k > n
    BY <1>0, <2>2
  <2>. QED BY <1>7, <1>9, <1>10, <2>2, <2>3, <2>4
<1>12. R(Len(s) + 1, f[Len(s) + 1]) /\ ~(Len(s) + 1 < n) /\ to(Len(s) + 1) = Len(s)
  BY <1>0, <1>11 DEF Least, to
<1>. QED BY <1>0, <1>1, <1>12 DEF R, lead, L

-----------------------------------------------------------------------------
(* Lines. *)

LEMMA UpToIsWithin ==
  ASSUME NEW s \in Seq(Char), NEW k
  PROVE  UpTo(s, k) \in 0..Len(s)
<1>. DEFINE T == {i \in DOMAIN s : LineOf(s, i) <= k}
<1>1. DOMAIN s = 1..Len(s) /\ Len(s) \in Nat
  OBVIOUS
<1>2. IsFiniteSet(DOMAIN s) /\ Cardinality(DOMAIN s) = Len(s)
  BY <1>1, FS_Interval
<1>3. T \in SUBSET DOMAIN s
  OBVIOUS
<1>. HIDE DEF T
<1>4. IsFiniteSet(T) /\ Cardinality(T) <= Len(s) /\ Cardinality(T) \in Nat
  BY <1>2, <1>3, FS_Subset, FS_CardinalityType
<1>. QED BY <1>1, <1>4 DEF UpTo, T

LEMMA LineOfIsNat ==
  ASSUME NEW s, NEW n \in Nat
  PROVE  LineOf(s, n) \in Nat
<1>. DEFINE T == {j \in 1..(n - 1) : s[j] = Newline}
<1>1. IsFiniteSet(1..(n - 1))
  <2>1. n - 1 \in Int OBVIOUS
  <2>. QED BY <2>1, FS_Interval
<1>2. T \in SUBSET (1..(n - 1))
  OBVIOUS
<1>. HIDE DEF T
<1>3. Cardinality(T) \in Nat
  BY <1>1, <1>2, FS_Subset, FS_CardinalityType
<1>. QED BY <1>3 DEF LineOf, T

\* The lines of a text are texts.
LEMMA LinesOfText ==
  ASSUME NEW s \in Seq(Char)
  PROVE  Lines(s) \in Seq(Line)
<1>. DEFINE n == IF s = <<>> THEN 0 ELSE LineOf(s, Len(s))
            line(k) == Stripped(SubSeq(s, UpTo(s, k - 1) + 1, UpTo(s, k)))
<1>1. n \in Nat
  <2>1. Len(s) \in Nat OBVIOUS
  <2>. QED BY <2>1, LineOfIsNat
<1>2. ASSUME NEW k \in 1..n PROVE line(k) \in Line
  <2>. DEFINE l == SubSeq(s, UpTo(s, k - 1) + 1, UpTo(s, k))
  <2>1. l \in Seq(Char)
    <3>1. UpTo(s, k - 1) \in 0..Len(s) /\ UpTo(s, k) \in 0..Len(s)
      BY UpToIsWithin
    <3>2. ASSUME NEW a \in 0..Len(s), NEW b \in 0..Len(s) PROVE SubSeq(s, a + 1, b) \in Seq(Char)
      OBVIOUS
    <3>. QED BY <3>1, <3>2
  <2>. HIDE DEF l
  <2>2. Stripped(l) \in Seq(Char)
    <3>1. CASE Len(l) = 0 \/ l[Len(l)] # Newline
      BY <2>1, <3>1 DEF Stripped
    <3>2. CASE ~(Len(l) = 0 \/ l[Len(l)] # Newline)
      <4>. DEFINE m == IF Len(l) > 1 /\ l[Len(l) - 1] = Return THEN Len(l) - 2 ELSE Len(l) - 1
      <4>1. m \in 0..Len(l)
        BY <2>1, <3>2
      <4>2. Stripped(l) = SubSeq(l, 1, m)
        BY <3>2 DEF Stripped
      <4>. HIDE DEF m
      <4>. QED BY <2>1, <4>1, <4>2
    <3>. QED BY <3>1, <3>2
  <2>. QED BY <2>2 DEF Line, l
<1>3. Lines(s) = [k \in 1..n |-> line(k)]
  BY DEF Lines
<1>. HIDE DEF n, line
<1>4. Lines(s) \in [1..n -> Line]
  BY <1>2, <1>3
<1>. QED BY <1>1, <1>4

\* Nothing has changed: nothing is shown.
LEMMA NoDiff ==
  ASSUME NEW a \in Seq(Line)
  PROVE  LineDiff(a, a) = <<>>
<1>. DEFINE n == Common(a, a)  p == Prefix(a, a)  q == Suffix(a, a)
<1>1. n = Len(a) /\ n \in Nat
  BY DEF Common, Least
<1>2. p \in 0..n /\ StopsAt(a, a, n, p) /\ q \in 0..(n - p)
  BY CommonLines
<1>3. ~(p < n)
  BY <1>2 DEF StopsAt
<1>. HIDE DEF n, p, q
<1>4. p = Len(a) /\ q = 0
  BY <1>1, <1>2, <1>3
<1>5. SubSeq(a, p + 1, Len(a) - q) = <<>>
  BY <1>1, <1>4
<1>. QED BY <1>5 DEF LineDiff, p, q

LEMMA DiffsAreOwn ==
  ASSUME NEW a \in Seq(Line), NEW b \in Seq(Line)
  PROVE  LineDiff(a, b) \in Seq(Hunk) /\ DiffIsOf(a, b, LineDiff(a, b))
<1>1. CASE a = b
  <2>1. LineDiff(a, b) = <<>>
    BY <1>1, NoDiff
  <2>2. <<>> \in Seq(Hunk)
    OBVIOUS
  <2>. QED BY <1>1, <2>1, <2>2 DEF DiffIsOf
<1>2. CASE a # b
  BY <1>2, DiffPatches DEF DiffIsOf
<1>. QED BY <1>1, <1>2

-----------------------------------------------------------------------------
(* The file tools: every step keeps what edits, pages and outputs need. *)

EditOK(e) ==
  /\ step[e] \in {"open", "write"} \/ ended[e] = "edited" => IsEdit(e)
  /\ ended[e] # "none" => step[e] = "done"
  /\ ended[e] = "edited" => diff[e] = LineDiff(Lines(before[e]), Lines(after[e]))
KeptOK(e) ==
  ~raced[e] /\ ended[e] \in {"edited", "absent", "ambiguous"} =>
    \E i \in DOMAIN history :
      /\ before[e] = history[i]
      /\ ended[e] = "edited" => wrote[e] = i + 1 /\ i + 1 \in DOMAIN history /\ after[e] = history[i + 1]
AloneOK(e) == ~raced[e] => IsAlone(e)
EditsOK == \A e \in Editor : EditOK(e) /\ KeptOK(e) /\ AloneOK(e)
FileOK  == Open = {} => text = history[Len(history)]
PagesOK == PagesAreTheFile /\ (Unwritten => offset - 1 <= Len(Lines(text)))
InlineOK == InlineIsMaximal /\ IsText(ends)

LEMMA FilesParts == FilesInv <=> FilesTypeOK /\ EditsOK /\ FileOK /\ PagesOK /\ InlineOK
<1>1. EditsAreKept <=> (\A e \in Editor : KeptOK(e)) /\ FileOK
  BY Zenon DEF EditsAreKept, KeptOK, FileOK
<1>. QED BY <1>1, ZenonT(30) DEF FilesInv, EditsOK, EditOK, AloneOK, PagesOK, InlineOK

LEMMA FilesInitially == FilesInit => FilesInv
<1>. SUFFICES ASSUME FilesInit PROVE FilesInv
  OBVIOUS
<1>1. text \in Seq(Char) /\ ends \in Seq(Nat) /\ IsText(ends)
  <2>1. text \in Seq(Char)
    BY WorkspaceAssumption, BoundedSeqs DEF FilesInit
  <2>. DEFINE m == MaxWidth * (InlineLimit + 1)  n == InlineLimit + 1
  <2>2. n \in Nat /\ ends \in BoundedSeq(1..m, n) /\ IsText(ends)
    BY WorkspaceAssumption DEF FilesInit
  <2>. HIDE DEF m, n
  <2>3. ends \in Seq(1..m)
    BY <2>2, BoundedSeqs
  <2>4. ends \in Seq(Nat)
    <3>1. ends \in [1..Len(ends) -> 1..m] /\ Len(ends) \in Nat
      BY <2>3, LenProperties, Zenon
    <3>2. ends \in [1..Len(ends) -> Nat]
      BY <3>1
    <3>. QED
      BY <3>1, <3>2, SeqDef, Zenon
  <2>. QED
    BY <2>1, <2>2, <2>4
<1>2. history = <<text>> /\ history \in Seq(Seq(Char)) /\ history # <<>> /\ Len(history) = 1
      /\ history[Len(history)] = text
  BY <1>1 DEF FilesInit
<1>3. FilesTypeOK
  <2>1. <<>> \in Seq(Char) /\ <<>> \in Seq(Line) /\ <<>> \in Seq(Hunk) /\ 1 \in Nat \ {0} /\ 0 \in Nat
    OBVIOUS
  <2>2. old \in [Editor -> Seq(Char)] /\ new \in [Editor -> Seq(Char)]
    <3>1. BoundedSeq(Char, MaxEdit) \subseteq Seq(Char)
      BY WorkspaceAssumption, BoundedSeqs
    <3>. QED BY <3>1 DEF FilesInit
  <2>3. "none" \in Ended
    BY DEF Ended
  <2>. QED
    BY <1>1, <1>2, <2>1, <2>2, <2>3 DEF FilesInit, FilesTypeOK
<1>4. PagesOK
  <2>1. offset = 1 /\ page = <<>> /\ Lines(text) \in Seq(Line)
    BY <1>1, LinesOfText DEF FilesInit
  <2>2. SubSeq(Lines(text), 1, offset - 1) = <<>> /\ offset - 1 <= Len(Lines(text))
    BY <2>1
  <2>. QED
    BY <2>1, <2>2 DEF PagesOK, PagesAreTheFile
<1>5. EditsOK
  BY DEF FilesInit, EditsOK, EditOK, KeptOK, AloneOK, IsAlone
<1>. QED
  BY <1>1, <1>2, <1>3, <1>4, <1>5, FilesParts DEF FilesInit, InlineIsMaximal, InlineOK, FileOK

\* What an edit is about depends on its own part of the state and on who has the file open.
LEMMA EditStays ==
  ASSUME NEW e \in Editor,
         UNCHANGED <<before[e], after[e], old[e], new[e], all[e], step[e], ended[e], diff[e]>>
  PROVE  EditOK(e) => EditOK(e)'
BY DEF EditOK, IsEdit

LEMMA OthersStay ==
  ASSUME NEW e \in Editor,
         UNCHANGED <<before[e], after[e], old[e], new[e], all[e], step[e], ended[e], diff[e],
                     wrote[e], raced[e], history>>,
         Open' = Open, text' = text
  PROVE  EditOK(e) /\ KeptOK(e) /\ AloneOK(e) => EditOK(e)' /\ KeptOK(e)' /\ AloneOK(e)'
<1>1. EditOK(e) => EditOK(e)' BY EditStays
<1>2. KeptOK(e) => KeptOK(e)' BY Zenon DEF KeptOK
<1>3. AloneOK(e) => AloneOK(e)' BY DEF AloneOK, IsAlone
<1>. QED BY <1>1, <1>2, <1>3

LEMMA ReadKeeps ==
  ASSUME FilesTypeOK, EditsOK, FileOK, PagesOK, InlineOK, NEW e \in Editor, ReadForEdit(e)
  PROVE  FilesTypeOK' /\ EditsOK' /\ FileOK' /\ PagesOK' /\ InlineOK'
<1>. DEFINE n == Cardinality(Matched(text, old[e]))
<1>0. step[e] = "read" /\ UNCHANGED <<old, new, all, diff, text, history, wrote, page, offset, ends, given>>
  BY DEF ReadForEdit, reader, edit
<1>. USE DEF FilesTypeOK
<1>. DEFINE HasRead ==
              /\ step' = [step EXCEPT ![e] = step'[e]] /\ ended' = [ended EXCEPT ![e] = ended'[e]]
              /\ before' = [before EXCEPT ![e] = before'[e]] /\ after' = [after EXCEPT ![e] = after'[e]]
              /\ raced' = [raced EXCEPT ![e] = raced'[e]]
              /\ step'[e] \in {"open", "done"} /\ ended'[e] \in {"none", "same", "absent", "ambiguous", "failed"}
              /\ before'[e] \in Seq(Char) /\ after'[e] \in Seq(Char) /\ raced'[e] \in BOOLEAN
              /\ ended'[e] # "none" => step'[e] = "done"
              /\ step'[e] = "open" => IsEdit(e)'
              /\ step'[e] = "open" \/ ended'[e] \in {"absent", "ambiguous"} =>
                 before'[e] = text /\ raced'[e] = (Open # {})
<1>1. HasRead
  <2>0. ended[e] = "none"
    BY <1>0 DEF EditsOK, EditOK, Ended
  <2>1. CASE (EndEdit(e, "same") \/ EndEdit(e, "failed")) /\ UNCHANGED <<before, after, raced>>
    BY <2>1 DEF EndEdit
  <2>2. ASSUME before' = [before EXCEPT ![e] = text], raced' = [raced EXCEPT ![e] = Open # {}],
               Refuses(e, n), EndEdit(e, IF n = 0 THEN "absent" ELSE "ambiguous"), UNCHANGED after
        PROVE  HasRead
    BY <2>2 DEF EndEdit
  <2>3. ASSUME before' = [before EXCEPT ![e] = text], raced' = [raced EXCEPT ![e] = Open # {}],
               ~Refuses(e, n), step' = [step EXCEPT ![e] = "open"], UNCHANGED ended,
               after' = [after EXCEPT ![e] = Replaced(text, old[e], new[e])]
        PROVE  HasRead
    <3>1. Replaced(text, old[e], new[e]) \in Seq(Char)
      BY ReplacedIsText
    <3>2. n \in Nat
      BY MatchedAreStarts
    <3>3. n # 0 /\ (~all[e] => n <= 1)
      <4>. HIDE DEF n
      <4>. QED BY <2>3, <3>2 DEF Refuses
    <3>4. before'[e] = text /\ after'[e] = Replaced(text, old[e], new[e])
      BY <2>3
    <3>5. IsEdit(e)'
      BY <1>0, <3>3, <3>4 DEF IsEdit
    <3>. QED BY <2>0, <2>3, <3>1, <3>4, <3>5
  <2>. QED BY <2>1, <2>2, <2>3 DEF ReadForEdit
<1>2. Open' = Open
  BY <1>0, <1>1 DEF Open
<1>3. FilesTypeOK'
  <2>0. ended'[e] \in Ended
    BY <1>1 DEF Ended
  <2>1. step' \in [Editor -> {"read", "open", "write", "done"}] /\ ended' \in [Editor -> Ended]
    <3>1. ended' = [ended EXCEPT ![e] = ended'[e]] /\ ended \in [Editor -> Ended]
      BY <1>1
    <3>2. step' = [step EXCEPT ![e] = step'[e]] /\ step'[e] \in {"open", "done"}
      BY <1>1
    <3>. HIDE DEF HasRead
    <3>3. ended' \in [Editor -> Ended] BY <2>0, <3>1, Zenon
    <3>. QED BY <3>2, <3>3
  <2>2. before' \in [Editor -> Seq(Char)] /\ after' \in [Editor -> Seq(Char)]
    BY <1>1
  <2>3. raced' \in [Editor -> BOOLEAN]
    BY <1>1
  <2>. HIDE DEF HasRead
  <2>. QED BY <1>0, <2>1, <2>2, <2>3
<1>4. FileOK' /\ PagesOK' /\ InlineOK'
  <2>1. Unwritten' <=> Unwritten
    BY <1>0, <1>2 DEF Unwritten
  <2>. QED BY <1>0, <1>2, <2>1 DEF FileOK, PagesOK, PagesAreTheFile, InlineOK, InlineIsMaximal, IsText
<1>5. ASSUME NEW d \in Editor PROVE EditOK(d)' /\ KeptOK(d)' /\ AloneOK(d)'
  <2>1. CASE d = e
    <3>1. EditOK(d)'
      BY <1>0, <1>1, <2>1 DEF EditOK
    <3>2. step'[e] = "open" \/ ended'[e] \in {"absent", "ambiguous"} =>
            raced'[e] \/ (Open = {} /\ before'[e] = history[Len(history)])
      BY <1>1 DEF FileOK
    <3>3. Len(history) \in DOMAIN history
      BY DEF FilesTypeOK
    <3>4. KeptOK(d)'
      BY <1>0, <1>1, <2>1, <3>2, <3>3 DEF KeptOK
    <3>5. AloneOK(d)'
      BY <1>0, <1>1, <1>2, <2>1, <3>2 DEF AloneOK, IsAlone
    <3>. QED BY <3>1, <3>4, <3>5
  <2>2. CASE d # e
    <3>1. UNCHANGED <<before[d], after[d], old[d], new[d], all[d], step[d], ended[d], diff[d],
                      wrote[d], raced[d], history>>
      BY <1>0, <1>1, <2>2
    <3>. QED BY <1>0, <1>2, <3>1, OthersStay DEF EditsOK
  <2>. QED BY <2>1, <2>2
<1>. QED BY <1>3, <1>4, <1>5 DEF EditsOK

LEMMA OpenKeeps ==
  ASSUME FilesTypeOK, EditsOK, FileOK, PagesOK, InlineOK, NEW e \in Editor, OpenFile(e)
  PROVE  FilesTypeOK' /\ EditsOK' /\ FileOK' /\ PagesOK' /\ InlineOK'
<1>0. /\ step[e] = "open"
      /\ UNCHANGED <<old, new, all, before, after, diff, history, wrote, page, offset, ends, given>>
  BY DEF OpenFile, reader, edit
<1>. USE DEF FilesTypeOK
<1>1. InlineOK'
  BY <1>0 DEF InlineOK, InlineIsMaximal, IsText
<1>2. CASE /\ text' = <<>> /\ step' = [step EXCEPT ![e] = "write"] /\ UNCHANGED ended
           /\ raced' = [d \in Editor |-> raced[d] \/ (d # e /\ step[d] \in {"open", "write"})]
  <2>1. e \in Open' /\ Open' \subseteq Open \cup {e}
    BY <1>2 DEF Open
  <2>2. FilesTypeOK'
    <3>1. <<>> \in Seq(Char) OBVIOUS
    <3>. QED BY <1>0, <1>2, <3>1
  <2>3. FileOK' /\ PagesOK'
    BY <2>1 DEF FileOK, PagesOK, PagesAreTheFile, Unwritten
  <2>4. ASSUME NEW d \in Editor PROVE EditOK(d)' /\ KeptOK(d)' /\ AloneOK(d)'
    <3>1. EditOK(d) /\ KeptOK(d) /\ AloneOK(d) BY DEF EditsOK
    <3>2. EditOK(d)'
      <4>1. UNCHANGED <<before[d], after[d], old[d], new[d], all[d], ended[d], diff[d]>>
        BY <1>0, <1>2
      <4>2. step'[d] = step[d] \/ (d = e /\ step'[d] = "write")
        BY <1>2
      <4>3. IsEdit(d) => IsEdit(d)' BY <4>1 DEF IsEdit
      <4>. QED BY <1>0, <3>1, <4>1, <4>2, <4>3 DEF EditOK
    <3>3. ~raced'[d] => ~raced[d] /\ (d = e \/ step[d] \notin {"open", "write"})
      BY <1>2
    <3>4. KeptOK(d)'
      BY <1>0, <1>2, <3>1, <3>3, Zenon DEF KeptOK
    <3>5. AloneOK(d)'
      <4>1. CASE d = e
        <5>1. ~raced'[e] => before[e] = history[Len(history)] /\ Open \subseteq {e}
          BY <1>0, <3>1, <3>3, <4>1 DEF AloneOK, IsAlone
        <5>. QED BY <1>0, <1>2, <2>1, <4>1, <5>1 DEF AloneOK, IsAlone
      <4>2. CASE d # e
        BY <1>2, <3>3, <4>2 DEF AloneOK, IsAlone
      <4>. QED BY <4>1, <4>2
    <3>. QED BY <3>2, <3>4, <3>5
  <2>. QED BY <1>1, <2>2, <2>3, <2>4 DEF EditsOK
<1>3. CASE EndEdit(e, "failed") /\ UNCHANGED <<text, raced>>
  <2>1. step' = [step EXCEPT ![e] = "done"] /\ ended' = [ended EXCEPT ![e] = "failed"]
    BY <1>3 DEF EndEdit
  <2>2. Open' = Open
    BY <1>0, <2>1 DEF Open
  <2>3. FilesTypeOK'
    BY <1>0, <1>3, <2>1 DEF Ended
  <2>4. FileOK' /\ PagesOK'
    <3>1. Unwritten' <=> Unwritten
      BY <1>0, <2>2 DEF Unwritten
    <3>. QED BY <1>0, <1>3, <2>2, <3>1 DEF FileOK, PagesOK, PagesAreTheFile
  <2>5. ASSUME NEW d \in Editor PROVE EditOK(d)' /\ KeptOK(d)' /\ AloneOK(d)'
    <3>1. CASE d = e
      <4>1. step'[d] = "done" /\ ended'[d] = "failed"
        BY <2>1, <3>1
      <4>. QED BY <4>1 DEF EditOK, KeptOK, AloneOK, IsAlone
    <3>2. CASE d # e
      <4>1. UNCHANGED <<before[d], after[d], old[d], new[d], all[d], step[d], ended[d], diff[d],
                        wrote[d], raced[d], history>>
        BY <1>0, <1>3, <2>1, <3>2
      <4>. QED BY <1>3, <2>2, <4>1, OthersStay DEF EditsOK
    <3>. QED BY <3>1, <3>2
  <2>. QED BY <1>1, <2>3, <2>4, <2>5 DEF EditsOK
<1>. QED BY <1>2, <1>3 DEF OpenFile

LEMMA WriteKeeps ==
  ASSUME FilesTypeOK, EditsOK, FileOK, PagesOK, InlineOK, NEW e \in Editor, WriteFile(e)
  PROVE  FilesTypeOK' /\ EditsOK' /\ FileOK' /\ PagesOK' /\ InlineOK'
<1>. DEFINE n == Len(history)
<1>0. PICK k \in 0..Len(after[e]) :
        /\ step[e] = "write" /\ text' = SubSeq(after[e], 1, k) \o SubSeq(text, k + 1, Len(text))
        /\ history' = Append(history, text') /\ wrote' = [wrote EXCEPT ![e] = n + 1]
        /\ \/ /\ k = Len(after[e]) /\ EndEdit(e, "edited")
              /\ diff' = [diff EXCEPT ![e] = LineDiff(Lines(before[e]), Lines(after[e]))]
           \/ k # Len(after[e]) /\ EndEdit(e, "failed") /\ UNCHANGED diff
        /\ UNCHANGED <<old, new, all, before, after, raced, page, offset, ends, given>>
  BY DEF WriteFile, reader, edit
<1>1. /\ text \in Seq(Char) /\ Len(text) \in Nat /\ after[e] \in Seq(Char) /\ before[e] \in Seq(Char)
      /\ history \in Seq(Seq(Char)) /\ n \in Nat \ {0} /\ DOMAIN history = 1..n
  BY DEF FilesTypeOK
<1>2. text' \in Seq(Char)
  <2>1. SubSeq(after[e], 1, k) \in Seq(Char) /\ SubSeq(text, k + 1, Len(text)) \in Seq(Char)
    BY <1>1
  <2>. QED BY <1>0, <2>1, ConcatProperties
<1>3. /\ step' = [step EXCEPT ![e] = "done"] /\ ended' = [ended EXCEPT ![e] = ended'[e]]
      /\ diff' = [diff EXCEPT ![e] = diff'[e]] /\ diff'[e] \in Seq(Hunk)
      /\ ended'[e] = "failed"
         \/ /\ ended'[e] = "edited" /\ k = Len(after[e])
            /\ diff'[e] = LineDiff(Lines(before[e]), Lines(after[e]))
  <2>1. LineDiff(Lines(before[e]), Lines(after[e])) \in Seq(Hunk)
    BY <1>1, LinesOfText, DiffsAreOwn
  <2>. QED BY <1>0, <2>1 DEF EndEdit, FilesTypeOK
<1>4. /\ history' \in Seq(Seq(Char)) /\ Len(history') = n + 1 /\ history'[n + 1] = text'
      /\ DOMAIN history' = 1..(n + 1) /\ \A i \in 1..n : history'[i] = history[i]
  <2>1. history' = Append(history, text')
    BY <1>0
  <2>2. Append(history, text') \in Seq(Seq(Char)) /\ Len(Append(history, text')) = n + 1
        /\ Append(history, text')[n + 1] = text' /\ \A i \in 1..n : Append(history, text')[i] = history[i]
    BY <1>1, <1>2, AppendProperties
  <2>. HIDE DEF n
  <2>. QED BY <1>1, <2>1, <2>2
<1>5. FilesTypeOK'
  <2>1. history' # <<>>
    BY <1>1, <1>4
  <2>2. wrote' \in [Editor -> Nat]
    <3>1. wrote \in [Editor -> Nat] /\ n + 1 \in Nat
      BY <1>1 DEF FilesTypeOK
    <3>. HIDE DEF n
    <3>. QED BY <1>0, <3>1
  <2>3. /\ step' \in [Editor -> {"read", "open", "write", "done"}] /\ ended' \in [Editor -> Ended]
        /\ diff' \in [Editor -> Seq(Hunk)]
    <3>1. ended'[e] \in Ended BY <1>3 DEF Ended
    <3>. QED BY <1>3, <3>1 DEF FilesTypeOK
  <2>4. UNCHANGED <<old, new, all, before, after, raced, page, offset, ends, given>>
    BY <1>0
  <2>. HIDE DEF n
  <2>. QED BY <1>2, <1>4, <2>1, <2>2, <2>3, <2>4 DEF FilesTypeOK
<1>6. FileOK' /\ PagesOK' /\ InlineOK'
  <2>1. ~Unwritten'
    BY <1>1, <1>4 DEF Unwritten
  <2>2. InlineOK'
    BY <1>0 DEF InlineOK, InlineIsMaximal, IsText
  <2>3. FileOK'
    BY <1>4 DEF FileOK
  <2>. QED BY <2>1, <2>2, <2>3 DEF PagesOK, PagesAreTheFile
<1>7. ASSUME NEW d \in Editor PROVE EditOK(d)' /\ KeptOK(d)' /\ AloneOK(d)'
  <2>0. EditOK(d) /\ KeptOK(d) /\ AloneOK(d)
    BY DEF EditsOK
  <2>1. CASE d = e
    <3>1. step'[e] = "done" /\ ended'[e] \in {"edited", "failed"}
      BY <1>3 DEF FilesTypeOK
    <3>2. IsEdit(e)'
      <4>1. UNCHANGED <<before[e], after[e], old[e], new[e], all[e]>> BY <1>0
      <4>2. IsEdit(e) BY <1>0, <2>0, <2>1 DEF EditOK
      <4>. QED BY <4>1, <4>2 DEF IsEdit
    <3>3. EditOK(e)'
      BY <1>0, <1>3, <3>1, <3>2 DEF EditOK
    <3>4. ASSUME ~raced'[e], ended'[e] = "edited"
          PROVE  before'[e] = history'[n] /\ after'[e] = history'[n + 1] /\ wrote'[e] = n + 1
      <4>1. text = <<>> /\ before[e] = history[n]
        BY <1>0, <2>0, <2>1, <3>4 DEF AloneOK, IsAlone
      <4>2. text' = after[e] \o <<>>
        <5>1. k = Len(after[e]) /\ SubSeq(after[e], 1, Len(after[e])) = after[e]
          BY <1>1, <1>3, <3>4, SubSeqFull
        <5>2. SubSeq(text, k + 1, Len(text)) = <<>>
          BY <1>1, <4>1
        <5>. QED BY <1>0, <5>1, <5>2
      <4>3. text' = after[e]
        BY <1>1, <4>2, ConcatEmptySeq
      <4>4. wrote'[e] = n + 1
        BY <1>0 DEF FilesTypeOK
      <4>5. n \in 1..n BY <1>1
      <4>. QED BY <1>0, <1>4, <4>1, <4>3, <4>4, <4>5
    <3>5. KeptOK(e)'
      <4>1. n \in DOMAIN history' /\ n + 1 \in DOMAIN history'
        BY <1>1, <1>4
      <4>. HIDE DEF n
      <4>. QED BY <3>1, <3>4, <4>1 DEF KeptOK
    <3>6. AloneOK(e)'
      BY <3>1 DEF AloneOK, IsAlone
    <3>. QED BY <2>1, <3>3, <3>5, <3>6
  <2>2. CASE d # e
    <3>1. UNCHANGED <<before[d], after[d], old[d], new[d], all[d], step[d], ended[d], diff[d],
                      wrote[d], raced[d]>>
      BY <1>0, <1>3, <2>2 DEF FilesTypeOK
    <3>2. EditOK(d)'
      BY <2>0, <3>1, EditStays
    <3>3. KeptOK(d)'
      <4>. HIDE DEF n
      <4>1. \A i \in DOMAIN history : i \in DOMAIN history' /\ history'[i] = history[i]
        BY <1>1, <1>4
      <4>. QED BY <2>0, <3>1, <4>1, Zenon DEF KeptOK
    <3>4. AloneOK(d)'
      <4>1. e \in Open
        BY <1>0 DEF Open
      <4>2. ~raced[d] => step[d] \notin {"open", "write"}
        BY <2>0, <2>2, <4>1 DEF AloneOK, IsAlone
      <4>. QED BY <3>1, <4>2 DEF AloneOK, IsAlone
    <3>. QED BY <3>2, <3>3, <3>4
  <2>. QED BY <2>1, <2>2
<1>. QED BY <1>5, <1>6, <1>7 DEF EditsOK

\* Nothing but pages and outputs has changed.
LEMMA ReadersKeep ==
  ASSUME EditsOK, FileOK,
         UNCHANGED <<step, old, new, all, before, after, ended, diff, text, history, wrote, raced>>
  PROVE  EditsOK' /\ FileOK' /\ Open' = Open /\ (Unwritten' <=> Unwritten)
<1>1. Open' = Open BY DEF Open
<1>2. \A e \in Editor : EditOK(e)' /\ KeptOK(e)' /\ AloneOK(e)'
  BY <1>1, OthersStay DEF EditsOK
<1>. QED BY <1>1, <1>2 DEF EditsOK, FileOK, Unwritten

LEMMA PageKeeps ==
  ASSUME FilesTypeOK, EditsOK, FileOK, PagesOK, InlineOK, ReadPage
  PROVE  FilesTypeOK' /\ EditsOK' /\ FileOK' /\ PagesOK' /\ InlineOK'
<1>. DEFINE l == Lines(text)  p == Page(l, offset, PageSize)  to == Least(offset + PageSize - 1, Len(l))
<1>0. PICK k \in 0..Len(p) :
        /\ offset <= Len(l) /\ page' = page \o SubSeq(p, 1, k) /\ offset' = offset + k
        /\ UNCHANGED <<step, old, new, all, before, after, ended, diff, text, history, wrote, raced, ends, given>>
  BY DEF ReadPage, edit
<1>1. /\ l \in Seq(Line) /\ Len(l) \in Nat /\ page \in Seq(Line) /\ offset \in Nat \ {0}
      /\ PageSize \in Nat \ {0}
  BY WorkspaceAssumption, LinesOfText DEF FilesTypeOK
<1>. HIDE DEF l
<1>2. to \in offset..Len(l)
  BY <1>0, <1>1 DEF Least
<1>. HIDE DEF to
<1>3. p = SubSeq(l, offset, to)
  BY DEF Page, to
<1>4. Len(p) = to - offset + 1 /\ SubSeq(p, 1, k) = SubSeq(l, offset, offset + k - 1)
  <2>1. Len(p) = to - offset + 1 /\ \A i \in 1..Len(p) : p[i] = l[offset + i - 1]
    BY <1>1, <1>2, <1>3
  <2>. HIDE DEF p
  <2>2. k \in Nat /\ k <= to - offset + 1
    BY <1>1, <1>2, <2>1
  <2>. DEFINE u == SubSeq(p, 1, k)  v == SubSeq(l, offset, offset + k - 1)
  <2>3. p \in Seq(Line)
    BY <1>1, <1>2, <1>3
  <2>4. u \in Seq(Line) /\ Len(u) = k /\ \A i \in 1..k : u[i] = p[i]
    BY <1>1, <1>2, <2>1, <2>2, <2>3
  <2>5. v \in Seq(Line) /\ Len(v) = k /\ \A i \in 1..k : v[i] = l[offset + i - 1]
    BY <1>1, <1>2, <2>2
  <2>6. \A i \in 1..k : p[i] = l[offset + i - 1]
    BY <1>1, <1>2, <2>1, <2>2
  <2>. HIDE DEF u, v
  <2>7. u = v
    BY <2>4, <2>5, <2>6, SeqEqual
  <2>. QED BY <2>1, <2>7 DEF u, v
<1>5. SubSeq(l, offset, offset + k - 1) \in Seq(Line) /\ offset + k - 1 \in (offset - 1)..Len(l) /\ k \in Nat
  <2>. HIDE DEF p
  <2>1. k \in Nat /\ offset + k - 1 <= to
    BY <1>1, <1>2, <1>4
  <2>. QED BY <1>1, <1>2, <2>1
<1>. HIDE DEF p
<1>6. FilesTypeOK'
  <2>1. page' \in Seq(Line)
    BY <1>0, <1>1, <1>4, <1>5, ConcatProperties
  <2>2. offset' \in Nat \ {0}
    BY <1>0, <1>1, <1>5
  <2>. QED BY <1>0, <2>1, <2>2 DEF FilesTypeOK
<1>7. EditsOK' /\ FileOK' /\ (Unwritten' <=> Unwritten)
  BY <1>0, ReadersKeep
<1>8. PagesOK'
  <2>. SUFFICES ASSUME Unwritten PROVE page' = SubSeq(l, 1, offset' - 1) /\ offset' - 1 <= Len(l)
    BY <1>0, <1>7 DEF PagesOK, PagesAreTheFile, l
  <2>1. page = SubSeq(l, 1, offset - 1)
    BY DEF PagesOK, PagesAreTheFile, l
  <2>. DEFINE j == offset - 1  i == offset + k - 1
  <2>2. j + 1 = offset /\ 1 \in 1..(Len(l) + 1) /\ j \in (1 - 1)..Len(l) /\ i \in j..Len(l)
    BY <1>0, <1>1, <1>5
  <2>3. offset' - 1 = i
    BY <1>0, <1>1, <1>5
  <2>. HIDE DEF j, i
  <2>4. SubSeq(l, 1, j) \o SubSeq(l, j + 1, i) = SubSeq(l, 1, i)
    BY <1>1, <2>2, ConcatAdjacentSubSeq
  <2>5. page' = SubSeq(l, 1, j) \o SubSeq(l, j + 1, i)
    BY <1>0, <1>4, <2>1, <2>2 DEF j, i
  <2>6. i <= Len(l)
    BY <1>1, <2>2
  <2>. QED BY <2>3, <2>4, <2>5, <2>6
<1>9. InlineOK'
  BY <1>0 DEF InlineOK, InlineIsMaximal, IsText
<1>. QED BY <1>6, <1>7, <1>8, <1>9

LEMMA BoundKeeps ==
  ASSUME FilesTypeOK, EditsOK, FileOK, PagesOK, InlineOK, BoundOutput
  PROVE  FilesTypeOK' /\ EditsOK' /\ FileOK' /\ PagesOK' /\ InlineOK'
<1>. DEFINE last == ends[Len(ends)]
<1>0. /\ ends # <<>> /\ given' = (IF last <= InlineLimit THEN last ELSE Cut(ends))
      /\ UNCHANGED <<step, old, new, all, before, after, ended, diff, text, history, wrote, raced,
                     page, offset, ends>>
  BY DEF BoundOutput, edit
<1>1. ends \in Seq(Nat) /\ InlineLimit \in Nat /\ IsText(ends)
  BY WorkspaceAssumption DEF FilesTypeOK, InlineOK
<1>2. Len(ends) \in DOMAIN ends /\ last \in Nat /\ DOMAIN ends = 1..Len(ends)
  BY <1>0, <1>1
<1>3. \A i \in DOMAIN ends : ends[i] > 0 /\ ends[i] <= last /\ ends[i] \in Nat
  <2>1. \A i \in DOMAIN ends : i \in 1..Len(ends)
    BY <1>2
  <2>. QED
    BY <1>1, <1>2, <2>1, EndsIncrease
<1>. HIDE DEF last
<1>4. given' \in Nat /\ InlineIsMaximal'
  <2>1. CASE last <= InlineLimit
    <3>1. given' = last /\ ends' = ends
      BY <1>0, <2>1
    <3>. QED
      BY <1>2, <1>3, <2>1, <3>1 DEF InlineIsMaximal, last
  <2>2. CASE ~(last <= InlineLimit)
    <3>. DEFINE c == Cut(ends)
    <3>1. given' = c /\ ends' = ends
      BY <1>0, <2>2
    <3>2. c \in 0..InlineLimit /\ IsBoundary(ends, c) /\ \A j \in (c + 1)..InlineLimit : ~IsBoundary(ends, j)
      BY <1>1, CutIsBoundary
    <3>. HIDE DEF c
    <3>3. c # 0 => \E i \in DOMAIN ends : ends[i] = c
      BY <3>2 DEF IsBoundary
    <3>4. ASSUME NEW i \in DOMAIN ends, ends[i] <= InlineLimit PROVE ends[i] <= c
      <4>1. ends[i] \in Nat /\ IsBoundary(ends, ends[i])
        BY <1>3 DEF IsBoundary
      <4>2. ends[i] \notin (c + 1)..InlineLimit
        BY <3>2, <4>1
      <4>. QED
        BY <1>1, <3>2, <3>4, <4>1, <4>2
    <3>. QED
      BY <1>1, <3>1, <3>2, <3>3, <3>4 DEF InlineIsMaximal
  <2>. QED
    BY <2>1, <2>2
<1>5. EditsOK' /\ FileOK' /\ (Unwritten' <=> Unwritten)
  BY <1>0, ReadersKeep
<1>6. FilesTypeOK'
  BY <1>0, <1>4 DEF FilesTypeOK
<1>7. PagesOK' /\ IsText(ends)'
  BY <1>0, <1>1, <1>5 DEF PagesOK, PagesAreTheFile, IsText
<1>. QED BY <1>4, <1>5, <1>6, <1>7 DEF InlineOK

LEMMA FilesStep == FilesInv /\ [FilesNext]_fileVars => FilesInv'
<1>1. FilesInv' <=> FilesTypeOK' /\ EditsOK' /\ FileOK' /\ PagesOK' /\ InlineOK'
  <2>1. EditsAreKept' <=> (\A e \in Editor : KeptOK(e)') /\ FileOK'
    BY Zenon DEF EditsAreKept, KeptOK, FileOK
  <2>. QED BY <2>1, ZenonT(30) DEF FilesInv, EditsOK, EditOK, AloneOK, PagesOK, InlineOK
<1>. SUFFICES ASSUME FilesTypeOK, EditsOK, FileOK, PagesOK, InlineOK, [FilesNext]_fileVars
              PROVE  FilesTypeOK' /\ EditsOK' /\ FileOK' /\ PagesOK' /\ InlineOK'
  BY <1>1, FilesParts
<1>2. ASSUME NEW e \in Editor, ReadForEdit(e) PROVE FilesTypeOK' /\ EditsOK' /\ FileOK' /\ PagesOK' /\ InlineOK'
  BY <1>2, ReadKeeps
<1>3. ASSUME NEW e \in Editor, OpenFile(e) PROVE FilesTypeOK' /\ EditsOK' /\ FileOK' /\ PagesOK' /\ InlineOK'
  BY <1>3, OpenKeeps
<1>4. ASSUME NEW e \in Editor, WriteFile(e) PROVE FilesTypeOK' /\ EditsOK' /\ FileOK' /\ PagesOK' /\ InlineOK'
  BY <1>4, WriteKeeps
<1>5. CASE ReadPage
  BY <1>5, PageKeeps
<1>6. CASE BoundOutput
  BY <1>6, BoundKeeps
<1>7. CASE UNCHANGED fileVars
  <2>1. EditsOK' /\ FileOK' /\ (Unwritten' <=> Unwritten)
    BY <1>7, ReadersKeep DEF fileVars
  <2>2. FilesTypeOK'
    BY <1>7 DEF fileVars, FilesTypeOK
  <2>3. PagesOK' /\ InlineOK'
    BY <1>7, <2>1 DEF fileVars, PagesOK, PagesAreTheFile, InlineOK, InlineIsMaximal, IsText
  <2>. QED BY <2>1, <2>2, <2>3
<1>. QED
  BY <1>2, <1>3, <1>4, <1>5, <1>6, <1>7 DEF FilesNext

\* The diff of a finished edit, and the place of one without replace_all.
LEMMA EditsAreOwn ==
  ASSUME FilesTypeOK, EditsOK
  PROVE  DiffIsOfEdit /\ SingleEditChangesOne
<1>1. ASSUME NEW e \in Editor, ended[e] = "edited"
      PROVE  DiffIsOf(Lines(before[e]), Lines(after[e]), diff[e])
  <2>1. diff[e] = LineDiff(Lines(before[e]), Lines(after[e]))
    BY <1>1 DEF EditsOK, EditOK
  <2>2. Lines(before[e]) \in Seq(Line) /\ Lines(after[e]) \in Seq(Line)
    BY LinesOfText DEF FilesTypeOK
  <2>. QED
    BY <2>1, <2>2, DiffsAreOwn
<1>2. ASSUME NEW e \in Editor, ended[e] = "edited", ~all[e]
      PROVE  \E i \in Starts(before[e], old[e]) :
               after[e] = SubSeq(before[e], 1, i - 1) \o new[e]
                            \o SubSeq(before[e], i + Len(old[e]), Len(before[e]))
  <2>. DEFINE S == Matched(before[e], old[e])
  <2>1. before[e] \in Seq(Char) /\ old[e] \in Seq(Char) /\ new[e] \in Seq(Char) /\ IsEdit(e)
    BY <1>2 DEF FilesTypeOK, EditsOK, EditOK
  <2>2. IsFiniteSet(S) /\ Cardinality(S) \in Nat
    BY <2>1, MatchedAreStarts
  <2>3. Cardinality(S) # 0 /\ Cardinality(S) <= 1
    BY <1>2, <2>1 DEF IsEdit
  <2>. HIDE DEF S
  <2>4. Cardinality(S) = 1
    BY <2>2, <2>3
  <2>5. PICK i : S = {i}
    BY <2>2, <2>4, FS_Singleton
  <2>6. /\ i \in Starts(before[e], old[e])
        /\ Replaced(before[e], old[e], new[e])
             = SubSeq(before[e], 1, i - 1) \o new[e] \o SubSeq(before[e], i + Len(old[e]), Len(before[e]))
    BY <2>1, <2>5, ReplacedOne DEF S
  <2>. QED
    BY <2>1, <2>6 DEF IsEdit
<1>. QED
  BY <1>1, <1>2 DEF DiffIsOfEdit, SingleEditChangesOne

\* EditTool, line_diff, ReadTool and bound_output: diffs are of their edits, an edit is lost
\* only to one that races it, pages put together are the file, and a cut keeps as much as
\* fits; for any texts, any number of editors and any bounds.
THEOREM EditsAndPagesAreAlwaysTrue == FilesSpec => []EditsAndPagesAreTrue
<1>1. FilesInv => EditsAndPagesAreTrue
  <2>1. FilesInv => FilesTypeOK /\ EditsAreKept /\ PagesAreTheFile /\ InlineIsMaximal
    BY Zenon DEF FilesInv
  <2>. QED BY <2>1, FilesParts, EditsAreOwn DEF EditsAndPagesAreTrue
<1>. QED
  BY FilesInitially, FilesStep, <1>1, PTL DEF FilesSpec
=============================================================================
