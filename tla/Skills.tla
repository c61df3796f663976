------------------------------- MODULE Skills -------------------------------
(***************************************************************************)
(* The tools of a session (forge-cli's skills.rs over forge-verify's         *)
(* vetter.rs and forge-tools' registry.rs, mcp.rs and lsp.rs): skills are    *)
(* vetted one by one and loaded from a manifest that is read again, then     *)
(* the tools of MCP and language servers follow; a session records what the  *)
(* vetter says in the ledger, where an append may fail.  The directories are *)
(* the user's, who may change them at any step.                             *)
(***************************************************************************)
EXTENDS Naturals, Sequences, FiniteSets, SequencesExt

CONSTANTS BuiltinDir, ThirdPartyDir, \* skills/ and .forge/skills/
          Content,                   \* what a directory may hold
          NativeName, ServerName, SkillName,
          MaxEdits, None

Dir  == BuiltinDir \cup ThirdPartyDir
Name == NativeName \cup ServerName \cup SkillName

\* features: what scans of the files find; failing: a verify step of the skill
\* itself ends with an exit code other than 0.
ContentType == [manifest : BOOLEAN, name : Name, entrypoint : BOOLEAN, permissions : SUBSET {"bash", "net"},
                features : SUBSET {"dangerous", "bash", "net"}, failing : BOOLEAN]

ASSUME SkillsAssumption ==
  /\ Content \subseteq ContentType /\ BuiltinDir \cap ThirdPartyDir = {}
  /\ None \notin Dir \cup Content /\ IsFiniteSet(NativeName) /\ MaxEdits \in Nat

VARIABLES at, todo, dir, \* the loader: its stage, directories left, the one in hand
          read,          \* what the vetter has read of it
          disk, edits,
          tools,         \* the registry, in the order of registration
          passed,        \* directories whose latest decision was Vet
          record,        \* entries skill.vetting of the ledger
          unrecorded     \* directories whose entry could not be appended: stderr tells of them
vars == <<at, todo, dir, read, disk, edits, tools, passed, record, unrecorded>>

Tool == [name : Name, source : {"native", "builtin", "third-party", "mcp", "lsp"}, dir : Dir \cup {None},
         sandboxed : BOOLEAN]

TypeOK ==
  /\ at \in {"builtin", "third-party", "mcp", "lsp", "audit", "done"}
  /\ todo \subseteq Dir /\ dir \in Dir \cup {None} /\ disk \in [Dir -> Content]
  /\ read \in Content \cup {None} /\ (read = None <=> dir = None)
  /\ edits \in 0..MaxEdits /\ tools \in Seq(Tool) /\ passed \subseteq Dir
  /\ record \subseteq [dir : Dir, status : {"aprovado", "bloqueado"}] /\ unrecorded \subseteq Dir

Plain(n) == [name |-> n, source |-> "native", dir |-> None, sandboxed |-> FALSE]

Init ==
  /\ at = "builtin" /\ todo = BuiltinDir /\ dir = None /\ read = None
  /\ disk \in [Dir -> Content] /\ edits = 0
  /\ tools = SetToSeq({Plain(n) : n \in NativeName}) /\ passed = {} /\ record = {} /\ unrecorded = {}

-----------------------------------------------------------------------------
Names == {tools[i].name : i \in DOMAIN tools}

\* Undeclared use of commands or of the network, and dangerous text, are critical.
Findings(c) ==
  (c.features \cap {"dangerous"}) \cup (c.features \ (c.permissions \cup {"dangerous"}))

\* Faulty: the verify steps of a skill are run and their verdict is not looked at.
Vets_IgnoresVerdict(c) == c.manifest /\ Findings(c) = {}

\* vet_skill: a missing manifest, a critical finding and the verdict Fail block.
Vets(c) == c.manifest /\ Findings(c) = {} /\ ~c.failing

\* The vetter reads the directory, runs its verify steps and decides.
VetSkill(d) ==
  /\ at \in {"builtin", "third-party"} /\ dir = None /\ d \in todo
  /\ todo' = todo \ {d}
  /\ IF Vets(disk[d])
       THEN dir' = d /\ read' = disk[d] /\ passed' = passed \cup {d}
       ELSE UNCHANGED <<dir, read>> /\ passed' = passed \ {d}
  /\ UNCHANGED <<at, disk, edits, tools, record, unrecorded>>

\* Faulty: a collision is looked for with the name that was vetted.
Collides_AsVetted(c) == read.name \in Names

\* registry.get on the name of the manifest as it is read now.
Collides(c) == c.name \in Names

\* The manifest is read again; what follows is decided by what it says now.
LoadSkill ==
  LET c == disk[dir] IN
  /\ dir # None /\ dir' = None /\ read' = None
  /\ tools' = IF c.manifest /\ c.entrypoint /\ ~Collides(c)
                THEN Append(tools, [name |-> c.name, source |-> at, dir |-> dir,
                                    sandboxed |-> at = "third-party"])
                ELSE tools
  /\ UNCHANGED <<at, todo, disk, edits, passed, record, unrecorded>>

LoadServerTool(s, n) ==
  /\ at = s /\ n \in ServerName /\ n \notin Names
  /\ tools' = Append(tools, [name |-> n, source |-> s, dir |-> None, sandboxed |-> FALSE])
  /\ UNCHANGED <<at, todo, dir, read, disk, edits, passed, record, unrecorded>>

\* The tools a server announces; one that cannot be reached is left out.
RegisterMcpServer == \E n \in ServerName : LoadServerTool("mcp", n)

\* Three names for each declared server; no process is started.
RegisterLspServer == \E n \in ServerName : LoadServerTool("lsp", n)

\* Faulty: the audit forgets the skills of third parties.
Audited_BuiltinOnly == BuiltinDir

Audited == Dir

\* build_registry: the sources one after the other.
NextSource ==
  /\ dir = None /\ todo = {}
  /\ \/ at = "builtin" /\ at' = "third-party" /\ todo' = ThirdPartyDir
     \/ at = "third-party" /\ at' = "mcp" /\ UNCHANGED todo
     \/ at = "mcp" /\ at' = "lsp" /\ UNCHANGED todo
     \/ at = "lsp" /\ at' = "audit" /\ todo' = Audited
     \/ at = "audit" /\ at' = "done" /\ UNCHANGED todo
  /\ UNCHANGED <<dir, read, disk, edits, tools, passed, record, unrecorded>>

\* decision_to_skill_status of a decision that is made again.
Status(d) == IF Vets(disk[d]) THEN "aprovado" ELSE "bloqueado"

\* record_skill_vetting: one entry for each directory, known by it, from list_skill_statuses; the
\* note of the session drops the error of an append, and the session goes on.
RecordVetting(d) ==
  /\ at = "audit" /\ d \in todo /\ todo' = todo \ {d}
  /\ \/ record' = record \cup {[dir |-> d, status |-> Status(d)]} /\ UNCHANGED unrecorded
     \/ unrecorded' = unrecorded \cup {d} /\ UNCHANGED record
  /\ UNCHANGED <<at, dir, read, disk, edits, tools, passed>>

Edit(d) ==
  /\ edits < MaxEdits /\ edits' = edits + 1
  /\ \E c \in Content : disk' = [disk EXCEPT ![d] = c]
  /\ UNCHANGED <<at, todo, dir, read, tools, passed, record, unrecorded>>

Next ==
  \/ \E d \in Dir : VetSkill(d) \/ RecordVetting(d) \/ Edit(d)
  \/ LoadSkill \/ RegisterMcpServer \/ RegisterLspServer \/ NextSource

Spec == Init /\ [][Next]_vars

-----------------------------------------------------------------------------
\* A name leads to one tool, in whatever order sources and names come, and though
\* a manifest changes while it is vetted: no skill or server hides another.
NamesAreUnique == \A i, j \in DOMAIN tools : tools[i].name = tools[j].name => i = j

\* Every skill of the registry comes from a directory that the vetter, when it
\* was asked, found without findings and without a failing step.
OnlyVettedAreLoaded ==
  \A i \in DOMAIN tools :
    tools[i].dir # None =>
      /\ tools[i].dir \in passed
      /\ edits = 0 => ~disk[tools[i].dir].failing /\ Findings(disk[tools[i].dir]) = {}

\* The audit has told once of each directory, or its append has failed; and if nobody
\* changed the directories meanwhile, it never contradicts the session, though it asks
\* the vetter again: a skill of the registry is approved in the ledger, unless that very
\* append has failed, and no entry says that it was blocked.
RecordAgrees ==
  at = "done" =>
    /\ \A d \in Dir : (\E r \in record : r.dir = d) <=> d \notin unrecorded
    /\ \A r, s \in record : r.dir = s.dir => r = s
    /\ edits = 0 =>
         \A i \in DOMAIN tools :
           tools[i].dir \in Dir \ unrecorded => [dir |-> tools[i].dir, status |-> "aprovado"] \in record

\* build_registry and the session's audit of it, while directories change.
SkillsAreVetted == TypeOK /\ NamesAreUnique /\ OnlyVettedAreLoaded /\ RecordAgrees

\* What the audit has behind it is in the ledger once, as the vetter says it, or failed.
Recorded ==
  /\ \A d \in Dir : (\E r \in record : r.dir = d) <=> d \notin todo \cup unrecorded
  /\ unrecorded \cap todo = {} /\ \A r, s \in record : r.dir = s.dir => r = s
  /\ edits = 0 => \A r \in record : r.status = Status(r.dir)

\* Its inductive strengthening: a directory that has been passed is not vetted again,
\* the one in hand has just passed, and what the audit has behind it is recorded.
LoaderInv ==
  /\ at = "builtin" =>
       /\ todo \subseteq BuiltinDir /\ dir \notin ThirdPartyDir
       /\ \A i \in DOMAIN tools : tools[i].dir \notin ThirdPartyDir
  /\ at = "third-party" => todo \subseteq ThirdPartyDir
  /\ at = "done" => todo = {}
  /\ dir # None => at \in {"builtin", "third-party"} /\ dir \in passed /\ dir \notin todo
  /\ at # "audit" => \A i \in DOMAIN tools : tools[i].dir \notin todo
  /\ edits = 0 => \A d \in passed : Vets(disk[d])
  /\ at \notin {"audit", "done"} => record = {} /\ unrecorded = {}
  /\ at \in {"audit", "done"} => Recorded

SkillsInv == SkillsAreVetted /\ LoaderInv
=============================================================================
