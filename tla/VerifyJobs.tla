----------------------------- MODULE VerifyJobs -----------------------------
(***************************************************************************)
(* The verification jobs of the dashboard (forge-server's lib.rs): requests  *)
(* that start a run, the one slot they share, the blocking thread of each    *)
(* run, and clients that poll for the run they have started.                *)
(***************************************************************************)
EXTENDS Naturals, FiniteSets

CONSTANTS Client, MaxSteps

\* A run has the name of the request that has started it.
VARIABLES pc,      \* of a client: its request, and then its polling
          slot,    \* verify_job; no run: None
          job,     \* steps a thread has finished; its place in the code
          outcome, \* of a finished run
          got,     \* the last answer to a client; of: whose evidence
          raced    \* a request checked the slot while another was about to set it
verifyVars == <<pc, slot, job, outcome, got, raced>>

Nobody == "nobody"

ASSUME VerifyJobsAssumption == MaxSteps \in Nat \ {0} /\ Nobody \notin Client

Empty  == [run |-> Nobody, status |-> "none", step |-> 0, of |-> Nobody]
Slot   == [run : Client \cup {Nobody}, status : {"none", "running", "done"}, step : 0..MaxSteps,
           of : Client \cup {Nobody}]

VerifyTypeOK ==
  /\ pc \in [Client -> {"idle", "checked", "polling", "conflict", "done", "lost"}]
  /\ slot \in Slot /\ (slot.status = "none" <=> slot.run = Nobody)
  /\ (slot.status = "done" <=> slot.of # Nobody)
  /\ job \in [Client -> [at : {"none", "step", "evidence", "over"}, step : 0..MaxSteps]]
  /\ outcome \in [Client -> {"none", "Pass", "Fail"}]
  /\ got \in [Client -> Client \cup {Nobody}] /\ raced \in BOOLEAN

VerifyInit ==
  /\ pc = [c \in Client |-> "idle"] /\ slot = Empty
  /\ job = [c \in Client |-> [at |-> "none", step |-> 0]]
  /\ outcome = [c \in Client |-> "none"] /\ got = [c \in Client |-> Nobody] /\ raced = FALSE

-----------------------------------------------------------------------------
MoveOn(c, l) == pc' = [pc EXCEPT ![c] = l]

\* Faulty: a run that has not finished a step yet is overlooked.
Busy_OnceStepped == slot.status = "running" /\ slot.step > 0

Busy == slot.status = "running"

\* The first critical section of run_verify_start; 409 names the run in the slot.
CheckSlot(c) ==
  /\ pc[c] = "idle"
  /\ IF Busy THEN MoveOn(c, "conflict") /\ got' = [got EXCEPT ![c] = slot.run] /\ UNCHANGED raced
     ELSE MoveOn(c, "checked") /\ UNCHANGED got
          /\ raced' = (raced \/ \E d \in Client \ {c} : pc[d] = "checked")
  /\ UNCHANGED <<slot, job, outcome>>

\* The second one, the thread, and the answer with the run's id.
StartRun(c) ==
  /\ pc[c] = "checked" /\ MoveOn(c, "polling")
  /\ slot' = [run |-> c, status |-> "running", step |-> 0, of |-> Nobody]
  /\ job' = [job EXCEPT ![c].at = "step"]
  /\ UNCHANGED <<outcome, got, raced>>

\* A step is run; its progress goes to the slot, whichever run that names.
RunStep(c) ==
  /\ job[c].at = "step" /\ job[c].step < MaxSteps
  /\ job' = [job EXCEPT ![c].step = @ + 1]
  /\ slot' = [slot EXCEPT !.status = "running", !.step = job[c].step + 1, !.of = Nobody]
  /\ UNCHANGED <<pc, outcome, got, raced>>

\* All steps have run: the evidence and its outcome.
Conclude(c) ==
  /\ job[c].at = "step" /\ job[c].step = MaxSteps
  /\ job' = [job EXCEPT ![c].at = "evidence"]
  /\ \E v \in {"Pass", "Fail"} : outcome' = [outcome EXCEPT ![c] = v]
  /\ UNCHANGED <<pc, slot, got, raced>>

\* Faulty: only a run that has passed leaves its evidence.
Recorded_Passing(c) == IF outcome[c] = "Pass" THEN [slot EXCEPT !.status = "done", !.of = c] ELSE slot

Recorded(c) == [slot EXCEPT !.status = "done", !.of = c]

StoreEvidence(c) ==
  /\ job[c].at = "evidence" /\ job' = [job EXCEPT ![c].at = "over"] /\ slot' = Recorded(c)
  /\ UNCHANGED <<pc, outcome, got, raced>>

\* Faulty: what is in the slot is given to every client.
Answers_Any(c) == slot.run # Nobody

Answers(c) == slot.run = c

\* get_verify_status: 404 for a run that another one has replaced.
Poll(c) ==
  /\ pc[c] = "polling"
  /\ \/ ~Answers(c) /\ MoveOn(c, "lost") /\ UNCHANGED got
     \/ Answers(c) /\ slot.status = "done" /\ MoveOn(c, "done") /\ got' = [got EXCEPT ![c] = slot.of]
  /\ UNCHANGED <<slot, job, outcome, raced>>

JobStep(c) == RunStep(c) \/ Conclude(c) \/ StoreEvidence(c)

VerifyNext == \E c \in Client : CheckSlot(c) \/ StartRun(c) \/ JobStep(c) \/ Poll(c)

VerifySpec == VerifyInit /\ [][VerifyNext]_verifyVars

\* Threads and handlers go on, and a client with a run goes on polling.
VerifyFairSpec ==
  /\ VerifySpec
  /\ \A c \in Client : WF_verifyVars(StartRun(c)) /\ WF_verifyVars(JobStep(c)) /\ WF_verifyVars(Poll(c))

-----------------------------------------------------------------------------
\* Where no two requests were between the two critical sections at once, a
\* client is given the evidence of its own run, and the slot that of its run.
EvidenceIsOfRun ==
  ~raced => /\ slot.status = "done" => slot.of = slot.run
            /\ \A c \in Client : pc[c] = "done" => got[c] = c

\* The next state: a finished run never runs again, nor does its evidence change.
StaysDone == ~raced' /\ slot.status = "done" /\ slot'.run = slot.run => slot' = slot
DoneIsFinal == [][StaysDone]_verifyVars

\* Whoever has started a run learns its evidence, or that another has replaced it.
PollersEnd == \A c \in Client : pc[c] = "polling" ~> pc[c] \in {"done", "lost"}

\* "Execucoes concorrentes sao serializadas: so 1 job por vez" (lib.rs:361), as far as
\* no two requests met so: a finished job does not let a second one in early.
OneJobAtATime == ~raced => Cardinality({c \in Client : job[c].at \in {"step", "evidence"}}) <= 1
\* The inductive strengthening.  Where no two requests met, at most one client is between its
\* two sections or has a thread, and the slot is that run's until it ends.
Active(c)  == job[c].at \in {"step", "evidence"}
Engaged(c) == pc[c] = "checked" \/ Active(c)

VerifyInv ==
  /\ VerifyTypeOK
  /\ \A c \in Client : (job[c].at = "none" <=> pc[c] \in {"idle", "checked", "conflict"})
                       /\ (job[c].at # "none" => slot.run # Nobody)
  /\ ~raced => /\ \A c, d \in Client : Engaged(c) /\ Engaged(d) => c = d
               /\ \A c \in Client : Active(c) => slot.run = c /\ slot.status = "running"
               /\ slot.status = "done" => slot.of = slot.run /\ job[slot.run].at = "over"
               /\ \A c \in Client : pc[c] = "done" => got[c] = c
=============================================================================
