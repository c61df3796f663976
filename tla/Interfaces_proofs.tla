-------------------------- MODULE Interfaces_proofs --------------------------
(***************************************************************************)
(* Proofs about the terminal interface and the handlers of the dashboard.    *)
(* In each section: what one operation does, the inductive invariant step    *)
(* by step, and the theorem.                                                *)
(***************************************************************************)
EXTENDS Tui, Dashboard, FiniteSetTheorems, SequenceTheorems, TLAPS

-----------------------------------------------------------------------------
\* Verification jobs.
LEMMA VerifyStarts == VerifyInit => VerifyInv
<1>. SUFFICES ASSUME VerifyInit PROVE VerifyInv
  OBVIOUS
<1>. USE VerifyJobsAssumption
<1>1. VerifyTypeOK
  <2>1. 0 \in 0..MaxSteps
    OBVIOUS
  <2>2. slot \in Slot /\ slot.status = "none" /\ slot.run = Nobody /\ slot.of = Nobody
    BY <2>1 DEF VerifyInit, Slot, Empty
  <2>3. job \in [Client -> [at : {"none", "step", "evidence", "over"}, step : 0..MaxSteps]]
    BY <2>1 DEF VerifyInit
  <2>. QED
    BY <2>2, <2>3 DEF VerifyInit, VerifyTypeOK
<1>. QED
  BY <1>1 DEF VerifyInit, VerifyInv, Engaged, Active, Empty

\* Each action keeps the type, and what it says of the thread and the slot of each client.
LEMMA VerifyStaysTrue == VerifyInv /\ [VerifyNext]_verifyVars => VerifyInv'
<1>. SUFFICES ASSUME VerifyInv, [VerifyNext]_verifyVars PROVE VerifyInv'
  OBVIOUS
<1>a. MaxSteps \in Nat \ {0} /\ Nobody \notin Client
  BY VerifyJobsAssumption
<1>b. /\ pc \in [Client -> {"idle", "checked", "polling", "conflict", "done", "lost"}]
      /\ slot \in Slot /\ (slot.status = "none" <=> slot.run = Nobody)
      /\ (slot.status = "done" <=> slot.of # Nobody)
      /\ job \in [Client -> [at : {"none", "step", "evidence", "over"}, step : 0..MaxSteps]]
      /\ outcome \in [Client -> {"none", "Pass", "Fail"}]
      /\ got \in [Client -> Client \cup {Nobody}] /\ raced \in BOOLEAN
  BY DEF VerifyInv, VerifyTypeOK
<1>c. /\ slot.run \in Client \cup {Nobody} /\ slot.status \in {"none", "running", "done"}
      /\ slot.step \in 0..MaxSteps /\ slot.of \in Client \cup {Nobody}
  BY <1>b DEF Slot
<1>d. /\ \A c \in Client : (job[c].at = "none" <=> pc[c] \in {"idle", "checked", "conflict"})
                           /\ (job[c].at # "none" => slot.run # Nobody)
      /\ ~raced => /\ \A c, d \in Client : Engaged(c) /\ Engaged(d) => c = d
                   /\ \A c \in Client : Active(c) => slot.run = c /\ slot.status = "running"
                   /\ slot.status = "done" => slot.of = slot.run /\ job[slot.run].at = "over"
                   /\ \A c \in Client : pc[c] = "done" => got[c] = c
  BY DEF VerifyInv
<1>1. ASSUME NEW c \in Client, CheckSlot(c) PROVE VerifyInv'
  <2>1. VerifyTypeOK'
    BY <1>b, <1>c, <1>1 DEF CheckSlot, MoveOn, VerifyTypeOK
  <2>2. slot' = slot /\ job' = job /\ pc[c] = "idle" /\ pc'[c] \in {"checked", "conflict"}
        /\ \A d \in Client \ {c} : pc'[d] = pc[d] /\ got'[d] = got[d]
    BY <1>b, <1>1 DEF CheckSlot, MoveOn
  <2>3. \A d \in Client : (job'[d].at = "none" <=> pc'[d] \in {"idle", "checked", "conflict"})
                          /\ (job'[d].at # "none" => slot'.run # Nobody)
    BY <1>d, <2>2
  <2>4. ASSUME ~raced' PROVE ~raced /\ (pc'[c] = "checked" => \A d \in Client : ~Engaged(d))
    <3>1. ~raced
      BY <1>1, <2>4 DEF CheckSlot
    <3>2. pc'[c] = "checked" => slot.status # "running" /\ \A d \in Client \ {c} : pc[d] # "checked"
      BY <1>b, <1>1, <2>4 DEF CheckSlot, MoveOn, Busy
    <3>. QED
      BY <1>d, <2>2, <3>1, <3>2 DEF Engaged, Active
  <2>5. ~raced' => \A d, e \in Client : Engaged(d)' /\ Engaged(e)' => d = e
    BY <1>d, <2>2, <2>4 DEF Engaged, Active
  <2>. QED
    BY <1>d, <2>1, <2>2, <2>3, <2>4, <2>5 DEF VerifyInv, Active
<1>2. ASSUME NEW c \in Client, StartRun(c) PROVE VerifyInv'
  <2>1. /\ slot' = [run |-> c, status |-> "running", step |-> 0, of |-> Nobody] /\ c # Nobody
        /\ pc[c] = "checked" /\ pc' = [pc EXCEPT ![c] = "polling"] /\ job' = [job EXCEPT ![c].at = "step"]
        /\ outcome' = outcome /\ got' = got /\ raced' = raced
    BY <1>a, <1>2 DEF StartRun, MoveOn
  <2>2. VerifyTypeOK'
    BY <1>a, <1>b, <2>1 DEF VerifyTypeOK, Slot
  <2>3. job'[c].at = "step" /\ pc'[c] = "polling" /\ \A d \in Client \ {c} : pc'[d] = pc[d] /\ job'[d] = job[d]
    BY <1>b, <2>1
  <2>4. ~raced => \A d \in Client \ {c} : ~Engaged(d)
    BY <1>d, <2>1 DEF Engaged
  <2>. QED
    BY <1>d, <2>1, <2>2, <2>3, <2>4 DEF VerifyInv, Engaged, Active
<1>3. ASSUME NEW c \in Client, RunStep(c) PROVE VerifyInv'
  <2>1. /\ job[c].at = "step" /\ job' = [job EXCEPT ![c].step = @ + 1] /\ job[c].step < MaxSteps
        /\ slot' = [slot EXCEPT !.status = "running", !.step = job[c].step + 1, !.of = Nobody]
        /\ pc' = pc /\ outcome' = outcome /\ got' = got /\ raced' = raced /\ slot.run # Nobody
    BY <1>d, <1>3 DEF RunStep
  <2>2. job[c].step \in 0..MaxSteps
    BY <1>b
  <2>3. slot'.run = slot.run /\ slot'.status = "running" /\ slot'.of = Nobody /\ slot' \in Slot
    <3>1. job[c].step + 1 \in 0..MaxSteps
      BY <1>a, <2>1, <2>2
    <3>. QED
      BY <1>a, <1>b, <2>1, <3>1 DEF Slot
  <2>4. VerifyTypeOK'
    BY <1>a, <1>b, <2>1, <2>2, <2>3 DEF VerifyTypeOK
  <2>5. \A d \in Client : job'[d].at = job[d].at
    BY <1>b, <2>1
  <2>. QED
    BY <1>d, <2>1, <2>3, <2>4, <2>5 DEF VerifyInv, Engaged, Active
<1>4. ASSUME NEW c \in Client, Conclude(c) PROVE VerifyInv'
  <2>1. /\ job[c].at = "step" /\ job' = [job EXCEPT ![c].at = "evidence"]
        /\ slot' = slot /\ pc' = pc /\ got' = got /\ raced' = raced
    BY <1>4 DEF Conclude
  <2>2. VerifyTypeOK'
    BY <1>b, <1>4, <2>1 DEF Conclude, VerifyTypeOK
  <2>3. job'[c].at = "evidence" /\ \A d \in Client \ {c} : job'[d] = job[d]
    BY <1>b, <2>1
  <2>. QED
    BY <1>d, <2>1, <2>2, <2>3 DEF VerifyInv, Engaged, Active
<1>5. ASSUME NEW c \in Client, StoreEvidence(c) PROVE VerifyInv'
  <2>1. /\ job[c].at = "evidence" /\ job' = [job EXCEPT ![c].at = "over"] /\ c # Nobody
        /\ slot' = [slot EXCEPT !.status = "done", !.of = c] /\ slot.run # Nobody
        /\ pc' = pc /\ outcome' = outcome /\ got' = got /\ raced' = raced
    BY <1>a, <1>d, <1>5 DEF StoreEvidence, Recorded
  <2>2. slot'.run = slot.run /\ slot'.status = "done" /\ slot'.of = c /\ slot' \in Slot
    BY <1>a, <1>b, <2>1 DEF Slot
  <2>3. VerifyTypeOK'
    BY <1>b, <2>1, <2>2 DEF VerifyTypeOK
  <2>4. job'[c].at = "over" /\ \A d \in Client \ {c} : job'[d] = job[d]
    BY <1>b, <2>1
  <2>5. ~raced => slot.run = c /\ \A d \in Client \ {c} : ~Engaged(d)
    BY <1>d, <2>1 DEF Engaged, Active
  <2>. QED
    BY <1>d, <2>1, <2>2, <2>3, <2>4, <2>5 DEF VerifyInv, Engaged, Active
<1>6. ASSUME NEW c \in Client, Poll(c) PROVE VerifyInv'
  <2>1. /\ pc[c] = "polling" /\ slot' = slot /\ job' = job /\ outcome' = outcome /\ raced' = raced
        /\ \/ pc' = [pc EXCEPT ![c] = "lost"] /\ got' = got
           \/ slot.run = c /\ slot.status = "done" /\ pc' = [pc EXCEPT ![c] = "done"] /\ got' = [got EXCEPT ![c] = slot.of]
    BY <1>6 DEF Poll, MoveOn, Answers
  <2>2. VerifyTypeOK'
    BY <1>b, <1>c, <2>1 DEF VerifyTypeOK
  <2>3. \A d \in Client \ {c} : pc'[d] = pc[d] /\ got'[d] = got[d]
    BY <1>b, <2>1
  <2>4. pc'[c] \in {"lost", "done"} /\ (pc'[c] = "done" => got'[c] = slot.of /\ slot.run = c /\ slot.status = "done")
    BY <1>b, <2>1
  <2>. QED
    BY <1>d, <2>1, <2>2, <2>3, <2>4 DEF VerifyInv, Engaged, Active
<1>7. CASE UNCHANGED verifyVars
  BY <1>b, <1>d, <1>7 DEF verifyVars, VerifyInv, VerifyTypeOK, Engaged, Active
<1>. QED
  BY <1>1, <1>2, <1>3, <1>4, <1>5, <1>6, <1>7 DEF VerifyNext, JobStep

LEMMA VerifyInvIsEnough == VerifyInv => VerifyTypeOK /\ OneJobAtATime /\ EvidenceIsOfRun
<1>. SUFFICES ASSUME VerifyInv PROVE VerifyTypeOK /\ OneJobAtATime /\ EvidenceIsOfRun
  OBVIOUS
<1>1. ASSUME ~raced PROVE Cardinality({c \in Client : job[c].at \in {"step", "evidence"}}) <= 1
  <2>. DEFINE A == {c \in Client : job[c].at \in {"step", "evidence"}}
  <2>1. \A c, d \in A : c = d
    BY <1>1 DEF VerifyInv, Engaged, Active
  <2>2. A = {} \/ \E c : A = {c}
    BY <2>1
  <2>. QED
    <3>1. ASSUME A = {} PROVE Cardinality(A) <= 1
      BY <3>1, FS_EmptySet
    <3>2. ASSUME NEW c, A = {c} PROVE Cardinality(A) <= 1
      <4>1. Cardinality({c}) = 1
        BY FS_Singleton
      <4>. QED
        BY <3>2, <4>1
    <3>. QED
      BY <2>2, <3>1, <3>2
<1>. QED
  BY <1>1 DEF VerifyInv, OneJobAtATime, EvidenceIsOfRun

LEMMA DoneStays == VerifyInv /\ [VerifyNext]_verifyVars => [StaysDone]_verifyVars
<1>. SUFFICES ASSUME VerifyInv, VerifyNext, ~raced', slot.status = "done", slot'.run = slot.run
              PROVE slot' = slot
  BY DEF StaysDone
<1>1. PICK c \in Client : CheckSlot(c) \/ StartRun(c) \/ JobStep(c) \/ Poll(c)
  BY DEF VerifyNext
<1>2. ~raced /\ slot.status # "running"
  BY <1>1 DEF CheckSlot, StartRun, JobStep, RunStep, Conclude, StoreEvidence, Poll, VerifyInv, VerifyTypeOK
<1>3. ~Active(c)
  BY <1>2 DEF VerifyInv
<1>4. ~JobStep(c) \/ slot' = slot
  BY <1>3 DEF JobStep, RunStep, Conclude, StoreEvidence, Active
<1>5. ~StartRun(c)
  <2>1. ASSUME StartRun(c) PROVE FALSE
    <3>1. slot'.run = c /\ pc[c] = "checked"
      BY <2>1 DEF StartRun
    <3>. QED
      BY <1>2, <3>1 DEF VerifyInv
  <2>. QED
    BY <2>1
<1>. QED
  BY <1>1, <1>4, <1>5 DEF CheckSlot, Poll

\* For any clients and steps: where no two requests met, verification jobs run one at a time,
\* a client is given the evidence of its own run, and a finished run stays as it is.
THEOREM JobsAreSerialized ==
  VerifySpec => [](VerifyTypeOK /\ OneJobAtATime /\ EvidenceIsOfRun) /\ DoneIsFinal
<1>. QED
  BY VerifyStarts, VerifyStaysTrue, VerifyInvIsEnough, DoneStays, PTL DEF VerifySpec, DoneIsFinal

-----------------------------------------------------------------------------
\* The prompt library.
LEMMA NextIsOdd == ASSUME NEW n \in Nat PROVE (n + 1) % 2 = 1 <=> n % 2 # 1
  OBVIOUS

LEMMA LibraryStarts == LibraryInit => LibraryInv
<1>. SUFFICES ASSUME LibraryInit PROVE LibraryInv
  OBVIOUS
<1>. USE LibraryAssumption
<1>1. DOMAIN row = {}
  BY DEF LibraryInit
<1>2. Chat \in Actor /\ 0 \in 0..MaxId
  BY DEF Actor
<1>3. LibraryTypeOK
  <2>1. /\ step \in [Actor -> {"idle", "asked", "update", "get", "done"}] /\ was \in [Actor -> BOOLEAN]
        /\ answer \in [Actor -> {"none", "saved", "favorite", "plain", "removed", "missing", "error", "vanished"}]
    BY DEF LibraryInit
  <2>2. target \in [Actor -> 0..MaxId] /\ meant \in [Actor -> 0..MaxId] /\ flips \in [Id -> Nat]
    BY <1>2 DEF LibraryInit
  <2>3. \A a \in Web : step[a] = "idle"
    BY DEF LibraryInit, Actor
  <2>4. sequence \in 0..MaxId /\ saves \in 0..MaxId /\ commands \in 0..MaxCommands /\ lock \in Actor
    BY <1>2 DEF LibraryInit
  <2>. QED
    BY <1>1, <2>1, <2>2, <2>3, <2>4 DEF LibraryInit, LibraryTypeOK
<1>4. FavoriteIsParity /\ IdsKeepTheirPrompt /\ SavedIsFound
  BY <1>1 DEF LibraryInit, FavoriteIsParity, IdsKeepTheirPrompt, SavedIsFound, Actor
<1>5. \A a \in Actor : CallInv(a) /\ ToggleInv(a)
  BY DEF LibraryInit, CallInv, ToggleInv
<1>. QED
  BY <1>1, <1>3, <1>4, <1>5 DEF LibraryInit, LibraryInv, LibraryIsKept

\* What the inductive invariant is kept by: each of its parts.
LEMMA LibraryStaysKept == LibraryInv /\ [LibraryNext]_libraryVars => LibraryInv'
<1>. SUFFICES ASSUME LibraryInv, [LibraryNext]_libraryVars PROVE LibraryInv'
  OBVIOUS
<1>a. /\ LibraryTypeOK /\ FavoriteIsParity /\ IdsKeepTheirPrompt /\ SavedIsFound /\ saves = sequence
      /\ \A i \in DOMAIN row : i <= sequence /\ row[i].of = i
      /\ \A s \in Id : s > sequence => flips[s] = 0
      /\ \A a \in Actor : CallInv(a) /\ ToggleInv(a)
  BY DEF LibraryInv, LibraryIsKept
<1>b. /\ MaxId \in Nat \ {0} /\ MaxCommands \in Nat /\ Chat \notin Web /\ Chat \in Actor
      /\ Actor = Web \cup {Chat} /\ sequence \in Nat /\ sequence <= MaxId /\ Id = 1..MaxId
  BY <1>a, LibraryAssumption DEF Actor, LibraryTypeOK, Id
<1>c. /\ DOMAIN row \subseteq Id
      /\ \A i \in DOMAIN row : row[i] \in Row /\ row[i].favorite \in BOOLEAN
      /\ \A a \in Actor : target[a] \in 0..MaxId /\ was[a] \in BOOLEAN
      /\ \A a \in Web : step[a] \in {"update", "get"} => lock = a
  BY <1>a, <1>b DEF LibraryTypeOK, Row
<1>. DEFINE Goal == LibraryInv'
<1>1. ASSUME NEW a \in Actor, Name(a) PROVE Goal
  <2>1. PICK i \in DOMAIN row : target' = [target EXCEPT ![a] = i] /\ meant' = [meant EXCEPT ![a] = row[i].of]
    BY <1>1 DEF Name
  <2>2. i \in Id /\ i <= sequence /\ row[i].of = i /\ i \in 0..MaxId
    BY <1>a, <1>b, <1>c
  <2>3. /\ UNCHANGED <<row, sequence, saves, lock, was, answer, flips, met, dropped, commands>>
        /\ step[a] = "idle" /\ step' = [step EXCEPT ![a] = "asked"]
    BY <1>1 DEF Name, Goto
  <2>4. LibraryTypeOK'
    BY <1>a, <1>b, <2>1, <2>2, <2>3 DEF LibraryTypeOK
  <2>5. (\A b \in Actor : CallInv(b))'
    BY <1>a, <2>1, <2>2, <2>3 DEF CallInv, LibraryTypeOK
  <2>6. (\A b \in Actor : ToggleInv(b))'
    BY <1>a, <2>1, <2>2, <2>3 DEF ToggleInv, LibraryTypeOK
  <2>7. FavoriteIsParity'
    BY <1>a, <2>3 DEF FavoriteIsParity
  <2>8. IdsKeepTheirPrompt'
    BY <1>a, <2>3, <2>5 DEF IdsKeepTheirPrompt, CallInv
  <2>9. SavedIsFound'
    BY <1>a, <1>b, <2>1, <2>3 DEF SavedIsFound, CallInv, LibraryTypeOK
  <2>. QED
    BY <1>a, <2>3, <2>4, <2>5, <2>6, <2>7, <2>8, <2>9 DEF LibraryInv, LibraryIsKept
\* A save's id is above all that a call may be about.
<1>2. ASSUME NEW a \in Actor, Save(a) PROVE Goal
  <2>. DEFINE n == sequence + 1
  <2>1. /\ step[a] = "idle" /\ n \in Id /\ n \notin DOMAIN row /\ flips[n] = 0 /\ sequence' = n /\ saves' = n
        /\ (a = Chat \/ lock = Chat)
    BY <1>2, <1>a, <1>b DEF Save, MayStart, Free, NextId
  <2>2. /\ DOMAIN row' = DOMAIN row \cup {n} /\ row'[n] = [favorite |-> FALSE, of |-> n]
        /\ \A i \in DOMAIN row : row'[i] = row[i]
    BY <1>2, <1>a, <2>1 DEF Save, NextId
  <2>3. /\ target' = [target EXCEPT ![a] = n] /\ meant' = [meant EXCEPT ![a] = n]
        /\ UNCHANGED <<was, flips, met, dropped, commands>>
    BY <1>2, <1>a DEF Save, NextId
  <2>4. IF a = Chat
          THEN step' = [step EXCEPT ![a] = "done"] /\ answer' = [answer EXCEPT ![a] = "saved"] /\ lock' = lock
          ELSE step' = [step EXCEPT ![a] = "get"] /\ answer' = answer /\ lock' = a
    BY <1>2 DEF Save, Return, Goto, Keep
  <2>5. \A b \in Web : step[b] \in {"update", "get"} => a = Chat
    BY <1>b, <1>c, <2>1
  <2>. HIDE DEF n
  <2>6. LibraryTypeOK'
    <3>1. DOMAIN row' \subseteq Id /\ \A i \in DOMAIN row' : row'[i] \in Row
      <4>1. row'[n] \in Row
        BY <2>1, <2>2 DEF Row
      <4>. QED
        BY <1>c, <2>1, <2>2, <4>1
    <3>2. target' \in [Actor -> 0..MaxId] /\ meant' \in [Actor -> 0..MaxId] /\ n \in 0..MaxId
      BY <1>a, <1>b, <2>1, <2>3 DEF LibraryTypeOK
    <3>3. /\ step' \in [Actor -> {"idle", "asked", "update", "get", "done"}] /\ lock' \in Actor
          /\ answer' \in [Actor -> {"none", "saved", "favorite", "plain", "removed", "missing", "error", "vanished"}]
      BY <1>a, <2>4 DEF LibraryTypeOK
    <3>4. \A b \in Web : step'[b] \in {"update", "get"} => lock' = b
      BY <1>a, <1>b, <1>c, <2>4, <2>5 DEF LibraryTypeOK
    <3>. QED
      BY <1>a, <2>1, <2>3, <3>1, <3>2, <3>3, <3>4 DEF LibraryTypeOK
  <2>7. \A b \in Actor : target[b] # n /\ target[b] <= n
    BY <1>a, <1>b, <1>c DEF CallInv, n
  <2>8. (\A b \in Actor : CallInv(b))'
    BY <1>a, <1>b, <2>1, <2>2, <2>3, <2>4, <2>7 DEF CallInv, LibraryTypeOK
  <2>9. (\A b \in Actor : ToggleInv(b))'
    <3>1. \A b \in Actor : step'[b] = "update" => b # a /\ step[b] = "update"
      BY <1>a, <1>b, <2>4 DEF LibraryTypeOK
    <3>2. \A b \in Actor : b # a => target'[b] = target[b] /\ target[b] # n
      BY <1>a, <2>3, <2>7 DEF LibraryTypeOK
    <3>3. \A b \in Actor : b # a => (target[b] \in DOMAIN row' <=> target[b] \in DOMAIN row)
      BY <2>2, <3>2
    <3>4. ASSUME NEW b \in Actor PROVE ToggleInv(b)'
      BY <1>a, <2>2, <2>3, <3>1, <3>2, <3>3 DEF ToggleInv
    <3>. QED
      BY <3>4
  <2>10. FavoriteIsParity'
    BY <1>a, <2>1, <2>2, <2>3 DEF FavoriteIsParity
  <2>11. IdsKeepTheirPrompt' /\ \A i \in DOMAIN row' : i <= n /\ row'[i].of = i
    <3>1. \A i \in DOMAIN row' : i = n \/ i \in DOMAIN row
      BY <2>2
    <3>2. \A i \in DOMAIN row' : row'[i].of = i
      BY <1>a, <2>2, <3>1
    <3>3. n \in Nat /\ \A i \in DOMAIN row : i \in Nat /\ i <= n
      BY <1>a, <1>b, <1>c DEF n
    <3>. QED
      BY <2>8, <3>1, <3>2, <3>3 DEF IdsKeepTheirPrompt, CallInv
  <2>12. SavedIsFound'
    BY <1>a, <1>b, <2>1, <2>3, <2>4 DEF SavedIsFound, CallInv, LibraryTypeOK
  <2>13. \A s \in Id : s > n => flips'[s] = 0
    BY <1>a, <1>b, <2>3 DEF n
  <2>. QED
    BY <2>1, <2>6, <2>8, <2>9, <2>10, <2>11, <2>12, <2>13 DEF LibraryInv, LibraryIsKept
\* What was saved is there, or the chat has deleted it.
<1>3. ASSUME NEW a \in Actor, ReadBack(a) PROVE Goal
  <2>. DEFINE what == IF target[a] \in DOMAIN row THEN "saved" ELSE "vanished"
  <2>1. /\ UNCHANGED <<row, sequence, saves, target, was, meant, flips, met, dropped, commands>>
        /\ step[a] = "get" /\ step' = [step EXCEPT ![a] = "done"] /\ answer' = [answer EXCEPT ![a] = what]
        /\ lock' = IF lock = a THEN Chat ELSE lock
    BY <1>3 DEF ReadBack, Return, Goto
  <2>2. LibraryTypeOK'
    BY <1>a, <1>b, <2>1 DEF LibraryTypeOK
  <2>3. (\A b \in Actor : CallInv(b))'
    BY <1>a, <2>1 DEF CallInv, LibraryTypeOK
  <2>4. (\A b \in Actor : ToggleInv(b))'
    BY <1>a, <2>1 DEF ToggleInv, LibraryTypeOK
  <2>5. (FavoriteIsParity /\ IdsKeepTheirPrompt)'
    BY <1>a, <2>1 DEF FavoriteIsParity, IdsKeepTheirPrompt
  <2>6. what = "vanished" => meant[a] \in dropped
    BY <1>a, <2>1 DEF CallInv
  <2>7. SavedIsFound'
    BY <1>a, <1>b, <2>1, <2>6 DEF SavedIsFound, LibraryTypeOK
  <2>. QED
    BY <1>a, <2>1, <2>2, <2>3, <2>4, <2>5, <2>7 DEF LibraryInv, LibraryIsKept
\* Whoever reads a favourite that another is about to write meets it, and of those one
\* is the chat: the dashboard's requests exclude each other.
<1>4. ASSUME NEW a \in Actor, ToggleRead(a) PROVE Goal
  <2>1. /\ UNCHANGED <<row, sequence, saves, target, meant, flips, dropped, commands>>
        /\ step[a] = "asked" /\ (a = Chat \/ lock = Chat)
    BY <1>4 DEF ToggleRead, MayStart, Free
  <2>2. CASE target[a] \in DOMAIN row
    <3>1. /\ step' = [step EXCEPT ![a] = "update"] /\ lock' = (IF a = Chat THEN lock ELSE a)
          /\ was' = [was EXCEPT ![a] = row[target[a]].favorite] /\ answer' = answer
          /\ met' = IF Meets(a) THEN met \cup {meant[a]} ELSE met
      BY <1>4, <2>2 DEF ToggleRead, Goto, Keep
    <3>2. target[a] \in Id /\ meant[a] = target[a] /\ row[target[a]].favorite \in BOOLEAN
      BY <1>a, <1>c, <2>2 DEF CallInv
    <3>3. met \subseteq met' /\ met' \subseteq Id
      BY <1>a, <3>1, <3>2 DEF LibraryTypeOK
    <3>4. \A b \in Actor \ {a} : step[b] = "update" /\ target[b] = target[a] => target[a] \in met'
      <4>. SUFFICES ASSUME NEW b \in Actor \ {a}, step[b] = "update", target[b] = target[a]
                    PROVE  target[a] \in met'
        OBVIOUS
      <4>1. Chat \in {a, b}
        BY <1>b, <1>c, <2>1
      <4>2. Meets(a)
        BY <4>1 DEF Meets
      <4>. QED
        BY <3>1, <3>2, <4>2
    <3>5. \A b \in Web : step[b] \in {"update", "get"} => a = Chat
      BY <1>b, <1>c, <2>1
    <3>6. LibraryTypeOK'
      <4>1. /\ step' \in [Actor -> {"idle", "asked", "update", "get", "done"}] /\ lock' \in Actor
            /\ was' \in [Actor -> BOOLEAN]
        BY <1>a, <3>1, <3>2 DEF LibraryTypeOK
      <4>2. \A b \in Web : step'[b] \in {"update", "get"} => lock' = b
        BY <1>a, <1>b, <1>c, <3>1, <3>5 DEF LibraryTypeOK
      <4>. QED
        BY <1>a, <2>1, <3>1, <3>3, <4>1, <4>2 DEF LibraryTypeOK
    <3>7. (\A b \in Actor : CallInv(b))'
      BY <1>a, <2>1, <3>1 DEF CallInv, LibraryTypeOK
    <3>8. (\A b \in Actor : ToggleInv(b))'
      <4>1. ToggleInv(a)'
        BY <1>a, <2>1, <3>1, <3>4 DEF ToggleInv, LibraryTypeOK
      <4>2. ASSUME NEW b \in Actor \ {a} PROVE ToggleInv(b)'
        <5>1. step'[b] = step[b] /\ was'[b] = was[b] /\ ToggleInv(b)
          BY <1>a, <3>1 DEF LibraryTypeOK
        <5>2. ASSUME NEW d \in Actor \ {b}, step[b] = "update", step'[d] = "update", target[d] = target[b]
              PROVE  target[b] \in met'
          <6>1. CASE d = a
            BY <3>4, <5>2, <6>1
          <6>2. CASE d # a
            <7>1. step[d] = "update"
              BY <1>a, <3>1, <5>2, <6>2 DEF LibraryTypeOK
            <7>. QED
              BY <5>1, <5>2, <7>1, <3>3 DEF ToggleInv
          <6>. QED
            BY <6>1, <6>2
        <5>. QED
          BY <2>1, <3>3, <5>1, <5>2 DEF ToggleInv
      <4>. QED
        BY <4>1, <4>2
    <3>9. (FavoriteIsParity /\ IdsKeepTheirPrompt /\ SavedIsFound)'
      BY <1>a, <2>1, <3>1, <3>3 DEF FavoriteIsParity, IdsKeepTheirPrompt, SavedIsFound
    <3>. QED
      BY <1>a, <2>1, <3>6, <3>7, <3>8, <3>9 DEF LibraryInv, LibraryIsKept
  <2>3. CASE target[a] \notin DOMAIN row
    <3>1. /\ step' = [step EXCEPT ![a] = "done"] /\ answer' = [answer EXCEPT ![a] = "missing"]
          /\ lock' = (IF lock = a THEN Chat ELSE lock) /\ UNCHANGED <<was, met>>
      BY <1>4, <2>3 DEF ToggleRead, Return, Goto
    <3>2. LibraryTypeOK'
      BY <1>a, <1>b, <2>1, <3>1 DEF LibraryTypeOK
    <3>3. (\A b \in Actor : CallInv(b) /\ ToggleInv(b))'
      BY <1>a, <2>1, <3>1 DEF CallInv, ToggleInv, LibraryTypeOK
    <3>4. (FavoriteIsParity /\ IdsKeepTheirPrompt /\ SavedIsFound)'
      BY <1>a, <2>1, <3>1 DEF FavoriteIsParity, IdsKeepTheirPrompt, SavedIsFound, LibraryTypeOK
    <3>. QED
      BY <1>a, <2>1, <3>1, <3>2, <3>3, <3>4 DEF LibraryInv, LibraryIsKept
  <2>. QED
    BY <2>2, <2>3
\* What is written is the opposite of what the row still has, or the toggle met another.
<1>5. ASSUME NEW a \in Actor, ToggleWrite(a) PROVE Goal
  <2>. DEFINE i == target[a]
              what == IF was[a] THEN "plain" ELSE "favorite"
  <2>1. /\ UNCHANGED <<sequence, saves, target, was, meant, met, dropped, commands>> /\ step[a] = "update"
        /\ step' = [step EXCEPT ![a] = "done"] /\ answer' = [answer EXCEPT ![a] = what]
        /\ lock' = IF lock = a THEN Chat ELSE lock
    BY <1>5 DEF ToggleWrite, Return, Goto
  <2>2. DOMAIN row' = DOMAIN row /\ \A j \in DOMAIN row : j # i => row'[j] = row[j]
    BY <1>5 DEF ToggleWrite
  <2>3. i \in DOMAIN row =>
          /\ row'[i] = [favorite |-> ~was[a], of |-> i]
          /\ flips' = [flips EXCEPT ![i] = @ + 1] /\ i \in Id /\ i <= sequence
    BY <1>5, <1>a, <1>c DEF ToggleWrite, Row
  <2>4. i \notin DOMAIN row => row' = row /\ flips' = flips
    BY <1>5 DEF ToggleWrite
  <2>5. flips \in [Id -> Nat] /\ flips' \in [Id -> Nat] /\ \A s \in Id : s # i => flips'[s] = flips[s]
    BY <1>a, <2>3, <2>4 DEF LibraryTypeOK
  <2>. HIDE DEF what
  <2>6. LibraryTypeOK'
    <3>1. \A j \in DOMAIN row' : row'[j] \in Row
      <4>1. ASSUME i \in DOMAIN row PROVE row'[i] \in Row
        <5>. DEFINE f == ~was[a]
        <5>1. f \in BOOLEAN /\ i \in Id
          BY <2>3, <4>1
        <5>2. row'[i] = [favorite |-> f, of |-> i]
          BY <2>3, <4>1
        <5>. HIDE DEF f, i
        <5>. QED
          BY <5>1, <5>2 DEF Row
      <4>. QED
        BY <1>c, <2>2, <4>1
    <3>2. /\ step' \in [Actor -> {"idle", "asked", "update", "get", "done"}] /\ lock' \in Actor
          /\ answer' \in [Actor -> {"none", "saved", "favorite", "plain", "removed", "missing", "error", "vanished"}]
      BY <1>a, <1>b, <2>1 DEF LibraryTypeOK, what
    <3>3. \A b \in Web : step'[b] \in {"update", "get"} => lock' = b
      BY <1>a, <1>b, <1>c, <2>1 DEF LibraryTypeOK
    <3>. QED
      BY <1>a, <2>1, <2>2, <2>5, <3>1, <3>2, <3>3 DEF LibraryTypeOK
  <2>7. (\A b \in Actor : CallInv(b))'
    BY <1>a, <2>1, <2>2 DEF CallInv, LibraryTypeOK
  <2>8. (\A b \in Actor : ToggleInv(b))'
    <3>1. \A b \in Actor : step'[b] = "update" => b # a /\ step[b] = "update"
      BY <1>a, <2>1 DEF LibraryTypeOK
    <3>2. ASSUME NEW b \in Actor, step'[b] = "update", target[b] \in DOMAIN row, target[b] \notin met
          PROVE  was[b] = row'[target[b]].favorite
      <4>1. b # a /\ step[b] = "update" /\ ToggleInv(b)
        BY <1>a, <3>1, <3>2
      <4>2. target[b] # i
        BY <2>1, <3>2, <4>1 DEF ToggleInv
      <4>. QED
        BY <2>2, <3>2, <4>1, <4>2 DEF ToggleInv
    <3>3. \A b \in Actor : ToggleInv(b) => (step[b] = "update" =>
            \A d \in Actor \ {b} : step[d] = "update" /\ target[d] = target[b] => target[b] \in met)
      BY DEF ToggleInv
    <3>. QED
      BY <1>a, <2>1, <2>2, <3>1, <3>2, <3>3 DEF ToggleInv
  <2>9. FavoriteIsParity'
    <3>1. ASSUME i \in DOMAIN row, i \notin met PROVE row'[i].favorite <=> flips'[i] % 2 = 1
      <4>1. was[a] = row[i].favorite
        BY <1>a, <2>1, <3>1 DEF ToggleInv
      <4>2. row[i].favorite <=> flips[i] % 2 = 1
        BY <1>a, <3>1 DEF FavoriteIsParity
      <4>3. flips'[i] = flips[i] + 1 /\ flips[i] \in Nat
        BY <2>3, <2>5, <3>1
      <4>4. flips'[i] % 2 = 1 <=> flips[i] % 2 # 1
        BY <4>3, NextIsOdd
      <4>5. row'[i].favorite = ~was[a]
        BY <2>3, <3>1
      <4>. QED
        BY <4>1, <4>2, <4>4, <4>5, Zenon
    <3>2. \A j \in DOMAIN row : row[j].of = j /\ row'[j].of = j /\ j \in Id
      BY <1>a, <1>c, <2>2, <2>3, <2>4
    <3>3. ASSUME NEW j \in DOMAIN row, j # i, j \notin met PROVE row'[j].favorite <=> flips'[j] % 2 = 1
      <4>1. row'[j] = row[j] /\ flips'[j] = flips[j]
        BY <2>2, <2>5, <3>2, <3>3
      <4>. QED
        BY <1>a, <3>2, <3>3, <4>1 DEF FavoriteIsParity
    <3>4. \A j \in DOMAIN row : j \notin met => (row'[j].favorite <=> flips'[j] % 2 = 1)
      BY <3>1, <3>3
    <3>. QED
      BY <2>1, <2>2, <3>2, <3>4 DEF FavoriteIsParity
  <2>10. IdsKeepTheirPrompt' /\ \A j \in DOMAIN row' : j <= sequence /\ row'[j].of = j
    BY <1>a, <2>1, <2>2, <2>3, <2>4, <2>7 DEF IdsKeepTheirPrompt, CallInv
  <2>11. SavedIsFound'
    BY <1>a, <1>b, <2>1 DEF SavedIsFound, LibraryTypeOK, what
  <2>12. \A s \in Id : s > sequence => flips'[s] = 0
    <3>1. \A s \in Id : s > sequence => s # i \/ i \notin DOMAIN row
      BY <1>a, <1>b, <2>3
    <3>. QED
      BY <1>a, <2>4, <2>5, <3>1
  <2>. QED
    BY <1>a, <2>1, <2>6, <2>7, <2>8, <2>9, <2>10, <2>11, <2>12 DEF LibraryInv, LibraryIsKept
\* A request that reads back its save holds the dashboard's lock: only the chat can
\* delete the row under it.
<1>6. ASSUME NEW a \in Actor, Delete(a) PROVE Goal
  <2>. DEFINE i == target[a]
              what == IF i \in DOMAIN row THEN "removed" ELSE "missing"
  <2>1. /\ UNCHANGED <<sequence, saves, target, was, meant, flips, met, commands>>
        /\ step[a] = "asked" /\ (a = Chat \/ lock = Chat)
        /\ step' = [step EXCEPT ![a] = "done"] /\ answer' = [answer EXCEPT ![a] = what]
        /\ lock' = IF lock = a THEN Chat ELSE lock
    BY <1>6 DEF Delete, MayStart, Free, Return, Goto
  <2>2. /\ DOMAIN row' \subseteq DOMAIN row /\ \A j \in DOMAIN row' : row'[j] = row[j]
        /\ DOMAIN row \ {i} \subseteq DOMAIN row'
    BY <1>6 DEF Delete
  <2>3. dropped \subseteq dropped' /\ (a = Chat /\ i \in DOMAIN row => i \in dropped') /\ dropped' \subseteq Id
    BY <1>6, <1>a, <1>c DEF Delete, LibraryTypeOK
  <2>4. i \notin DOMAIN row => row' = row
    BY <1>6 DEF Delete
  <2>. HIDE DEF what
  <2>5. LibraryTypeOK'
    <3>1. DOMAIN row' \subseteq Id /\ \A j \in DOMAIN row' : row'[j] \in Row
      BY <1>c, <2>2
    <3>2. /\ step' \in [Actor -> {"idle", "asked", "update", "get", "done"}] /\ lock' \in Actor
          /\ answer' \in [Actor -> {"none", "saved", "favorite", "plain", "removed", "missing", "error", "vanished"}]
      BY <1>a, <1>b, <2>1 DEF LibraryTypeOK, what
    <3>3. \A b \in Web : step'[b] \in {"update", "get"} => lock' = b
      BY <1>a, <1>b, <1>c, <2>1 DEF LibraryTypeOK
    <3>. QED
      BY <1>a, <2>1, <2>3, <3>1, <3>2, <3>3 DEF LibraryTypeOK
  <2>6. (\A b \in Actor : CallInv(b))'
    <3>1. ASSUME NEW b \in Actor PROVE CallInv(b)'
      <4>1. CallInv(b) /\ (step'[b] \in {"idle", "get"} => b # a /\ step'[b] = step[b] /\ answer'[b] = answer[b])
        BY <1>a, <2>1 DEF LibraryTypeOK
      <4>2. ASSUME step'[b] = "get" PROVE target[b] \in DOMAIN row' \/ target[b] \in dropped'
        <5>1. step[b] = "get" /\ b # Chat /\ b # a /\ (target[b] \in DOMAIN row \/ target[b] \in dropped)
          BY <4>1, <4>2 DEF CallInv
        <5>2. a = Chat
          BY <1>b, <1>c, <2>1, <5>1
        <5>. QED
          BY <2>2, <2>3, <5>1, <5>2
      <4>. QED
        BY <2>1, <4>1, <4>2 DEF CallInv
    <3>. QED
      BY <3>1
  <2>7. (\A b \in Actor : ToggleInv(b))'
    BY <1>a, <2>1, <2>2 DEF ToggleInv, LibraryTypeOK
  <2>8. (FavoriteIsParity /\ IdsKeepTheirPrompt)'
    BY <1>a, <2>1, <2>2 DEF FavoriteIsParity, IdsKeepTheirPrompt
  <2>9. SavedIsFound'
    BY <1>a, <1>b, <2>1, <2>3 DEF SavedIsFound, LibraryTypeOK, what
  <2>. QED
    BY <1>a, <2>1, <2>2, <2>5, <2>6, <2>7, <2>8, <2>9 DEF LibraryInv, LibraryIsKept
<1>7. ASSUME NEW a \in Actor, Fails(a) PROVE Goal
  <2>1. /\ UNCHANGED <<row, sequence, saves, target, was, meant, flips, met, dropped, commands>>
        /\ step' = [step EXCEPT ![a] = "done"] /\ answer' = [answer EXCEPT ![a] = "error"]
        /\ lock' = IF lock = a THEN Chat ELSE lock
    BY <1>7 DEF Fails, Return, Goto
  <2>2. LibraryTypeOK'
    BY <1>a, <1>b, <2>1 DEF LibraryTypeOK
  <2>3. (\A b \in Actor : CallInv(b))'
    BY <1>a, <2>1 DEF CallInv, LibraryTypeOK
  <2>4. (\A b \in Actor : ToggleInv(b))'
    BY <1>a, <2>1 DEF ToggleInv, LibraryTypeOK
  <2>5. (FavoriteIsParity /\ IdsKeepTheirPrompt /\ SavedIsFound)'
    BY <1>a, <2>1 DEF FavoriteIsParity, IdsKeepTheirPrompt, SavedIsFound, LibraryTypeOK
  <2>. QED
    BY <1>a, <2>1, <2>2, <2>3, <2>4, <2>5 DEF LibraryInv, LibraryIsKept
<1>8. ASSUME NextCommand PROVE Goal
  <2>1. /\ UNCHANGED <<row, sequence, saves, lock, was, flips, met, dropped>>
        /\ step' = [step EXCEPT ![Chat] = "idle"] /\ answer' = [answer EXCEPT ![Chat] = "none"]
        /\ target' = [target EXCEPT ![Chat] = 0] /\ meant' = [meant EXCEPT ![Chat] = 0]
        /\ commands' \in 0..MaxCommands
    BY <1>8, <1>a, <1>b DEF NextCommand, Goto, LibraryTypeOK
  <2>2. LibraryTypeOK'
    BY <1>a, <1>b, <2>1 DEF LibraryTypeOK
  <2>3. (\A b \in Actor : CallInv(b))'
    BY <1>a, <1>b, <2>1 DEF CallInv, LibraryTypeOK
  <2>4. (\A b \in Actor : ToggleInv(b))'
    BY <1>a, <1>b, <2>1 DEF ToggleInv, LibraryTypeOK
  <2>5. (FavoriteIsParity /\ IdsKeepTheirPrompt /\ SavedIsFound)'
    BY <1>a, <1>b, <2>1, <2>3 DEF FavoriteIsParity, IdsKeepTheirPrompt, SavedIsFound, CallInv, LibraryTypeOK
  <2>. QED
    BY <1>a, <2>1, <2>2, <2>3, <2>4, <2>5 DEF LibraryInv, LibraryIsKept
<1>9. ASSUME UNCHANGED libraryVars PROVE Goal
  <2>1. LibraryTypeOK'
    BY <1>a, <1>9 DEF libraryVars, LibraryTypeOK
  <2>2. (\A b \in Actor : CallInv(b))'
    BY <1>a, <1>9 DEF libraryVars, CallInv
  <2>3. (\A b \in Actor : ToggleInv(b))'
    BY <1>a, <1>9 DEF libraryVars, ToggleInv
  <2>4. (FavoriteIsParity /\ IdsKeepTheirPrompt /\ SavedIsFound)'
    BY <1>a, <1>9 DEF libraryVars, FavoriteIsParity, IdsKeepTheirPrompt, SavedIsFound
  <2>. QED
    BY <1>a, <1>9, <2>1, <2>2, <2>3, <2>4 DEF libraryVars, LibraryInv, LibraryIsKept
<1>. HIDE DEF Goal
<1>10. ASSUME NEW a \in Actor, Call(a) PROVE Goal
  BY <1>1, <1>2, <1>3, <1>4, <1>5, <1>6, <1>7, <1>10 DEF Call
<1>11. Goal
  BY <1>b, <1>8, <1>9, <1>10 DEF LibraryNext, ChatStep, WebStep
<1>. QED
  BY <1>11 DEF Goal

\* For any number of requests, prompts and commands of the chat: a favourite is the parity
\* of its toggles unless one of the chat met one of the dashboard, an id stands for one
\* prompt for ever, and a saved prompt is found unless the chat has deleted it.
THEOREM LibraryIsAlwaysKept == LibrarySpec => []LibraryIsKept
<1>1. LibraryInv => LibraryIsKept
  BY DEF LibraryInv
<1>. QED
  BY <1>1, LibraryStarts, LibraryStaysKept, PTL DEF LibrarySpec

-----------------------------------------------------------------------------
\* The MCP console.
LEMMA ConsoleStarts == ConsoleInit => ConsoleInv
<1>. SUFFICES ASSUME ConsoleInit PROVE ConsoleInv
  OBVIOUS
<1>1. ConsoleTypeOK
  <2>1. requests \in 0..MaxRequests /\ changes \in 0..MaxChanges
    BY ConsolesAssumption DEF ConsoleInit
  <2>2. NoRules \in [Server -> {"none", "allow", "deny"}]
    BY DEF NoRules
  <2>3. rules \in Rules /\ engine \in Rules
    BY <2>2 DEF ConsoleInit, Rules
  <2>4. config \in Seq(Server) /\ Len(config) = 0 /\ view \in Seq(Shown) /\ Len(view) = 0
    BY DEF ConsoleInit
  <2>. QED
    BY <2>1, <2>3, <2>4 DEF ConsoleInit, ConsoleTypeOK
<1>. QED
  BY <1>1 DEF ConsoleInit, ConsoleInv, OnlineHasAnswered, PreviewIsPolicy

LEMMA ShownIsTyped ==
  ASSUME NEW x \in Server, NEW o \in BOOLEAN, NEW e \in Rules
  PROVE  [server |-> x, online |-> o, policy |-> [a \in Agent |-> Evaluate(e, a, x)]] \in Shown
<1>1. \A a \in Agent : e[a][x] \in {"none", "allow", "deny"}
  BY DEF Rules
<1>2. \A a \in Agent : Evaluate(e, a, x) \in Decision
  BY <1>1 DEF Evaluate, Decision
<1>. QED
  BY <1>2 DEF Shown

LEMMA ConsoleStaysTrue == ConsoleInv /\ [ConsoleNext]_consoleVars => ConsoleInv'
<1>. SUFFICES ASSUME ConsoleInv, [ConsoleNext]_consoleVars PROVE ConsoleInv'
  OBVIOUS
<1>a. MaxRequests \in Nat \ {0} /\ MaxChanges \in Nat
  BY ConsolesAssumption
<1>b. /\ rules \in Rules /\ changes \in 0..MaxChanges
      /\ phase \in {"idle", "build", "plan", "probe", "wait"} /\ requests \in 0..MaxRequests
      /\ config \in Seq(Server) /\ Len(config) <= 2 /\ engine \in Rules
      /\ view \in Seq(Shown) /\ Len(view) <= Len(config) /\ steady \in BOOLEAN
      /\ thread \in [Probe -> {"none", "running", "listed", "error"}]
      /\ Len(view) \in Nat /\ Len(config) \in Nat
  BY DEF ConsoleInv, ConsoleTypeOK
<1>c. /\ OnlineHasAnswered /\ PreviewIsPolicy
      /\ phase \in {"build", "plan"} => view = <<>>
      /\ phase # "idle" => requests > 0
      /\ phase = "wait" => Len(view) < Len(config)
      /\ steady /\ phase = "plan" => engine["build"] = rules["build"]
      /\ steady /\ phase \in {"probe", "wait"} => engine = rules
  BY DEF ConsoleInv
<1>d. DOMAIN rules = Agent /\ DOMAIN engine = Agent /\ \A a \in Agent : rules[a] \in [Server -> {"none", "allow", "deny"}]
  BY <1>b DEF Rules
<1>1. ASSUME Begin PROVE ConsoleInv'
  <2>1. /\ config' \in Seq(Server) /\ Len(config') <= 2 /\ Len(config') \in Nat
    <3>1. /\ \A x \in Server : <<x>> \in Seq(Server) /\ Len(<<x>>) = 1
          /\ \A x, y \in Server : <<x, y>> \in Seq(Server) /\ Len(<<x, y>>) = 2
      OBVIOUS
    <3>2. <<>> \in Seq(Server) /\ Len(<<>>) = 0
      OBVIOUS
    <3>3. \/ config' = <<>>
          \/ \E x \in Server : config' = <<x>>
          \/ \E x, y \in Server : config' = <<x, y>>
      BY <1>1 DEF Begin
    <3>4. config' \in Seq(Server)
      BY <3>1, <3>2, <3>3
    <3>5. Len(config') = 0 \/ Len(config') = 1 \/ Len(config') = 2
      BY <3>1, <3>2, <3>3
    <3>6. \A n : n = 0 \/ n = 1 \/ n = 2 => n \in Nat /\ n <= 2
      OBVIOUS
    <3>. QED
      BY <3>4, <3>5, <3>6
  <2>2. requests' = requests + 1 /\ requests' \in 0..MaxRequests /\ requests' > 0
    BY <1>a, <1>b, <1>1 DEF Begin
  <2>3. /\ view' = <<>> /\ phase' = "build" /\ steady' = TRUE /\ view' \in Seq(Shown) /\ Len(view') = 0
        /\ rules' = rules /\ changes' = changes /\ engine' = engine /\ thread' = thread
    BY <1>1 DEF Begin
  <2>4. ConsoleTypeOK'
    BY <1>b, <2>1, <2>2, <2>3 DEF ConsoleTypeOK
  <2>. QED
    BY <2>2, <2>3, <2>4 DEF ConsoleInv, OnlineHasAnswered, PreviewIsPolicy
<1>2. ASSUME NEW a \in Agent, LoadRules(a) PROVE ConsoleInv'
  <2>1. /\ phase = a /\ phase' = (IF a = "build" THEN "plan" ELSE "probe") /\ view = <<>>
        /\ rules' = rules /\ changes' = changes /\ requests' = requests /\ config' = config
        /\ view' = view /\ thread' = thread
        /\ \/ engine' = [engine EXCEPT ![a] = rules[a]] /\ steady' = steady
           \/ engine' = [engine EXCEPT ![a] = NoRules] /\ steady' = FALSE
    BY <1>c, <1>2 DEF LoadRules, Loaded, Agent
  <2>2. engine' \in Rules
    <3>1. NoRules \in [Server -> {"none", "allow", "deny"}]
      BY DEF NoRules
    <3>. QED
      BY <1>b, <1>d, <2>1, <3>1 DEF Rules
  <2>3. ConsoleTypeOK'
    BY <1>b, <2>1, <2>2 DEF ConsoleTypeOK
  <2>4. steady' /\ a = "build" => engine'["build"] = rules'["build"]
    BY <1>d, <2>1
  <2>5. steady' /\ a = "plan" => engine' = rules'
    <3>1. ASSUME steady', a = "plan" PROVE engine' = rules
      <4>1. engine' = [engine EXCEPT !["plan"] = rules["plan"]] /\ engine["build"] = rules["build"]
        BY <1>c, <2>1, <3>1
      <4>2. \A b \in Agent : engine'[b] = rules[b]
        BY <1>d, <4>1 DEF Agent
      <4>3. DOMAIN engine' = Agent /\ engine' = [b \in Agent |-> engine'[b]]
        BY <2>2 DEF Rules
      <4>4. rules = [b \in Agent |-> rules[b]]
        BY <1>b DEF Rules
      <4>. QED
        BY <4>2, <4>3, <4>4
    <3>. QED
      BY <2>1, <3>1
  <2>. QED
    BY <1>c, <2>1, <2>3, <2>4, <2>5 DEF ConsoleInv, OnlineHasAnswered, PreviewIsPolicy, Agent
<1>3. ASSUME StartProbe PROVE ConsoleInv'
  <2>1. /\ phase = "probe" /\ Len(view) < Len(config) /\ phase' = "wait"
        /\ thread' = [thread EXCEPT ![<<requests, Len(view) + 1>>] = "running"]
        /\ rules' = rules /\ changes' = changes /\ requests' = requests /\ config' = config
        /\ engine' = engine /\ view' = view /\ steady' = steady
    BY <1>3 DEF StartProbe, Current
  <2>2. ConsoleTypeOK'
    BY <1>b, <2>1 DEF ConsoleTypeOK
  <2>3. OnlineHasAnswered'
    <3>1. \A i \in DOMAIN view : <<requests, i>> # <<requests, Len(view) + 1>>
      BY <1>b
    <3>2. \A i \in DOMAIN view : thread[<<requests, i>>] = "listed" => thread'[<<requests, i>>] = "listed"
      BY <1>b, <2>1, <3>1
    <3>. QED
      BY <1>c, <2>1, <3>2 DEF OnlineHasAnswered
  <2>. QED
    BY <1>c, <2>1, <2>2, <2>3 DEF ConsoleInv, PreviewIsPolicy
<1>4. ASSUME NEW p \in Probe, ThreadEnds(p) PROVE ConsoleInv'
  <2>1. /\ rules' = rules /\ changes' = changes /\ phase' = phase /\ requests' = requests /\ config' = config
        /\ engine' = engine /\ view' = view /\ steady' = steady
        /\ thread[p] = "running" /\ \E r \in {"listed", "error"} : thread' = [thread EXCEPT ![p] = r]
    BY <1>4 DEF ThreadEnds
  <2>2. ConsoleTypeOK'
    BY <1>b, <2>1 DEF ConsoleTypeOK
  <2>3. OnlineHasAnswered'
    <3>1. \A q : thread[q] = "listed" => q # p /\ thread'[q] = thread[q]
      BY <1>b, <2>1
    <3>. QED
      BY <1>c, <2>1, <3>1 DEF OnlineHasAnswered
  <2>. QED
    BY <1>c, <2>1, <2>2, <2>3 DEF ConsoleInv, PreviewIsPolicy
<1>5. ASSUME NEW online \in BOOLEAN, phase = "wait", Show(online),
             online => thread[<<requests, Len(view) + 1>>] = "listed"
      PROVE  ConsoleInv'
  <2>. DEFINE n == Len(view) + 1
              x == [server |-> config[n], online |-> online,
                    policy |-> [a \in Agent |-> Evaluate(engine, a, config[n])]]
  <2>1. /\ view' = Append(view, x) /\ phase' = "probe" /\ rules' = rules /\ changes' = changes
        /\ requests' = requests /\ config' = config /\ engine' = engine /\ thread' = thread /\ steady' = steady
    BY <1>5 DEF Show
  <2>2. n \in 1..Len(config)
    BY <1>b, <1>c, <1>5
  <2>3. config[n] \in Server
    BY <1>b, <2>2
  <2>4. x \in Shown
    BY <1>b, <2>3, ShownIsTyped
  <2>5. x.online = online /\ \A a \in Agent : x.policy[a] = Evaluate(engine, a, config[n])
    OBVIOUS
  <2>. HIDE DEF x
  <2>6. /\ view' \in Seq(Shown) /\ Len(view') = n /\ DOMAIN view' = 1..n /\ view'[n] = x
        /\ \A i \in 1..(n - 1) : view'[i] = view[i] /\ i \in DOMAIN view
    BY <1>b, <2>1, <2>4
  <2>7. ConsoleTypeOK'
    BY <1>b, <2>1, <2>2, <2>6 DEF ConsoleTypeOK
  <2>8. \A i \in DOMAIN view' : i = n \/ (i \in 1..(n - 1) /\ i \in DOMAIN view /\ view'[i] = view[i])
    BY <1>b, <2>6
  <2>9. OnlineHasAnswered'
    BY <1>c, <1>5, <2>1, <2>5, <2>6, <2>8 DEF OnlineHasAnswered
  <2>10. PreviewIsPolicy'
    <3>1. steady => engine = rules
      BY <1>c, <1>5
    <3>. QED
      BY <1>c, <2>1, <2>5, <2>6, <2>8, <3>1 DEF PreviewIsPolicy
  <2>. QED
    BY <1>c, <1>5, <2>1, <2>7, <2>9, <2>10 DEF ConsoleInv
<1>6. ASSUME TakeAnswer PROVE ConsoleInv'
  BY <1>5, <1>6 DEF TakeAnswer, Listed, Current
<1>7. ASSUME Elapsed PROVE ConsoleInv'
  BY <1>5, <1>7 DEF Elapsed
<1>8. ASSUME Respond PROVE ConsoleInv'
  <2>1. /\ phase' = "idle" /\ rules' = rules /\ changes' = changes /\ requests' = requests /\ config' = config
        /\ engine' = engine /\ view' = view /\ steady' = steady /\ thread' = thread
    BY <1>8 DEF Respond
  <2>2. ConsoleTypeOK'
    BY <1>b, <2>1 DEF ConsoleTypeOK
  <2>. QED
    BY <1>c, <2>1, <2>2 DEF ConsoleInv, OnlineHasAnswered, PreviewIsPolicy
<1>9. ASSUME ChangeRule PROVE ConsoleInv'
  <2>1. /\ changes' = changes + 1 /\ changes < MaxChanges /\ phase' = phase /\ requests' = requests
        /\ config' = config /\ engine' = engine /\ view' = view /\ steady' = FALSE /\ thread' = thread
    BY <1>9 DEF ChangeRule
  <2>2. rules' \in Rules
    BY <1>b, <1>d, <1>9 DEF ChangeRule, Rules
  <2>3. changes' \in 0..MaxChanges
    BY <1>a, <1>b, <2>1
  <2>4. ConsoleTypeOK'
    BY <1>b, <2>1, <2>2, <2>3 DEF ConsoleTypeOK
  <2>. QED
    BY <1>c, <2>1, <2>4 DEF ConsoleInv, OnlineHasAnswered, PreviewIsPolicy
<1>10. CASE UNCHANGED consoleVars
  BY <1>b, <1>c, <1>10 DEF consoleVars, ConsoleInv, ConsoleTypeOK, OnlineHasAnswered, PreviewIsPolicy
<1>. QED
  BY <1>1, <1>2, <1>3, <1>4, <1>6, <1>7, <1>8, <1>9, <1>10 DEF ConsoleNext, Handle

\* For any servers and rules: whatever is shown as online has answered this request, though
\* threads of earlier ones go on, and the policy is the one in force.
THEOREM ConsoleAlwaysTrue == ConsoleSpec => [](ConsoleTypeOK /\ OnlineHasAnswered /\ PreviewIsPolicy)
<1>1. ConsoleInv => ConsoleTypeOK /\ OnlineHasAnswered /\ PreviewIsPolicy
  BY DEF ConsoleInv
<1>. QED
  BY <1>1, ConsoleStarts, ConsoleStaysTrue, PTL DEF ConsoleSpec

-----------------------------------------------------------------------------
\* Experiments.
LEMMA ExperimentStarts == ExperimentInit => ExperimentTypeOK
<1>1. 0 \in Nat
  OBVIOUS
<1>. QED
  BY <1>1 DEF ExperimentInit, ExperimentTypeOK

LEMMA ExperimentStaysTyped == ExperimentTypeOK /\ [ExperimentNext]_experimentVars => ExperimentTypeOK'
<1>. SUFFICES ASSUME ExperimentTypeOK, [ExperimentNext]_experimentVars PROVE ExperimentTypeOK'
  OBVIOUS
<1>1. ASSUME NEW v \in Variant, RecordEvent(v) PROVE ExperimentTypeOK'
  BY <1>1 DEF RecordEvent, ExperimentTypeOK
<1>2. ASSUME RecordOddity PROVE ExperimentTypeOK'
  BY <1>2 DEF RecordOddity, ExperimentTypeOK
<1>. QED
  BY <1>1, <1>2 DEF ExperimentNext, experimentVars, ExperimentTypeOK

\* A variant as the report sees it.
Stats == [variant : Nat, n : Nat, successes : Nat]

\* What is above nothing is not zero, and the rest of the total is not negative.
LEMMA ProductNotNegative == ASSUME NEW p \in Nat, NEW q \in Nat PROVE p * q \in Nat
  OBVIOUS

LEMMA NoDifferenceIsNoEvidence ==
  ASSUME NEW d \in Int, NEW n \in Nat, NEW y \in Nat, 1000 * d * d * n > y
  PROVE  d # 0
  OBVIOUS

LEMMA EvidenceCountsTwice ==
  ASSUME NEW p \in Int, NEW y \in Nat, p > y
  PROVE  32 * p > 16 * y
  OBVIOUS

\* Spread of two variants: what two_proportion_p_value divides by.
Spread(a, b) ==
  3841 * a.n * b.n * (a.successes + b.successes) * ((a.n + b.n) - (a.successes + b.successes))
Gap(a, b) == a.successes * b.n - b.successes * a.n

LEMMA SpreadNotNegative ==
  ASSUME NEW a \in Stats, NEW b \in Stats, a.successes <= a.n, b.successes <= b.n
  PROVE  Spread(a, b) \in Nat
<1>1. /\ a.n \in Nat /\ b.n \in Nat /\ a.successes + b.successes \in Nat
      /\ (a.n + b.n) - (a.successes + b.successes) \in Nat
  BY DEF Stats
<1>2. 3841 * a.n \in Nat
  BY <1>1
<1>3. 3841 * a.n * b.n \in Nat
  BY <1>1, <1>2, ProductNotNegative
<1>4. 3841 * a.n * b.n * (a.successes + b.successes) \in Nat
  BY <1>1, <1>3, ProductNotNegative
<1>. QED
  BY <1>1, <1>4, ProductNotNegative DEF Spread

LEMMA DifferBySpread ==
  ASSUME NEW a, NEW b
  PROVE  Differ(a, b) <=> /\ a.successes + b.successes # 0 /\ a.successes + b.successes # a.n + b.n
                          /\ 1000 * Gap(a, b) * Gap(a, b) * (a.n + b.n) > Spread(a, b)
  BY DEF Differ, Gap, Spread

LEMMA GapIsInt == ASSUME NEW a \in Stats, NEW b \in Stats PROVE Gap(a, b) \in Int /\ Gap(b, a) = -Gap(a, b)
<1>1. a.successes * b.n \in Nat /\ b.successes * a.n \in Nat
  BY ProductNotNegative DEF Stats
<1>. QED
  BY <1>1 DEF Gap

LEMMA SquareOfNegative == ASSUME NEW d \in Int, NEW n \in Nat PROVE 1000 * (-d) * (-d) * n = 1000 * d * d * n
  OBVIOUS

LEMMA ProductsCommute ==
  ASSUME NEW p \in Nat, NEW q \in Nat, NEW x \in Nat, NEW y \in Nat
  PROVE  3841 * q * p * x * y = 3841 * p * q * x * y
<1>1. 3841 * q * p = 3841 * p * q
  OBVIOUS
<1>. QED
  BY <1>1

LEMMA DoubledProduct ==
  ASSUME NEW p \in Nat, NEW q \in Nat
  PROVE  (2 * p) * (2 * q) = 4 * (p * q)
  OBVIOUS

LEMMA DoubledSquare ==
  ASSUME NEW d \in Int, NEW n \in Nat
  PROVE  1000 * (4 * d) * (4 * d) * (2 * n) = 32 * (1000 * d * d * n)
  OBVIOUS

LEMMA DoubledSpread ==
  ASSUME NEW p \in Nat, NEW q \in Nat, NEW x \in Nat, NEW y \in Nat
  PROVE  3841 * (2 * p) * (2 * q) * (2 * x) * (2 * y) = 16 * (3841 * p * q * x * y)
  OBVIOUS

\* Which variant comes first decides nothing.
LEMMA DifferIsSymmetric ==
  ASSUME NEW a \in Stats, NEW b \in Stats, a.successes <= a.n, b.successes <= b.n, Differ(a, b)
  PROVE  Differ(b, a)
<1>1. /\ a.n \in Nat /\ b.n \in Nat /\ a.successes \in Nat /\ b.successes \in Nat
      /\ b.successes + a.successes = a.successes + b.successes /\ b.n + a.n = a.n + b.n
      /\ a.successes + b.successes \in Nat /\ a.n + b.n \in Nat
      /\ (a.n + b.n) - (a.successes + b.successes) \in Nat
  BY DEF Stats
<1>2. Spread(b, a) = Spread(a, b)
  BY <1>1, ProductsCommute DEF Spread
<1>3. 1000 * Gap(b, a) * Gap(b, a) * (b.n + a.n) = 1000 * Gap(a, b) * Gap(a, b) * (a.n + b.n)
  BY <1>1, GapIsInt, SquareOfNegative
<1>. QED
  BY <1>1, <1>2, <1>3, DifferBySpread

LEMMA TwiceIsStats ==
  ASSUME NEW a \in Stats
  PROVE  Twice(a) \in Stats /\ Twice(a).n = 2 * a.n /\ Twice(a).successes = 2 * a.successes
         /\ Twice(a).variant = a.variant
<1>1. 2 * a.n \in Nat /\ 2 * a.successes \in Nat
  BY DEF Stats
<1>. QED
  BY <1>1 DEF Stats, Twice

\* Twice the same evidence is evidence.
LEMMA DifferScales ==
  ASSUME NEW a \in Stats, NEW b \in Stats, a.successes <= a.n, b.successes <= b.n, Differ(a, b)
  PROVE  Differ(Twice(a), Twice(b)) /\ Gap(Twice(a), Twice(b)) = 4 * Gap(a, b)
<1>. DEFINE c == Twice(a)
            e == Twice(b)
<1>0. /\ c \in Stats /\ c.n = 2 * a.n /\ c.successes = 2 * a.successes
      /\ e \in Stats /\ e.n = 2 * b.n /\ e.successes = 2 * b.successes
  BY TwiceIsStats
<1>. HIDE DEF c, e
<1>1. /\ a.n \in Nat /\ b.n \in Nat /\ a.successes \in Nat /\ b.successes \in Nat
      /\ a.successes + b.successes \in Nat /\ a.n + b.n \in Nat
      /\ (a.n + b.n) - (a.successes + b.successes) \in Nat
      /\ c.successes + e.successes = 2 * (a.successes + b.successes) /\ c.n + e.n = 2 * (a.n + b.n)
      /\ (c.n + e.n) - (c.successes + e.successes) = 2 * ((a.n + b.n) - (a.successes + b.successes))
  BY <1>0 DEF Stats
<1>2. Gap(c, e) = 4 * Gap(a, b)
  <2>1. /\ c.successes * e.n = 4 * (a.successes * b.n) /\ e.successes * c.n = 4 * (b.successes * a.n)
    BY <1>0, <1>1, DoubledProduct
  <2>2. a.successes * b.n \in Nat /\ b.successes * a.n \in Nat
    BY <1>1, ProductNotNegative
  <2>. QED
    BY <2>1, <2>2 DEF Gap
<1>3. Spread(c, e) = 16 * Spread(a, b)
  BY <1>0, <1>1, DoubledSpread DEF Spread
<1>4. 1000 * Gap(c, e) * Gap(c, e) * (c.n + e.n) = 32 * (1000 * Gap(a, b) * Gap(a, b) * (a.n + b.n))
  BY <1>1, <1>2, GapIsInt, DoubledSquare
<1>5. 1000 * Gap(a, b) * Gap(a, b) * (a.n + b.n) \in Int
  BY <1>1, GapIsInt
<1>6. 32 * (1000 * Gap(a, b) * Gap(a, b) * (a.n + b.n)) > 16 * Spread(a, b)
  BY <1>5, SpreadNotNegative, DifferBySpread, EvidenceCountsTwice
<1>7. c.successes + e.successes # 0 /\ c.successes + e.successes # c.n + e.n
  BY <1>1, DifferBySpread
<1>8. Differ(c, e) /\ Gap(c, e) = 4 * Gap(a, b)
  BY <1>2, <1>3, <1>4, <1>6, <1>7, DifferBySpread
<1>. QED
  BY <1>8 DEF c, e

LEMMA DifferHasGap ==
  ASSUME NEW a \in Stats, NEW b \in Stats, a.successes <= a.n, b.successes <= b.n, Differ(a, b)
  PROVE  Gap(a, b) # 0
<1>1. a.n + b.n \in Nat
  BY DEF Stats
<1>. QED
  BY <1>1, GapIsInt, SpreadNotNegative, DifferBySpread, NoDifferenceIsNoEvidence

LEMMA BetterByGap ==
  ASSUME NEW a \in Stats, NEW b \in Stats
  PROVE  Better(a, b) = IF Gap(a, b) >= 0 THEN a ELSE b
<1>1. a.successes * b.n \in Nat /\ b.successes * a.n \in Nat
  BY ProductNotNegative DEF Stats
<1>. QED
  BY <1>1 DEF Better, Gap

\* A report names a winner only for a gap, and names the one that is ahead.
LEMMA WinnerOfReport ==
  ASSUME NEW a \in Stats, NEW b \in Stats, a.successes <= a.n, b.successes <= b.n,
         Report(a, b).winner # NoWinner
  PROVE  /\ ~TooFew(a, b) /\ Differ(a, b) /\ Gap(a, b) # 0
         /\ Report(a, b).winner = (IF Gap(a, b) > 0 THEN a.variant ELSE b.variant)
<1>1. ~TooFew(a, b) /\ Differ(a, b) /\ Report(a, b).winner = Better(a, b).variant
  BY DEF Report
<1>. QED
  BY <1>1, DifferHasGap, BetterByGap, GapIsInt

LEMMA ReportOfGap ==
  ASSUME NEW a \in Stats, NEW b \in Stats, ~TooFew(a, b), Differ(a, b), Gap(a, b) # 0
  PROVE  Report(a, b).winner = (IF Gap(a, b) > 0 THEN a.variant ELSE b.variant)
<1>1. Report(a, b).winner = Better(a, b).variant
  BY DEF Report
<1>. QED
  BY <1>1, BetterByGap, GapIsInt

LEMMA ReportIsEarned ==
  ASSUME NEW a \in Stats, NEW b \in Stats, a.successes <= a.n, b.successes <= b.n, a.variant # b.variant,
         Report(a, b).winner # NoWinner
  PROVE  LET w == IF Report(a, b).winner = a.variant THEN a ELSE b
             l == IF Report(a, b).winner = a.variant THEN b ELSE a
         IN  /\ w.successes * l.n > l.successes * w.n
             /\ a.n >= MinSamples /\ b.n >= MinSamples
             /\ Report(b, a).winner = Report(a, b).winner
             /\ Report(Twice(a), Twice(b)).winner = Report(a, b).winner
<1>1. /\ ~TooFew(a, b) /\ Differ(a, b) /\ Gap(a, b) # 0 /\ Gap(a, b) \in Int /\ Gap(b, a) = -Gap(a, b)
      /\ Report(a, b).winner = (IF Gap(a, b) > 0 THEN a.variant ELSE b.variant)
  BY WinnerOfReport, GapIsInt
<1>2. /\ a.n \in Nat /\ b.n \in Nat /\ MinSamples \in Nat \ {0} /\ a.n >= MinSamples /\ b.n >= MinSamples
  BY <1>1, ExperimentsAssumption DEF Stats, TooFew
<1>3. Report(b, a).winner = Report(a, b).winner
  <2>1. ~TooFew(b, a) /\ Differ(b, a) /\ Gap(b, a) # 0
    BY <1>1, DifferIsSymmetric DEF TooFew
  <2>. QED
    BY <1>1, <2>1, ReportOfGap
<1>4. Report(Twice(a), Twice(b)).winner = Report(a, b).winner
  <2>1. Differ(Twice(a), Twice(b)) /\ Gap(Twice(a), Twice(b)) = 4 * Gap(a, b)
    BY <1>1, DifferScales
  <2>2. ~TooFew(Twice(a), Twice(b))
    BY <1>2, TwiceIsStats DEF TooFew
  <2>3. Gap(Twice(a), Twice(b)) # 0 /\ (Gap(Twice(a), Twice(b)) > 0 <=> Gap(a, b) > 0)
    BY <1>1, <2>1
  <2>4. Report(Twice(a), Twice(b)).winner
          = (IF Gap(Twice(a), Twice(b)) > 0 THEN Twice(a).variant ELSE Twice(b).variant)
    BY <2>1, <2>2, <2>3, TwiceIsStats, ReportOfGap
  <2>. QED
    BY <1>1, <2>3, <2>4, TwiceIsStats
<1>5. a.successes * b.n \in Nat /\ b.successes * a.n \in Nat
  BY ProductNotNegative DEF Stats
<1>6. (Gap(a, b) > 0 => a.successes * b.n > b.successes * a.n) /\ (Gap(a, b) < 0 => b.successes * a.n > a.successes * b.n)
  BY <1>5 DEF Gap
<1>7. Gap(a, b) > 0 \/ Gap(a, b) < 0
  BY <1>1
<1>. QED
  BY <1>1, <1>2, <1>3, <1>4, <1>6, <1>7

LEMMA CountsAreStats ==
  ASSUME ExperimentTypeOK, NEW v \in Variant
  PROVE  /\ Counts(v) \in Stats /\ Counts(v).variant = v /\ v # NoWinner
         /\ Counts(v).successes <= Counts(v).n
<1>1. v \in Nat \ {0}
  BY ExperimentsAssumption DEF Variant
<1>2. good[v] \in Nat /\ bad[v] \in Nat
  BY DEF ExperimentTypeOK
<1>3. good[v] + bad[v] \in Nat /\ good[v] <= good[v] + bad[v]
  BY <1>2
<1>. QED
  BY <1>1, <1>2, <1>3 DEF Counts, Counted, Stats, NoWinner

LEMMA ReportsAreTrue == ExperimentTypeOK => WinnerIsEarned
<1>. SUFFICES ASSUME ExperimentTypeOK PROVE WinnerIsEarned
  OBVIOUS
<1>1. ASSUME ~oddity, NEW q \in Variant \X Variant, Two(q)
      PROVE  \E p \in Variant \X Variant : Two(p) /\ Answer = Report(Counts(p[1]), Counts(p[2]))
  <2>. DEFINE p == CHOOSE p \in Variant \X Variant : Two(p)
  <2>1. p \in Variant \X Variant /\ Two(p)
    BY <1>1
  <2>2. Variants # {}
    BY <2>1 DEF Two
  <2>3. Answer = Report(Counts(p[1]), Counts(p[2]))
    BY <1>1, <2>2 DEF Answer
  <2>. QED
    BY <2>1, <2>3
<1>2. ASSUME Answer.status = 200, Answer.winner # NoWinner
      PROVE  LET a == Answer.variants[1]
                 b == Answer.variants[2]
                 w == IF Answer.winner = a.variant THEN a ELSE b
                 l == IF Answer.winner = a.variant THEN b ELSE a
             IN  /\ w.successes * l.n > l.successes * w.n
                 /\ a.n >= MinSamples /\ b.n >= MinSamples
                 /\ Report(b, a).winner = Answer.winner
                 /\ Report(Twice(a), Twice(b)).winner = Answer.winner
  <2>1. ~oddity /\ \E p \in Variant \X Variant : Two(p)
    BY <1>2 DEF Answer, Missing
  <2>2. PICK p \in Variant \X Variant : Two(p) /\ Answer = Report(Counts(p[1]), Counts(p[2]))
    BY <1>1, <2>1
  <2>. DEFINE a == Counts(p[1])
              b == Counts(p[2])
  <2>3. p[1] \in Variant /\ p[2] \in Variant /\ p[1] # p[2]
    <3>1. \A v \in Variant : v \in Nat
      BY ExperimentsAssumption DEF Variant
    <3>. QED
      BY <2>2, <3>1 DEF Two
  <2>4. /\ a \in Stats /\ b \in Stats /\ a.successes <= a.n /\ b.successes <= b.n
        /\ a.variant # b.variant
    BY <2>3, CountsAreStats
  <2>5. Answer.variants[1] = a /\ Answer.variants[2] = b /\ Answer.winner = Report(a, b).winner
    BY <2>2 DEF Report
  <2>. HIDE DEF a, b
  <2>. QED
    BY <1>2, <2>4, <2>5, ReportIsEarned
<1>3. ASSUME NEW r \in Responses, r.status = 200 PROVE r = Answer
  BY <1>3 DEF Responses, Missing
<1>. QED
  BY <1>2, <1>3 DEF WinnerIsEarned

\* For any counts of any variants: a winner is ahead with enough samples on both sides, in
\* whichever order, and more of the same keeps it.
THEOREM WinnersAreEarned == ExperimentSpec => [](ExperimentTypeOK /\ WinnerIsEarned)
<1>. QED
  BY ExperimentStarts, ExperimentStaysTyped, ReportsAreTrue, PTL DEF ExperimentSpec

-----------------------------------------------------------------------------
\* Telemetry.
LEMMA InIsFinite ==
  ASSUME NEW q \in Seq(UsageEvent), NEW name, NEW m
  PROVE  IsFiniteSet(In(q, name, m)) /\ Cardinality(In(q, name, m)) \in Nat
<1>1. IsFiniteSet(1..Len(q)) /\ In(q, name, m) \subseteq 1..Len(q)
  BY FS_Interval DEF In
<1>. QED
  BY <1>1, FS_Subset, FS_CardinalityType

\* One more record is counted where it belongs.
LEMMA CountOfAppend ==
  ASSUME NEW q \in Seq(UsageEvent), NEW e \in UsageEvent, NEW name, NEW m
  PROVE  Cardinality(In(Append(q, e), name, m))
           = Cardinality(In(q, name, m)) + (IF e.name = name /\ e.model = m THEN 1 ELSE 0)
<1>. DEFINE n == Len(q) + 1
            r == Append(q, e)
<1>1. /\ DOMAIN r = 1..n /\ r[n] = e /\ n \notin DOMAIN q
      /\ DOMAIN q = 1..(n - 1) /\ \A i \in DOMAIN q : r[i] = q[i]
  OBVIOUS
<1>2. \A i : i \in DOMAIN r <=> i \in DOMAIN q \/ i = n
  BY <1>1
<1>. HIDE DEF n, r
<1>3. CASE e.name = name /\ e.model = m
  <2>1. In(r, name, m) = In(q, name, m) \cup {n} /\ n \notin In(q, name, m)
    BY <1>1, <1>2, <1>3 DEF In
  <2>2. Cardinality(In(q, name, m) \cup {n}) = Cardinality(In(q, name, m)) + 1
    BY <2>1, InIsFinite, FS_AddElement
  <2>3. Cardinality(In(r, name, m)) = Cardinality(In(q, name, m)) + 1
    BY <2>1, <2>2
  <2>. QED
    BY <1>3, <2>3 DEF r
<1>4. CASE ~(e.name = name /\ e.model = m)
  <2>1. In(r, name, m) = In(q, name, m)
    BY <1>1, <1>2, <1>4 DEF In
  <2>. QED
    BY <1>4, <2>1, InIsFinite DEF r
<1>. QED
  BY <1>3, <1>4

LEMMA OfIsFinite ==
  ASSUME NEW m, NEW S
  PROVE  IsFiniteSet(Those(m, S)) /\ Of(m, S) \in Nat
<1>1. Those(m, S) \subseteq Generation
  BY DEF Those
<1>. QED
  BY <1>1, TelemetryAssumption, FS_Subset, FS_CardinalityType DEF Of

\* A generation that goes on is counted at its new place.
LEMMA OfMoves ==
  ASSUME NEW g \in Generation, NEW x, TelemetryTypeOK, stage' = [stage EXCEPT ![g] = x],
         asks' = asks
  PROVE  \A m, S : Of(m, S)' \in Nat /\ Of(m, S)' + (IF asks[g] = m /\ stage[g] \in S THEN 1 ELSE 0)
                                           = Of(m, S) + (IF asks[g] = m /\ x \in S THEN 1 ELSE 0)
<1>. TAKE m, S
<1>. DEFINE T == {h \in Generation \ {g} : asks[h] = m /\ stage[h] \in S}
            A == Those(m, S)
            B == {h \in Generation : asks'[h] = m /\ stage'[h] \in S}
<1>1. IsFiniteSet(T) /\ Cardinality(T) \in Nat /\ g \notin T
  BY TelemetryAssumption, FS_Subset, FS_CardinalityType
<1>2. stage'[g] = x /\ \A h \in Generation \ {g} : stage'[h] = stage[h]
  BY DEF TelemetryTypeOK
<1>3. A = IF asks[g] = m /\ stage[g] \in S THEN T \cup {g} ELSE T
  BY DEF Those
<1>4. B = IF asks[g] = m /\ x \in S THEN T \cup {g} ELSE T
  BY <1>2
<1>5. Of(m, S) = Cardinality(A) /\ Of(m, S)' = Cardinality(B)
  BY DEF Of, Those
<1>6. Cardinality(T \cup {g}) = Cardinality(T) + 1
  BY <1>1, FS_AddElement
<1>. HIDE DEF T, A, B
<1>. QED
  BY <1>1, <1>3, <1>4, <1>5, <1>6

LEMMA TelemetryStarts == TelemetryInit => TelemetryInv
<1>. SUFFICES ASSUME TelemetryInit PROVE TelemetryInv
  OBVIOUS
<1>1. TelemetryTypeOK
  <2>1. 0 \in Nat /\ MaxDropped \in Nat
    BY TelemetryAssumption
  <2>2. Nothing \in [Model -> Usage]
    BY <2>1 DEF Nothing, Usage
  <2>3. recorded \in Seq(UsageEvent) /\ lost \in Seq(UsageEvent) /\ Len(lost) <= MaxDropped
    BY <2>1 DEF TelemetryInit
  <2>4. stage \in [Generation -> {"lookup", "missed", "permit", "sent", "over", "refused"}] /\ cached \in SUBSET Generation
    BY DEF TelemetryInit
  <2>. QED
    BY <2>2, <2>3, <2>4 DEF TelemetryInit, TelemetryTypeOK
<1>2. \A g \in Generation : stage[g] = "lookup"
  BY DEF TelemetryInit
<1>3. ASSUME NEW m, NEW S, "lookup" \notin S PROVE Of(m, S) = 0
  <2>1. Those(m, S) = {}
    BY <1>2, <1>3 DEF Those
  <2>. QED
    BY <2>1, FS_EmptySet DEF Of
<1>4. ASSUME NEW name, NEW m PROVE Records(name, m) = 0
  <2>1. In(recorded, name, m) = {} /\ In(lost, name, m) = {}
    BY DEF In, TelemetryInit
  <2>. QED
    BY <2>1, FS_EmptySet DEF Records, Count
<1>5. cached = {g \in Generation : stage[g] = "over"}
  BY <1>2 DEF TelemetryInit
<1>6. \A m \in Model : page[m].calls = 0 /\ page[m].hits = 0 /\ page[m].misses = 0
  BY DEF TelemetryInit, Nothing
<1>7. \A m \in Model : /\ Of(m, {"sent"}) = 0 /\ Of(m, {"over"}) = 0
                       /\ Of(m, {"missed", "permit", "sent", "refused"}) = 0
  BY <1>3
<1>. QED
  BY <1>1, <1>4, <1>5, <1>6, <1>7 DEF TelemetryInv, CallsWereMisses

\* What a record adds, whether it is stored or lost.
LEMMA RecordCounts ==
  ASSUME TelemetryTypeOK, NEW g \in Generation, NEW name \in RecordName, Record(g, name)
  PROVE  /\ recorded' \in Seq(UsageEvent) /\ lost' \in Seq(UsageEvent) /\ Len(lost') <= MaxDropped
         /\ lost' = <<>> => lost = <<>>
         /\ \A nm, m : Records(nm, m)' = Records(nm, m) + (IF nm = name /\ asks[g] = m THEN 1 ELSE 0)
<1>. DEFINE e == [name |-> name, model |-> asks[g]]
<1>1. /\ e \in UsageEvent /\ e.name = name /\ e.model = asks[g]
      /\ recorded \in Seq(UsageEvent) /\ lost \in Seq(UsageEvent) /\ Len(lost) <= MaxDropped
  BY DEF TelemetryTypeOK, UsageEvent
<1>2. \/ recorded' = Append(recorded, e) /\ lost' = lost
      \/ recorded' = recorded /\ lost' = Append(lost, e) /\ Len(lost) < MaxDropped
  BY DEF Record
<1>. HIDE DEF e
<1>3. ASSUME NEW nm, NEW m PROVE Records(nm, m)' = Records(nm, m) + (IF nm = name /\ asks[g] = m THEN 1 ELSE 0)
  <2>1. /\ Cardinality(In(Append(recorded, e), nm, m)) = Count(nm, m) + (IF nm = name /\ asks[g] = m THEN 1 ELSE 0)
        /\ Cardinality(In(Append(lost, e), nm, m))
             = Cardinality(In(lost, nm, m)) + (IF nm = name /\ asks[g] = m THEN 1 ELSE 0)
    BY <1>1, CountOfAppend DEF Count
  <2>2. Count(nm, m) \in Nat /\ Cardinality(In(lost, nm, m)) \in Nat
    BY <1>1, InIsFinite DEF Count
  <2>3. Records(nm, m)' = Cardinality(In(recorded', nm, m)) + Cardinality(In(lost', nm, m))
    BY DEF Records, Count, In
  <2>4. Records(nm, m) = Cardinality(In(recorded, nm, m)) + Cardinality(In(lost, nm, m))
    BY DEF Records, Count
  <2>5. CASE recorded' = Append(recorded, e) /\ lost' = lost
    <3>1. Records(nm, m)' = Cardinality(In(Append(recorded, e), nm, m)) + Cardinality(In(lost, nm, m))
      BY <2>3, <2>5
    <3>. QED
      BY <2>1, <2>2, <2>4, <3>1 DEF Count
  <2>6. CASE recorded' = recorded /\ lost' = Append(lost, e)
    <3>1. Records(nm, m)' = Cardinality(In(recorded, nm, m)) + Cardinality(In(Append(lost, e), nm, m))
      BY <2>3, <2>6
    <3>. QED
      BY <2>1, <2>2, <2>4, <3>1 DEF Count
  <2>. QED
    BY <1>2, <2>5, <2>6
<1>4. recorded' \in Seq(UsageEvent) /\ lost' \in Seq(UsageEvent)
  <2>1. Append(recorded, e) \in Seq(UsageEvent) /\ Append(lost, e) \in Seq(UsageEvent)
    BY <1>1
  <2>. QED
    BY <1>1, <1>2, <2>1
<1>5. Len(lost') <= MaxDropped /\ (lost' = <<>> => lost = <<>>)
  BY <1>1, <1>2, TelemetryAssumption
<1>. QED
  BY <1>3, <1>4, <1>5

LEMMA TelemetryStaysTrue == TelemetryInv /\ [TelemetryNext]_telemetryVars => TelemetryInv'
<1>. SUFFICES ASSUME TelemetryInv, [TelemetryNext]_telemetryVars PROVE TelemetryInv'
  OBVIOUS
<1>. DEFINE Stage == {"lookup", "missed", "permit", "sent", "over", "refused"}
            Asked == {"missed", "permit", "sent", "refused"}
<1>a. /\ TelemetryTypeOK /\ cached = {g \in Generation : stage[g] = "over"} /\ CallsWereMisses
      /\ stage \in [Generation -> Stage] /\ asks \in [Generation -> Model] /\ page \in [Model -> Usage]
      /\ recorded \in Seq(UsageEvent) /\ lost \in Seq(UsageEvent)
  BY DEF TelemetryInv, TelemetryTypeOK
<1>b. /\ \A m \in Model :
           /\ Records("llm.call", m) = Of(m, {"sent"})
           /\ Records("cache.hit", m) = Of(m, {"over"})
           /\ Records("cache.miss", m) = Of(m, Asked)
           /\ page[m].calls <= Of(m, {"sent"}) /\ page[m].hits <= Of(m, {"over"})
      /\ \A m \in Model : page[m].calls \in Nat /\ page[m].hits \in Nat /\ page[m].misses \in Nat
      /\ \A m, S : Of(m, S) \in Nat
  BY <1>a, OfIsFinite DEF TelemetryInv, Usage
\* A generation goes from one place to another and records it.
<1>1. ASSUME NEW g \in Generation, NEW x \in Stage, stage' = [stage EXCEPT ![g] = x], asks' = asks, page' = page,
             stage[g] # "sent", stage[g] # "over", x # "lookup",
             cached' = {h \in Generation : stage'[h] = "over"},
             \/ /\ recorded' = recorded /\ lost' = lost /\ stage[g] \in Asked /\ x \in Asked \ {"sent"}
             \/ /\ stage[g] = "lookup" /\ x = "over" /\ Record(g, "cache.hit")
             \/ /\ stage[g] = "lookup" /\ x = "missed" /\ Record(g, "cache.miss")
             \/ /\ stage[g] = "permit" /\ x = "sent" /\ Record(g, "llm.call")
      PROVE  TelemetryInv'
  <2>. DEFINE name == IF x = "over" THEN "cache.hit" ELSE IF x = "sent" THEN "llm.call"
                      ELSE IF stage[g] = "lookup" THEN "cache.miss" ELSE "-"
  <2>1. /\ recorded' \in Seq(UsageEvent) /\ lost' \in Seq(UsageEvent) /\ Len(lost') <= MaxDropped
        /\ lost' = <<>> => lost = <<>>
        /\ \A nm \in RecordName : \A m : Records(nm, m)' = Records(nm, m) + (IF nm = name /\ asks[g] = m THEN 1 ELSE 0)
    <3>1. \A nm, m : Records(nm, m) \in Nat
      BY <1>a, InIsFinite DEF Records, Count
    <3>2. CASE recorded' = recorded /\ lost' = lost /\ stage[g] \in Asked /\ x \in Asked \ {"sent"}
      <4>1. name = "-"
        BY <3>2
      <4>2. \A nm, m : Records(nm, m)' = Records(nm, m)
        BY <3>2 DEF Records, Count, In
      <4>3. Len(lost) <= MaxDropped
        BY <1>a DEF TelemetryTypeOK
      <4>. QED
        BY <1>a, <3>1, <3>2, <4>1, <4>2, <4>3 DEF RecordName
    <3>3. ASSUME NEW w \in RecordName, Record(g, w), name = w
          PROVE  /\ recorded' \in Seq(UsageEvent) /\ lost' \in Seq(UsageEvent) /\ Len(lost') <= MaxDropped
                 /\ lost' = <<>> => lost = <<>>
                 /\ \A nm, m : Records(nm, m)' = Records(nm, m) + (IF nm = name /\ asks[g] = m THEN 1 ELSE 0)
      BY <1>a, <3>3, RecordCounts
    <3>4. \/ recorded' = recorded /\ lost' = lost /\ stage[g] \in Asked /\ x \in Asked \ {"sent"}
          \/ \E w \in RecordName : Record(g, w) /\ name = w
      BY <1>1 DEF RecordName
    <3>. HIDE DEF name
    <3>. QED
      BY <3>2, <3>3, <3>4
  <2>. HIDE DEF name
  <2>2. TelemetryTypeOK'
    <3>1. stage' \in [Generation -> Stage] /\ cached' \in SUBSET Generation
      BY <1>a, <1>1
    <3>. QED
      BY <1>a, <1>1, <2>1, <3>1 DEF TelemetryTypeOK
  <2>3. \A m, S : Of(m, S)' \in Nat /\ Of(m, S)' + (IF asks[g] = m /\ stage[g] \in S THEN 1 ELSE 0)
                    = Of(m, S) + (IF asks[g] = m /\ x \in S THEN 1 ELSE 0)
    <3>1. TelemetryTypeOK /\ stage' = [stage EXCEPT ![g] = x] /\ asks' = asks
      BY <1>a, <1>1
    <3>. QED
      BY <3>1, OfMoves
  <2>5. \A m \in Model :
          /\ Records("llm.call", m)' = Of(m, {"sent"})' /\ Of(m, {"sent"})' >= Of(m, {"sent"})
          /\ Records("cache.hit", m)' = Of(m, {"over"})' /\ Of(m, {"over"})' >= Of(m, {"over"})
          /\ Records("cache.miss", m)' = Of(m, Asked)'
    <3>. SUFFICES ASSUME NEW m \in Model
                  PROVE  /\ Records("llm.call", m)' = Of(m, {"sent"})' /\ Of(m, {"sent"})' >= Of(m, {"sent"})
                         /\ Records("cache.hit", m)' = Of(m, {"over"})' /\ Of(m, {"over"})' >= Of(m, {"over"})
                         /\ Records("cache.miss", m)' = Of(m, Asked)'
      OBVIOUS
    <3>1. /\ Of(m, {"sent"})' = Of(m, {"sent"}) + (IF asks[g] = m /\ x = "sent" THEN 1 ELSE 0)
          /\ Of(m, {"over"})' = Of(m, {"over"}) + (IF asks[g] = m /\ x = "over" THEN 1 ELSE 0)
      BY <1>b, <1>1, <2>3
    <3>2. Of(m, Asked)' = Of(m, Asked) + (IF asks[g] = m /\ stage[g] = "lookup" /\ x = "missed" THEN 1 ELSE 0)
      <4>1. Of(m, Asked)' + (IF asks[g] = m /\ stage[g] \in Asked THEN 1 ELSE 0)
              = Of(m, Asked) + (IF asks[g] = m /\ x \in Asked THEN 1 ELSE 0)
        BY <2>3
      <4>2. /\ stage[g] \in Asked => x \in Asked /\ ~(stage[g] = "lookup" /\ x = "missed")
            /\ stage[g] \notin Asked => (x \in Asked <=> stage[g] = "lookup" /\ x = "missed")
        BY <1>1
      <4>3. Of(m, Asked) \in Nat /\ Of(m, Asked)' \in Nat
        BY <1>b, <2>3
      <4>. QED
        BY <4>1, <4>2, <4>3
    <3>3. /\ Records("llm.call", m)' = Records("llm.call", m) + (IF name = "llm.call" /\ asks[g] = m THEN 1 ELSE 0)
          /\ Records("cache.hit", m)' = Records("cache.hit", m) + (IF name = "cache.hit" /\ asks[g] = m THEN 1 ELSE 0)
          /\ Records("cache.miss", m)' = Records("cache.miss", m) + (IF name = "cache.miss" /\ asks[g] = m THEN 1 ELSE 0)
      BY <2>1 DEF RecordName
    <3>4. /\ name = "llm.call" <=> x = "sent"
          /\ name = "cache.hit" <=> x = "over"
          /\ name = "cache.miss" <=> stage[g] = "lookup" /\ x = "missed"
      BY <1>1 DEF name
    <3>. QED
      BY <1>b, <3>1, <3>2, <3>3, <3>4
  <2>6. \A m \in Model : page'[m].calls <= Of(m, {"sent"})' /\ page'[m].hits <= Of(m, {"over"})'
    BY <1>b, <1>1, <2>3, <2>5
  <2>7. CallsWereMisses'
    BY <1>a, <1>1, <2>1 DEF CallsWereMisses
  <2>. QED
    BY <1>1, <2>2, <2>5, <2>6, <2>7 DEF TelemetryInv
<1>2. ASSUME NEW g \in Generation, Lookup(g) PROVE TelemetryInv'
  <2>1. /\ stage[g] = "lookup" /\ asks' = asks /\ page' = page
        /\ \/ stage' = [stage EXCEPT ![g] = "over"] /\ cached' = cached \cup {g} /\ Record(g, "cache.hit")
           \/ stage' = [stage EXCEPT ![g] = "missed"] /\ cached' = cached /\ Record(g, "cache.miss")
    BY <1>2 DEF Lookup, Proceed
  <2>2. cached' = {h \in Generation : stage'[h] = "over"}
    BY <1>a, <2>1
  <2>. QED
    BY <1>1, <2>1, <2>2
<1>3. ASSUME NEW g \in Generation, Acquire(g) PROVE TelemetryInv'
  <2>1. /\ stage[g] = "missed" /\ asks' = asks /\ page' = page /\ cached' = cached
        /\ recorded' = recorded /\ lost' = lost
        /\ \/ stage' = [stage EXCEPT ![g] = "permit"]
           \/ stage' = [stage EXCEPT ![g] = "refused"]
    BY <1>3 DEF Acquire, Permit, Proceed
  <2>2. cached' = {h \in Generation : stage'[h] = "over"}
    BY <1>a, <2>1
  <2>. QED
    BY <1>1, <2>1, <2>2
<1>4. ASSUME NEW g \in Generation, Send(g) PROVE TelemetryInv'
  <2>1. /\ stage[g] = "permit" /\ asks' = asks /\ page' = page /\ cached' = cached
        /\ stage' = [stage EXCEPT ![g] = "sent"] /\ Record(g, "llm.call")
    BY <1>4 DEF Send, Proceed
  <2>2. cached' = {h \in Generation : stage'[h] = "over"}
    BY <1>a, <2>1
  <2>. QED
    BY <1>1, <2>1, <2>2
<1>5. ASSUME ShowUsage PROVE TelemetryInv'
  <2>1. /\ recorded' = recorded /\ lost' = lost /\ stage' = stage /\ asks' = asks /\ cached' = cached
        /\ page' = [m \in Model |-> UsageOf(m)] \/ page' = Nothing
    BY <1>5 DEF ShowUsage
  <2>2. \A nm, m : /\ Count(nm, m) \in Nat /\ Count(nm, m) <= Records(nm, m) /\ Records(nm, m) \in Nat
                   /\ lost = <<>> => Records(nm, m) = Count(nm, m)
    <3>1. \A nm, m : Count(nm, m) \in Nat /\ Cardinality(In(lost, nm, m)) \in Nat
      BY <1>a, InIsFinite DEF Count
    <3>2. \A nm, m : lost = <<>> => Cardinality(In(lost, nm, m)) = 0
      <4>1. \A nm, m : lost = <<>> => In(lost, nm, m) = {}
        BY DEF In
      <4>. QED
        BY <4>1, FS_EmptySet
    <3>. QED
      BY <3>1, <3>2 DEF Records
  <2>3. \A m \in Model : \/ /\ page'[m].calls = Count("llm.call", m) /\ page'[m].hits = Count("cache.hit", m)
                            /\ page'[m].misses = Count("cache.miss", m)
                         \/ page'[m].calls = 0 /\ page'[m].hits = 0 /\ page'[m].misses = 0
    BY <2>1 DEF UsageOf, Nothing
  <2>4. TelemetryTypeOK'
    <3>1. page' \in [Model -> Usage]
      BY <2>1, <2>2 DEF UsageOf, Usage, Nothing
    <3>. QED
      BY <1>a, <2>1, <3>1 DEF TelemetryTypeOK
  <2>5. \A nm, m, S : Records(nm, m)' = Records(nm, m) /\ Of(m, S)' = Of(m, S)
    BY <2>1 DEF Records, Count, In, Of, Those
  <2>6. ASSUME NEW m \in Model PROVE Of(m, {"sent"}) <= Of(m, Asked)
    <3>1. IsFiniteSet(Those(m, Asked))
      BY OfIsFinite
    <3>2. Those(m, {"sent"}) \subseteq Those(m, Asked)
      BY DEF Those
    <3>. QED
      BY <3>1, <3>2, FS_Subset DEF Of
  <2>7. CallsWereMisses'
    <3>1. ASSUME lost = <<>>, NEW m \in Model PROVE page'[m].calls <= page'[m].misses
      BY <1>b, <2>2, <2>3, <2>6, <3>1
    <3>. QED
      BY <2>1, <3>1 DEF CallsWereMisses
  <2>8. \A m \in Model : page'[m].calls <= Of(m, {"sent"}) /\ page'[m].hits <= Of(m, {"over"})
    BY <1>b, <2>2, <2>3
  <2>. QED
    BY <1>a, <1>b, <2>1, <2>4, <2>5, <2>7, <2>8 DEF TelemetryInv
<1>6. CASE UNCHANGED telemetryVars
  <2>1. /\ recorded' = recorded /\ lost' = lost /\ stage' = stage /\ asks' = asks /\ cached' = cached
        /\ page' = page
    BY <1>6 DEF telemetryVars
  <2>2. \A nm, m, S : Records(nm, m)' = Records(nm, m) /\ Of(m, S)' = Of(m, S)
    BY <2>1 DEF Records, Count, In, Of, Those
  <2>3. TelemetryTypeOK' /\ CallsWereMisses'
    BY <1>a, <2>1 DEF TelemetryInv, TelemetryTypeOK, CallsWereMisses
  <2>. QED
    BY <1>a, <1>b, <2>1, <2>2, <2>3 DEF TelemetryInv
<1>. QED
  BY <1>2, <1>3, <1>4, <1>5, <1>6 DEF TelemetryNext

LEMMA DisjointCount ==
  ASSUME NEW A, NEW B, IsFiniteSet(A), IsFiniteSet(B), A \cap B = {}
  PROVE  IsFiniteSet(A \cup B) /\ Cardinality(A \cup B) = Cardinality(A) + Cardinality(B)
<1>1. Cardinality(A \cap B) = 0
  BY FS_EmptySet
<1>2. Cardinality(A) \in Nat /\ Cardinality(B) \in Nat
  BY FS_CardinalityType
<1>3. IsFiniteSet(A \cup B) /\ Cardinality(A \cup B) = Cardinality(A) + Cardinality(B) - Cardinality(A \cap B)
  BY FS_Union
<1>. QED
  BY <1>1, <1>2, <1>3

LEMMA TelemetryInvIsEnough == TelemetryInv => UsageIsTrue
<1>. SUFFICES ASSUME TelemetryInv, NEW m \in Model
              PROVE  /\ page[m].calls <= Of(m, {"sent"}) /\ page[m].hits <= Hits(m)
                     /\ Count("llm.call", m) + Count("cache.hit", m) + Count("cache.miss", m) + Lost(m)
                          = Of(m, {"sent"}) + Of(m, {"over", "missed", "permit", "sent", "refused"})
  BY DEF UsageIsTrue, UsageOf
<1>. DEFINE Asked == {"missed", "permit", "sent", "refused"}
<1>1. Hits(m) = Of(m, {"over"})
  <2>1. {g \in cached : asks[g] = m} = Those(m, {"over"})
    BY DEF TelemetryInv, Those
  <2>. QED
    BY <2>1 DEF Hits, Of
<1>2. Of(m, {"over", "missed", "permit", "sent", "refused"}) = Of(m, {"over"}) + Of(m, Asked)
  <2>. DEFINE A == Those(m, {"over"})
              B == Those(m, Asked)
              C == Those(m, {"over", "missed", "permit", "sent", "refused"})
  <2>1. C = A \cup B /\ A \cap B = {}
    BY DEF Those
  <2>2. IsFiniteSet(A) /\ IsFiniteSet(B)
    BY OfIsFinite
  <2>. HIDE DEF A, B, C
  <2>3. Cardinality(C) = Cardinality(A) + Cardinality(B)
    BY <2>1, <2>2, DisjointCount
  <2>. QED
    BY <2>3 DEF Of, A, B, C
<1>3. Lost(m) = Cardinality(In(lost, "llm.call", m)) + Cardinality(In(lost, "cache.hit", m))
                + Cardinality(In(lost, "cache.miss", m))
  <2>. DEFINE A == In(lost, "llm.call", m)
              B == In(lost, "cache.hit", m)
              C == In(lost, "cache.miss", m)
              D == {i \in DOMAIN lost : lost[i].model = m}
  <2>1. lost \in Seq(UsageEvent)
    BY DEF TelemetryInv, TelemetryTypeOK
  <2>2. \A i \in DOMAIN lost : lost[i].name \in RecordName
    <3>1. \A i \in DOMAIN lost : lost[i] \in UsageEvent
      BY <2>1, ElementOfSeq
    <3>. QED
      BY <3>1 DEF UsageEvent
  <2>3. D = (A \cup B) \cup C /\ A \cap B = {} /\ (A \cup B) \cap C = {}
    BY <2>2 DEF In, RecordName
  <2>4. IsFiniteSet(A) /\ IsFiniteSet(B) /\ IsFiniteSet(C)
    BY <2>1, InIsFinite
  <2>. HIDE DEF A, B, C, D
  <2>5. IsFiniteSet(A \cup B) /\ Cardinality(A \cup B) = Cardinality(A) + Cardinality(B)
    BY <2>3, <2>4, DisjointCount
  <2>6. Cardinality(D) = Cardinality(A \cup B) + Cardinality(C)
    BY <2>3, <2>4, <2>5, DisjointCount
  <2>7. Lost(m) = Cardinality(D)
    BY DEF Lost, D
  <2>. QED
    BY <2>5, <2>6, <2>7 DEF A, B, C
<1>4. \A nm : Count(nm, m) \in Nat /\ Cardinality(In(lost, nm, m)) \in Nat
  BY InIsFinite DEF TelemetryInv, TelemetryTypeOK, Count
<1>5. /\ Records("llm.call", m) = Of(m, {"sent"}) /\ Records("cache.hit", m) = Of(m, {"over"})
      /\ Records("cache.miss", m) = Of(m, Asked) /\ page[m].calls <= Of(m, {"sent"}) /\ page[m].hits <= Of(m, {"over"})
  BY DEF TelemetryInv
<1>. QED
  BY <1>1, <1>2, <1>3, <1>4, <1>5 DEF Records

\* For any generations, models and records that fail: no page shows more than was done, and
\* what is stored falls short by what was lost.
THEOREM UsageIsAlwaysTrue == TelemetrySpec => [](TelemetryTypeOK /\ UsageIsTrue /\ CallsWereMisses)
<1>1. TelemetryInv => TelemetryTypeOK /\ CallsWereMisses
  BY DEF TelemetryInv
<1>. QED
  BY <1>1, TelemetryStarts, TelemetryStaysTrue, TelemetryInvIsEnough, PTL DEF TelemetrySpec

\* Every part of the dashboard is proved, so the whole of it is, for any number of jobs,
\* requests, prompts, records and events.
THEOREM DashboardAlwaysTrue == DashboardSpec => DashboardIsTrue
  BY JobsAreSerialized, LibraryIsAlwaysKept, ConsoleAlwaysTrue, UsageIsAlwaysTrue, WinnersAreEarned, PTL
     DEF DashboardSpec, DashboardIsTrue

-----------------------------------------------------------------------------
\* The terminal interface.
\* What one more event means for the channel, which is gone once the interface is closed.
OneMore(e) ==
  /\ events' \in Seq(Event) /\ (ui = "closed" => events' = <<>>)
  /\ \A i \in DOMAIN events : i \in DOMAIN events' /\ events'[i] = events[i] /\ i \in Nat /\ i <= Len(events)
  /\ \A i \in DOMAIN events' :
       \/ i \in DOMAIN events /\ events'[i] = events[i]
       \/ i = Len(events) + 1 /\ i = Len(events') /\ events'[i] = e /\ ui = "open" /\ i \notin DOMAIN events
  /\ ui = "open" => Len(events) + 1 \in DOMAIN events' /\ events'[Len(events) + 1] = e
                    /\ Len(events') = Len(events) + 1

LEMMA EmitOne ==
  ASSUME TuiTypeOK, ui = "closed" => events = <<>>, NEW e \in Event, Emit(<<e>>)
  PROVE  OneMore(e)
<1>1. events \in Seq(Event) /\ Len(events) \in Nat /\ DOMAIN events = 1..Len(events)
  BY DEF TuiTypeOK
<1>2. CASE ui = "open"
  <2>1. events' = events \o <<e>>
    BY <1>2 DEF Emit
  <2>2. /\ events' \in Seq(Event) /\ Len(events') = Len(events) + 1 /\ DOMAIN events' = 1..(Len(events) + 1)
        /\ events'[Len(events) + 1] = e /\ \A i \in DOMAIN events : events'[i] = events[i]
    BY <1>1, <2>1
  <2>. QED
    BY <1>1, <1>2, <2>2 DEF OneMore
<1>3. CASE ui = "closed"
  <2>1. events' = events /\ events = <<>>
    BY <1>3 DEF Emit
  <2>2. events' = <<>> /\ events' \in Seq(Event) /\ DOMAIN events' = {} /\ DOMAIN events = {}
    BY <1>1, <2>1
  <2>. QED
    BY <1>3, <2>2 DEF OneMore
<1>. QED
  BY <1>2, <1>3 DEF TuiTypeOK

LEMMA EventIsTyped ==
  ASSUME TuiTypeOK, NEW k \in {"delta", "done", "tool", "ask", "notice", "status", "idle", "fatal"},
         NEW id \in 0..MaxAsks, NEW note \in {"-", "persist", "error", "fatal"}
  PROVE  /\ Ev(k, id, note) \in Event /\ Ev(k, id, note).k = k /\ Ev(k, id, note).turn = turn
         /\ Ev(k, id, note).id = id /\ Ev(k, id, note).note = note /\ Ev(k, id, note).sel = opts
<1>1. turn \in 0..MaxTurns /\ opts \in Selection
  BY TuiAssumption DEF TuiTypeOK
<1>. QED
  BY <1>1 DEF Ev, Event

LEMMA PlainIsTyped ==
  ASSUME TuiTypeOK, NEW k \in {"delta", "done", "tool", "ask", "notice", "status", "idle", "fatal"}
  PROVE  /\ Plain(k) \in Event /\ Plain(k).k = k /\ Plain(k).turn = turn /\ Plain(k).sel = opts
         /\ Plain(k).id = 0 /\ Plain(k).note = "-"
<1>1. 0 \in 0..MaxAsks
  BY TuiAssumption
<1>. QED
  BY <1>1, EventIsTyped DEF Plain

LEMMA TailFacts ==
  ASSUME NEW T, NEW q \in Seq(T), q # <<>>
  PROVE  /\ Tail(q) \in Seq(T) /\ Head(q) \in T /\ Head(q) = q[1] /\ 1 \in DOMAIN q
         /\ Len(Tail(q)) = Len(q) - 1 /\ Len(q) \in Nat /\ Len(q) > 0
         /\ \A i \in DOMAIN Tail(q) : i \in Nat /\ i + 1 \in DOMAIN q /\ Tail(q)[i] = q[i + 1]
         /\ \A i \in DOMAIN q : i \in Nat /\ (i = 1 \/ (i - 1 \in DOMAIN Tail(q) /\ Tail(q)[i - 1] = q[i]))
  OBVIOUS

LEMMA AppendFacts ==
  ASSUME NEW T, NEW q \in Seq(T), NEW e \in T
  PROVE  /\ Append(q, e) \in Seq(T) /\ Len(Append(q, e)) = Len(q) + 1 /\ Len(q) \in Nat
         /\ DOMAIN Append(q, e) = 1..(Len(q) + 1) /\ DOMAIN q = 1..Len(q)
         /\ Append(q, e)[Len(q) + 1] = e /\ \A i \in DOMAIN q : Append(q, e)[i] = q[i]
  OBVIOUS

LEMMA AppendLooksUp ==
  ASSUME NEW T, NEW q \in Seq(T), NEW e \in T
  PROVE  /\ \A i \in DOMAIN q : i \in DOMAIN Append(q, e) /\ Append(q, e)[i] = q[i] /\ i \in Nat /\ i <= Len(q)
         /\ \A i \in DOMAIN Append(q, e) : i \in Nat /\
              (\/ i \in DOMAIN q /\ Append(q, e)[i] = q[i]
               \/ i = Len(q) + 1 /\ Append(q, e)[i] = e /\ i \notin DOMAIN q)
         /\ Len(q) + 1 \in DOMAIN Append(q, e) /\ Append(q, e)[Len(q) + 1] = e
  BY AppendFacts

LEMMA CommandIsTyped ==
  ASSUME TuiTypeOK, NEW k \in {"send", "model", "agent"}, NEW t \in 0..MaxTurns, NEW sl \in Selection
  PROVE  [k |-> k, turn |-> t, sel |-> sl] \in Command
  BY DEF Command

\* The events of the end of a turn: the last one says that it is over, after the notice of
\* what was not saved.
LEMMA ClosingFacts ==
  ASSUME TuiTypeOK, NEW saved \in BOOLEAN
  PROVE  /\ Closing(saved) \in Seq(Event) /\ Len(Closing(saved)) \in 1..3
         /\ \A i \in DOMAIN Closing(saved) :
              /\ Closing(saved)[i].turn = turn /\ Closing(saved)[i].k \in {"notice", "idle"}
              /\ Closing(saved)[i].k = "idle" => i = Len(Closing(saved))
         /\ ~saved => /\ Closing(saved)[1].k = "notice" /\ Closing(saved)[1].note = "persist"
                      /\ Len(Closing(saved)) > 1
<1>. DEFINE p == Ev("notice", 0, "persist")
            r == Ev("notice", 0, "error")
            l == Plain("idle")
<1>1. 0 \in 0..MaxAsks
  BY TuiAssumption
<1>2. /\ p \in Event /\ p.k = "notice" /\ p.turn = turn /\ p.note = "persist"
      /\ r \in Event /\ r.k = "notice" /\ r.turn = turn
      /\ l \in Event /\ l.k = "idle" /\ l.turn = turn
  BY <1>1, EventIsTyped, PlainIsTyped
<1>3. Closing(saved) = (IF saved THEN <<>> ELSE <<p>>) \o (IF turn \in failed THEN <<r>> ELSE <<>>) \o <<l>>
  BY DEF Closing
<1>. HIDE DEF p, r, l
<1>. DEFINE A == IF saved THEN <<>> ELSE <<p>>
            B == IF turn \in failed THEN <<r>> ELSE <<>>
<1>4. /\ A \in Seq(Event) /\ Len(A) \in 0..1 /\ (~saved => Len(A) = 1 /\ A[1] = p)
      /\ \A i \in DOMAIN A : A[i] = p
  <2>1. CASE saved
    <3>1. A = <<>>
      BY <2>1
    <3>. QED
      BY <2>1, <3>1
  <2>2. CASE ~saved
    <3>1. A = <<p>>
      BY <2>2
    <3>. QED
      BY <1>2, <3>1
  <2>. QED
    BY <2>1, <2>2
<1>5. B \in Seq(Event) /\ Len(B) \in 0..1 /\ \A i \in DOMAIN B : B[i] = r
  BY <1>2
<1>. HIDE DEF A, B
<1>. DEFINE C == A \o B
<1>6. /\ C \in Seq(Event) /\ Len(C) \in 0..2 /\ DOMAIN C = 1..Len(C)
      /\ (Len(A) = 1 => Len(C) > 0 /\ C[1] = A[1])
      /\ \A i \in DOMAIN C : C[i] = p \/ C[i] = r
  <2>1. /\ Len(A) \in Nat /\ Len(B) \in Nat /\ DOMAIN A = 1..Len(A) /\ DOMAIN B = 1..Len(B)
    BY <1>4, <1>5
  <2>2. /\ C \in Seq(Event) /\ Len(C) = Len(A) + Len(B) /\ DOMAIN C = 1..(Len(A) + Len(B))
        /\ \A i \in 1..(Len(A) + Len(B)) : C[i] = IF i <= Len(A) THEN A[i] ELSE B[i - Len(A)]
    BY <1>4, <1>5, <2>1
  <2>3. \A i \in 1..(Len(A) + Len(B)) : i \in 1..Len(A) \/ (~(i <= Len(A)) /\ i - Len(A) \in 1..Len(B))
    BY <2>1
  <2>4. Len(A) + Len(B) \in 0..2 /\ (Len(A) = 1 => Len(A) + Len(B) > 0 /\ 1 \in 1..(Len(A) + Len(B)) /\ 1 <= Len(A))
    BY <1>4, <1>5
  <2>. HIDE DEF C
  <2>. QED
    BY <1>4, <1>5, <2>1, <2>2, <2>3, <2>4
<1>. HIDE DEF C
<1>7. Closing(saved) = C \o <<l>>
  BY <1>3 DEF A, B, C
<1>8. /\ C \o <<l>> \in Seq(Event) /\ Len(C \o <<l>>) = Len(C) + 1 /\ DOMAIN (C \o <<l>>) = 1..(Len(C) + 1)
      /\ \A i \in DOMAIN C : (C \o <<l>>)[i] = C[i]
      /\ (C \o <<l>>)[Len(C) + 1] = l
  BY <1>2, <1>6
<1>. DEFINE D == C \o <<l>>
<1>. HIDE DEF D
<1>9. /\ D \in Seq(Event) /\ Len(D) = Len(C) + 1 /\ DOMAIN D = 1..(Len(C) + 1)
      /\ \A i \in DOMAIN C : D[i] = C[i]
      /\ D[Len(C) + 1] = l
  BY <1>8 DEF D
<1>10. \A i \in DOMAIN D : (i \in DOMAIN C /\ (D[i] = p \/ D[i] = r)) \/ (i = Len(D) /\ D[i] = l)
  BY <1>6, <1>9
<1>11. ~saved => D[1] = p /\ Len(D) > 1
  <2>1. Len(A) = 1 => 1 \in DOMAIN C /\ Len(D) > 1
    BY <1>6, <1>9
  <2>. QED
    BY <1>4, <1>6, <1>9, <2>1
<1>12. Closing(saved) = D /\ Len(D) \in 1..3
  BY <1>6, <1>7, <1>9 DEF D
<1>. QED
  BY <1>2, <1>9, <1>10, <1>11, <1>12

\* What the end of a turn does to the channel.
LEMMA EmitMany ==
  ASSUME TuiTypeOK, ui = "closed" => events = <<>>, NEW es \in Seq(Event), Emit(es)
  PROVE  /\ events' \in Seq(Event) /\ (ui = "closed" => events' = <<>>) /\ Len(events) \in Nat
         /\ \A i \in DOMAIN events : i \in DOMAIN events' /\ events'[i] = events[i] /\ i \in Nat /\ i <= Len(events)
         /\ \A i \in DOMAIN events' : i \in Nat /\
              (\/ i \in DOMAIN events /\ events'[i] = events[i]
               \/ i - Len(events) \in DOMAIN es /\ events'[i] = es[i - Len(events)] /\ ui = "open")
         /\ ui = "open" => /\ Len(events') = Len(events) + Len(es)
                           /\ \A j \in DOMAIN es : Len(events) + j \in DOMAIN events' /\ events'[Len(events) + j] = es[j]
<1>1. events \in Seq(Event) /\ Len(events) \in Nat /\ DOMAIN events = 1..Len(events)
      /\ Len(es) \in Nat /\ DOMAIN es = 1..Len(es) /\ ui \in {"open", "closed"}
  BY DEF TuiTypeOK
<1>2. CASE ui = "open"
  <2>1. events' = events \o es
    BY <1>2 DEF Emit
  <2>2. /\ events' \in Seq(Event) /\ Len(events') = Len(events) + Len(es)
        /\ DOMAIN events' = 1..(Len(events) + Len(es))
        /\ \A i \in 1..(Len(events) + Len(es)) : events'[i] = IF i <= Len(events) THEN events[i] ELSE es[i - Len(events)]
    BY <1>1, <2>1
  <2>3. \A i \in 1..(Len(events) + Len(es)) : i \in 1..Len(events) \/ (i > Len(events) /\ i - Len(events) \in 1..Len(es))
    BY <1>1
  <2>4. \A j \in 1..Len(es) : Len(events) + j \in 1..(Len(events) + Len(es)) /\ ~(Len(events) + j <= Len(events))
                              /\ (Len(events) + j) - Len(events) = j
    BY <1>1
  <2>. QED
    BY <1>1, <1>2, <2>2, <2>3, <2>4
<1>3. CASE ui = "closed"
  <2>1. events' = events /\ events = <<>>
    BY <1>3 DEF Emit
  <2>. QED
    BY <1>1, <1>3, <2>1
<1>. QED
  BY <1>1, <1>2, <1>3
LEMMA TuiStarts == TuiInit => TuiInv
<1>. SUFFICES ASSUME TuiInit PROVE TuiInv
  OBVIOUS
<1>. USE DEF TuiInit
<1>1. TuiTypeOK
  <2>1. Start \in Selection /\ 0 \in 0..MaxCalls /\ 0 \in 0..MaxAsks /\ 0 \in 0..MaxTurns /\ 0 \in 0..0 /\ 0 \in 0..MaxSwitch
    BY TuiAssumption DEF Start, Selection
  <2>2. <<>> \in [1..0 -> Selection] /\ DOMAIN <<>> \subseteq 1..0
    OBVIOUS
  <2>3. <<>> \in Seq({"allow", "deny"}) /\ Len(<<>>) <= 1
    OBVIOUS
  <2>4. /\ ui \in {"open", "closed"} /\ busy \in BOOLEAN /\ modal \in 0..MaxAsks
        /\ selected \in Selection /\ shown \in Selection /\ streaming \subseteq Turn
    BY <2>1
  <2>5. /\ items \in Seq(Item) /\ cmds \in Seq(Command) /\ events \in Seq(Event)
        /\ answers \in Seq({"allow", "deny"}) /\ Len(answers) <= 1
    BY <2>3
  <2>6. /\ opts \in Selection /\ calls \in 0..MaxCalls /\ spoke \in BOOLEAN /\ asked \in 0..MaxAsks
        /\ turns \in 0..MaxTurns /\ turn \in 0..turns /\ switches \in 0..MaxSwitch
    BY <2>1
  <2>7. /\ chosen \in [1..turns -> Selection] /\ DOMAIN used \subseteq 1..turn /\ failed \subseteq Turn /\ persisted \subseteq Turn
    BY <2>2
  <2>8. /\ reply \in [RequestId -> {"none", "allow", "deny"}]
        /\ verdict \in [RequestId -> {"none", "allow", "deny"}]
    OBVIOUS
  <2>9. agent \in {"boot", "wait", "prepare", "call", "tools", "ask", "over", "ended", "failing", "dead", "aborted"}
    OBVIOUS
  <2>. QED
    BY <2>4, <2>5, <2>6, <2>7, <2>8, <2>9 DEF TuiTypeOK
<1>2. DOMAIN cmds = {} /\ DOMAIN events = {} /\ DOMAIN items = {} /\ DOMAIN used = {} /\ 1..turns = {} /\ 1..turn = {} /\ Len(cmds) = 0
  OBVIOUS
<1>3. SelectionInv
  BY <1>2 DEF SelectionInv, After, TurnUsesSelection
<1>4. StatusInv
  BY <1>2 DEF StatusInv, StatusCatchesUp
<1>5. TurnInv
  BY <1>2 DEF TurnInv, SendPending
<1>6. TranscriptInv
  BY <1>2 DEF TranscriptInv, TranscriptInOrder
<1>7. LossInv
  BY <1>2 DEF LossInv, LossIsShown
<1>8. ModalInv
  BY <1>2 DEF ModalInv
<1>. QED
  BY <1>1, <1>3, <1>4, <1>5, <1>6, <1>7, <1>8 DEF TuiInv

NextAgent(to, over) ==
  /\ calls' \in 0..MaxCalls /\ spoke' \in BOOLEAN
  /\ \/ agent' = to /\ failed' = failed
     \/ agent' = over /\ failed' = failed \cup {turn}

LEMMA NextCallFacts ==
  ASSUME TuiTypeOK, NextCall
  PROVE  NextAgent("call", "over")
<1>1. calls \in 0..MaxCalls /\ (calls < MaxCalls => calls + 1 \in 0..MaxCalls)
  BY TuiAssumption DEF TuiTypeOK
<1>2. CASE calls < MaxCalls
  BY <1>1, <1>2 DEF NextCall, NextAgent
<1>3. CASE ~(calls < MaxCalls)
  <2>1. calls' \in 0..MaxCalls /\ agent' = "over" /\ failed' = failed \cup {turn}
    BY <1>1, <1>3 DEF NextCall
  <2>2. spoke' \in BOOLEAN
    BY <1>3, Zenon DEF NextCall, TuiTypeOK
  <2>. QED
    BY <2>1, <2>2 DEF NextAgent
<1>. QED
  BY <1>2, <1>3

\* The events of a turn while it runs.
Working(k, id) ==
  /\ k \in {"delta", "done", "tool", "ask"} /\ id \in 0..MaxAsks
  /\ OneMore(Ev(k, id, "-"))
  /\ k = "delta" => agent' = "call"
  /\ k = "ask" => agent = "tools" /\ agent' = "ask" /\ id = asked' /\ ui = "open" /\ asked' = asked + 1
                  /\ UNCHANGED <<verdict, failed>>

Work == Generate \/ RunTool \/ ReceiveAnswer

\* A step of the loop within a turn: at most one event, and text that was shown is closed
\* unless the turn fails.
WorkStep ==
  /\ agent \in {"call", "tools", "ask"} /\ agent' \in {"call", "tools", "ask", "over"}
  /\ UNCHANGED <<uiVars, cmds, opts, turn, used, persisted>>
  /\ failed' = failed \/ failed' = failed \cup {turn}
  /\ calls' \in 0..MaxCalls /\ spoke' \in BOOLEAN /\ asked' \in 0..MaxAsks
  /\ (events' = events /\ agent' # "ask") \/ \E k, id : Working(k, id)
  /\ agent = "call" => agent' = "call" \/ turn \in failed' \/ \E id : Working("done", id)
  /\ agent' = "ask" <=> asked' # asked
  /\ agent = "ask" => agent' # "ask"
  /\ agent # "ask" => UNCHANGED <<answers, verdict>>

LEMMA WorkFacts ==
  ASSUME TuiInv, Work
  PROVE  WorkStep
<1>1. TuiTypeOK /\ (ui = "closed" => events = <<>>)
  BY DEF TuiInv, TurnInv
<1>2. 0 \in 0..MaxAsks /\ "-" \in {"-", "persist", "error", "fatal"} /\ asked \in 0..MaxAsks /\ calls \in 0..MaxCalls
  BY <1>1, TuiAssumption DEF TuiTypeOK
<1>3. \A k \in {"delta", "done", "tool", "ask"}, id \in 0..MaxAsks : Emit(<<Ev(k, id, "-")>>) => OneMore(Ev(k, id, "-"))
  BY <1>1, <1>2, EventIsTyped, EmitOne
<1>4. CASE Generate
  <2>1. /\ agent = "call" /\ UNCHANGED <<uiVars, cmds, answers, opts, calls, asked, turn, used, persisted, verdict>>
    BY <1>4 DEF Generate
  <2>2. CASE ~spoke /\ spoke' = TRUE /\ Emit(<<Plain("delta")>>) /\ UNCHANGED <<agent, failed>>
    <3>1. Working("delta", 0)
      BY <1>2, <1>3, <2>1, <2>2 DEF Working, Plain
    <3>. QED
      BY <1>2, <2>1, <2>2, <3>1 DEF WorkStep
  <2>3. CASE agent' \in {"over", "tools"} /\ Emit(<<Plain("done")>>) /\ UNCHANGED <<spoke, failed>>
    <3>1. Working("done", 0)
      BY <1>2, <1>3, <2>1, <2>3 DEF Working, Plain
    <3>2. spoke' \in BOOLEAN
      BY <1>1, <2>3, Zenon DEF TuiTypeOK
    <3>. QED
      BY <1>2, <2>1, <2>3, <3>1, <3>2 DEF WorkStep
  <2>4. CASE agent' = "over" /\ failed' = failed \cup {turn} /\ UNCHANGED <<spoke, events>>
    <3>1. spoke' \in BOOLEAN
      BY <1>1, <2>4, Zenon DEF TuiTypeOK
    <3>. QED
      BY <1>2, <2>1, <2>4, <3>1 DEF WorkStep
  <2>. QED
    BY <1>4, <2>2, <2>3, <2>4 DEF Generate
<1>5. CASE RunTool
  <2>1. agent = "tools" /\ UNCHANGED <<uiVars, cmds, answers, opts, turn, used, persisted>>
    BY <1>5 DEF RunTool
  <2>2. CASE (Emit(<<Plain("tool")>>) \/ UNCHANGED events) /\ NextCall /\ UNCHANGED <<asked, verdict>>
    <3>1. events' = events \/ Working("tool", 0)
      BY <1>2, <1>3, <2>1, <2>2 DEF Working, Plain
    <3>2. NextAgent("call", "over")
      BY <1>1, <2>2, NextCallFacts
    <3>. QED
      BY <1>2, <2>1, <2>2, <3>1, <3>2 DEF WorkStep, NextAgent
  <2>3. CASE /\ asked < MaxAsks /\ ui = "open" /\ asked' = asked + 1 /\ agent' = "ask"
             /\ Emit(<<Ev("ask", asked + 1, "-")>>) /\ UNCHANGED <<calls, spoke, failed, verdict>>
    <3>1. asked + 1 \in 0..MaxAsks /\ asked + 1 # asked
      BY <1>2, <2>3, TuiAssumption
    <3>2. Working("ask", asked + 1)
      BY <1>3, <2>1, <2>3, <3>1 DEF Working
    <3>3. spoke' \in BOOLEAN
      BY <1>1, <2>3, Zenon DEF TuiTypeOK
    <3>. QED
      BY <1>2, <2>1, <2>3, <3>1, <3>2, <3>3 DEF WorkStep
  <2>. QED
    BY <1>5, <2>2, <2>3 DEF RunTool
<1>6. CASE ReceiveAnswer
  <2>1. /\ agent = "ask" /\ Emit(<<Plain("tool")>>) /\ NextCall
        /\ UNCHANGED <<uiVars, cmds, opts, asked, turn, used, persisted>>
    BY <1>6 DEF ReceiveAnswer
  <2>2. NextAgent("call", "over")
    BY <1>1, <2>1, NextCallFacts
  <2>3. Working("tool", 0)
    BY <1>2, <1>3, <2>1 DEF Working, Plain
  <2>. QED
    BY <1>2, <2>1, <2>2, <2>3 DEF WorkStep, NextAgent
<1>. QED
  BY <1>4, <1>5, <1>6 DEF Work

LEMMA HeadFacts ==
  ASSUME TuiTypeOK
  PROVE  /\ cmds # <<>> => /\ Head(cmds) = cmds[1] /\ 1 \in DOMAIN cmds /\ Head(cmds) \in Command
                           /\ Tail(cmds) \in Seq(Command)
         /\ events # <<>> => /\ Head(events) = events[1] /\ 1 \in DOMAIN events /\ Head(events) \in Event
                             /\ Tail(events) \in Seq(Event)
  BY TailFacts DEF TuiTypeOK

LEMMA AppliedFacts ==
  ASSUME TuiTypeOK, NEW c \in Command, c.k # "send"
  PROVE  /\ Applied(c) \in Selection /\ [Plain("status") EXCEPT !.sel = Applied(c)] \in Event
         /\ [Plain("status") EXCEPT !.sel = Applied(c)].k = "status"
         /\ [Plain("status") EXCEPT !.sel = Applied(c)].sel = Applied(c)
         /\ c.k = "model" => Applied(c).model = c.sel.model /\ Applied(c).agent = opts.agent
         /\ c.k = "agent" => Applied(c).agent = c.sel.agent /\ Applied(c).model = opts.model
<1>1. opts \in Selection /\ c.sel \in Selection /\ c.k \in {"send", "model", "agent"}
  BY DEF TuiTypeOK, Command
<1>2. /\ Applied(c) \in Selection
      /\ c.k = "model" => Applied(c).model = c.sel.model /\ Applied(c).agent = opts.agent
      /\ c.k = "agent" => Applied(c).agent = c.sel.agent /\ Applied(c).model = opts.model
  BY <1>1 DEF Applied, Selection
<1>3. Plain("status") \in Event /\ Plain("status").k = "status"
  BY PlainIsTyped
<1>4. \A s \in Selection, e \in Event : /\ [e EXCEPT !.sel = s] \in Event /\ [e EXCEPT !.sel = s].sel = s
                                        /\ [e EXCEPT !.sel = s].k = e.k
  BY DEF Event
<1>. QED
  BY <1>2, <1>3, <1>4

\* What the task may do between turns; what happens to the channel of events is said apart.
LEMMA ReceiveFacts ==
  ASSUME TuiInv, ReceiveCommand
  PROVE  /\ agent = "wait" /\ cmds # <<>> /\ cmds' = Tail(cmds)
         /\ UNCHANGED <<uiVars, answers, calls, spoke, asked, used, failed, persisted, verdict>>
         /\ opts' \in Selection /\ opts' = cmds[1].sel
         /\ \/ /\ cmds[1].k = "send" /\ agent' = "prepare" /\ turn' = turn + 1 /\ turns > turn /\ opts' = opts
               /\ opts = chosen[turn + 1] /\ UNCHANGED events
            \/ /\ cmds[1].k # "send" /\ UNCHANGED <<agent, turn>>
               /\ \E e \in Event : e.k = "status" /\ e.sel = opts' /\ OneMore(e)
<1>. DEFINE c == Head(cmds)
<1>1. TuiTypeOK /\ (ui = "closed" => events = <<>>) /\ SelectionInv
  BY DEF TuiInv, TurnInv
<1>2. /\ agent = "wait" /\ cmds # <<>> /\ cmds' = Tail(cmds)
      /\ UNCHANGED <<uiVars, answers, calls, spoke, asked, used, failed, persisted, verdict>>
  BY DEF ReceiveCommand
<1>3. c = cmds[1] /\ 1 \in DOMAIN cmds /\ c \in Command /\ After(opts, cmds, 1 - 1) = opts
  BY <1>1, <1>2, HeadFacts DEF After
<1>4. /\ c.k # "model" => c.sel.model = opts.model
      /\ c.k # "agent" => c.sel.agent = opts.agent
      /\ c.k = "send" => c.turn = turn + 1 /\ turns > turn /\ c.sel = chosen[turn + 1]
  BY <1>1, <1>2, <1>3 DEF SelectionInv, Told
<1>5. opts \in Selection /\ c.sel \in Selection
  BY <1>1, <1>3 DEF TuiTypeOK, Command
<1>6. \A s, t \in Selection : s.model = t.model /\ s.agent = t.agent => s = t
  BY DEF Selection
<1>7. CASE c.k = "send"
  <2>1. agent' = "prepare" /\ turn' = c.turn /\ UNCHANGED <<opts, events>>
    BY <1>7 DEF ReceiveCommand
  <2>2. c.sel = opts
    BY <1>4, <1>5, <1>6, <1>7
  <2>. QED
    BY <1>2, <1>3, <1>4, <1>5, <1>7, <2>1, <2>2
<1>8. CASE c.k # "send"
  <2>. DEFINE e == [Plain("status") EXCEPT !.sel = Applied(c)]
  <2>1. opts' = Applied(c) /\ UNCHANGED <<agent, turn>> /\ Emit(<<e>>)
    BY <1>8 DEF ReceiveCommand
  <2>2. /\ Applied(c) \in Selection /\ e \in Event /\ e.k = "status" /\ e.sel = Applied(c)
        /\ c.k = "model" => Applied(c).model = c.sel.model /\ Applied(c).agent = opts.agent
        /\ c.k = "agent" => Applied(c).agent = c.sel.agent /\ Applied(c).model = opts.model
    BY <1>1, <1>3, <1>8, AppliedFacts
  <2>3. c.k = "model" \/ c.k = "agent"
    BY <1>3, <1>8 DEF Command
  <2>4. Applied(c).model = c.sel.model /\ Applied(c).agent = c.sel.agent
    BY <1>4, <2>2, <2>3
  <2>5. Applied(c) = c.sel
    BY <1>5, <1>6, <2>2, <2>4
  <2>. HIDE DEF e
  <2>6. OneMore(e)
    BY <1>1, <2>1, <2>2, EmitOne
  <2>. QED
    BY <1>2, <1>3, <1>8, <2>1, <2>2, <2>5, <2>6
<1>. QED
  BY <1>7, <1>8

Fatal == OneMore(Plain("fatal")) /\ agent' = "failing"

LEMMA FatalFacts ==
  ASSUME TuiInv
  PROVE  Emit(<<Plain("fatal")>>) => OneMore(Plain("fatal"))
  BY PlainIsTyped, EmitOne DEF TuiInv, TurnInv

\* A new command reaches the task, or the interface finds it gone and ends.
Submitted(c) ==
  \/ /\ agent \notin {"ended", "dead"} /\ cmds' = Append(cmds, c) /\ UNCHANGED <<ui, events>>
  \/ /\ agent \in {"ended", "dead"} /\ ui' = "closed" /\ events' = <<>> /\ UNCHANGED cmds

LEMMA SendFacts ==
  ASSUME TuiInv, SendMessage
  PROVE  /\ ui = "open" /\ modal = 0 /\ busy = FALSE /\ turns' = turns + 1 /\ turns + 1 \in Turn /\ busy' = TRUE
         /\ [k |-> "user", turn |-> turns + 1, of |-> {}, note |-> "-"] \in Item
         /\ items' = Append(items, [k |-> "user", turn |-> turns + 1, of |-> {}, note |-> "-"])
         /\ chosen' \in [1..(turns + 1) -> Selection] /\ chosen'[turns + 1] = selected
         /\ \A t \in 1..turns : chosen'[t] = chosen[t]
         /\ [k |-> "send", turn |-> turns + 1, sel |-> selected] \in Command
         /\ Submitted([k |-> "send", turn |-> turns + 1, sel |-> selected])
         /\ UNCHANGED <<modal, selected, shown, streaming, switches, reply, agentVars, answers>>
<1>1. TuiTypeOK
  BY DEF TuiInv
<1>2. /\ ui = "open" /\ modal = 0 /\ busy = FALSE /\ turns < MaxTurns /\ turns' = turns + 1 /\ busy' = TRUE
      /\ items' = Append(items, [k |-> "user", turn |-> turns + 1, of |-> {}, note |-> "-"])
      /\ chosen' = Append(chosen, selected) /\ Submit([k |-> "send", turn |-> turns + 1, sel |-> selected])
      /\ UNCHANGED <<modal, selected, shown, streaming, switches, reply, agentVars, answers>>
  BY <1>1 DEF SendMessage, MaySend, TuiTypeOK
<1>3. turns + 1 \in Turn /\ turns + 1 \in 0..MaxTurns /\ turns \in Nat /\ selected \in Selection
  BY <1>1, <1>2, TuiAssumption DEF TuiTypeOK, Turn
<1>4. [k |-> "user", turn |-> turns + 1, of |-> {}, note |-> "-"] \in Item
  BY <1>3 DEF Item
<1>5. chosen \in Seq(Selection) /\ Len(chosen) = turns
  <2>1. chosen \in [1..turns -> Selection]
    BY <1>1 DEF TuiTypeOK
  <2>. QED
    BY <1>3, <2>1
<1>6. /\ chosen' \in [1..(turns + 1) -> Selection] /\ chosen'[turns + 1] = selected
      /\ \A t \in 1..turns : chosen'[t] = chosen[t]
  <2>1. /\ Append(chosen, selected) \in Seq(Selection)
        /\ DOMAIN Append(chosen, selected) = 1..(turns + 1) /\ DOMAIN chosen = 1..turns
        /\ Append(chosen, selected)[turns + 1] = selected
        /\ \A i \in DOMAIN chosen : Append(chosen, selected)[i] = chosen[i]
    BY <1>3, <1>5, AppendFacts
  <2>2. \A q \in Seq(Selection) : q \in [DOMAIN q -> Selection]
    OBVIOUS
  <2>. QED
    BY <1>2, <2>1, <2>2
<1>7. [k |-> "send", turn |-> turns + 1, sel |-> selected] \in Command
  BY <1>1, <1>3, CommandIsTyped
<1>8. Submitted([k |-> "send", turn |-> turns + 1, sel |-> selected])
  BY <1>2 DEF Submit, Gone, Submitted
<1>. QED
  BY <1>2, <1>3, <1>4, <1>6, <1>7, <1>8

LEMMA SwitchFacts ==
  ASSUME TuiInv, NEW k \in {"model", "agent"}, Switch(k)
  PROVE  /\ ui = "open" /\ modal = 0 /\ switches' \in 0..MaxSwitch
         /\ selected' \in Selection /\ shown' = selected'
         /\ k = "model" => selected'.agent = selected.agent
         /\ k = "agent" => selected'.model = selected.model
         /\ [k |-> k, turn |-> 0, sel |-> selected'] \in Command
         /\ Submitted([k |-> k, turn |-> 0, sel |-> selected'])
         /\ UNCHANGED <<busy, modal, streaming, items, turns, chosen, reply, agentVars, answers>>
<1>. DEFINE s == IF k = "model" THEN [selected EXCEPT !.model = (@ + 1) % Models]
                 ELSE [selected EXCEPT !.agent = IF @ = "build" THEN "plan" ELSE "build"]
<1>1. TuiTypeOK
  BY DEF TuiInv
<1>2. /\ ui = "open" /\ modal = 0 /\ switches < MaxSwitch /\ switches' = switches + 1
      /\ selected' = s /\ shown' = s /\ Submit([k |-> k, turn |-> 0, sel |-> s])
      /\ UNCHANGED <<busy, modal, streaming, items, turns, chosen, reply, agentVars, answers>>
  BY DEF Switch
<1>3. switches' \in 0..MaxSwitch /\ 0 \in 0..MaxTurns /\ selected \in Selection
  BY <1>1, <1>2, TuiAssumption DEF TuiTypeOK
<1>4. \A m \in 0..(Models - 1) : (m + 1) % Models \in 0..(Models - 1)
  BY TuiAssumption
<1>5. /\ s \in Selection
      /\ k = "model" => s.agent = selected.agent
      /\ k = "agent" => s.model = selected.model
  BY <1>3, <1>4 DEF Selection
<1>. HIDE DEF s
<1>6. [k |-> k, turn |-> 0, sel |-> s] \in Command
  BY <1>1, <1>3, <1>5, CommandIsTyped
<1>7. Submitted([k |-> k, turn |-> 0, sel |-> s])
  BY <1>2 DEF Submit, Gone, Submitted
<1>. QED
  BY <1>2, <1>3, <1>5, <1>6, <1>7

LEMMA AppendIsTyped ==
  ASSUME TuiTypeOK
  PROVE  /\ \A x \in Item : Append(items, x) \in Seq(Item)
         /\ \A c \in Command : Append(cmds, c) \in Seq(Command)
  BY AppendFacts DEF TuiTypeOK

LEMMA SubmitIsTyped ==
  ASSUME TuiTypeOK, NEW c \in Command, Submitted(c)
  PROVE  ui' \in {"open", "closed"} /\ cmds' \in Seq(Command) /\ events' \in Seq(Event)
<1>1. Append(cmds, c) \in Seq(Command) /\ <<>> \in Seq(Event)
  BY AppendIsTyped
<1>2. CASE cmds' = Append(cmds, c) /\ UNCHANGED <<ui, events>>
  BY <1>1, <1>2 DEF TuiTypeOK
<1>3. CASE ui' = "closed" /\ events' = <<>> /\ UNCHANGED cmds
  BY <1>1, <1>3 DEF TuiTypeOK
<1>. QED
  BY <1>2, <1>3 DEF Submitted

LEMMA TypeStep ==
  ASSUME TuiInv, [TuiNext]_tuiVars
  PROVE  TuiTypeOK'
<1>1. TuiTypeOK
  BY DEF TuiInv
<1>2. CASE Boot
  <2>1. events' = events \/ OneMore(Plain("fatal"))
    BY <1>2, FatalFacts DEF Boot
  <2>2. events' \in Seq(Event)
    BY <1>1, <2>1 DEF OneMore, TuiTypeOK
  <2>3. /\ agent' \in {"wait", "failing"}
        /\ UNCHANGED <<uiVars, cmds, answers, opts, calls, spoke, asked, turn, used, failed, persisted, verdict>>
    BY <1>2 DEF Boot
  <2>. QED
    BY <1>1, <2>2, <2>3 DEF TuiTypeOK, uiVars
<1>3. CASE ReceiveCommand
  <2>1. /\ agent' \in {"wait", "prepare"} /\ cmds' = Tail(cmds) /\ cmds # <<>>
        /\ UNCHANGED <<uiVars, answers, calls, spoke, asked, used, failed, persisted, verdict>>
        /\ opts' \in Selection
        /\ (turn' = turn /\ events' \in Seq(Event)) \/ (turn' = turn + 1 /\ turns > turn /\ events' = events)
    BY <1>3, ReceiveFacts DEF OneMore
  <2>2. turn' \in 0..turns /\ turn' >= turn /\ turn' \in Nat /\ turn \in Nat
    BY <1>1, <2>1, TuiAssumption DEF TuiTypeOK
  <2>3. cmds' \in Seq(Command) /\ events' \in Seq(Event)
    BY <1>1, <2>1, HeadFacts DEF TuiTypeOK
  <2>4. DOMAIN used' \subseteq 1..turn'
    BY <1>1, <2>1, <2>2 DEF TuiTypeOK
  <2>. QED
    BY <1>1, <2>1, <2>2, <2>3, <2>4 DEF TuiTypeOK, uiVars
<1>4. CASE EndOfInput \/ DropInput
  BY <1>1, <1>4 DEF EndOfInput, DropInput, TuiTypeOK, uiVars
<1>5. CASE Prepare
  <2>1. /\ agent = "prepare" /\ UNCHANGED <<uiVars, cmds, answers, opts, asked, turn, failed, persisted, verdict>>
    BY <1>5 DEF Prepare
  <2>2. CASE /\ agent' = "call" /\ used' = [t \in 1..turn |-> IF t = turn THEN Built ELSE used[t]]
             /\ calls' = 1 /\ spoke' = FALSE /\ UNCHANGED events
    <3>1. 1 \in 0..MaxCalls
      BY TuiAssumption
    <3>2. DOMAIN used' \subseteq 1..turn
      BY <2>2
    <3>. QED
      BY <1>1, <2>1, <2>2, <3>1, <3>2 DEF TuiTypeOK, uiVars
  <2>3. CASE agent' = "failing" /\ Emit(<<Plain("fatal")>>) /\ UNCHANGED <<used, calls, spoke>>
    <3>1. events' \in Seq(Event)
      BY <2>3, FatalFacts DEF OneMore
    <3>. QED
      BY <1>1, <2>1, <2>3, <3>1 DEF TuiTypeOK, uiVars
  <2>. QED
    BY <1>5, <2>2, <2>3 DEF Prepare
<1>6. CASE Work
  <2>1. WorkStep
    BY <1>6, WorkFacts
  <2>2. events' \in Seq(Event)
    BY <1>1, <2>1 DEF WorkStep, Working, OneMore, TuiTypeOK
  <2>3. failed' \subseteq Turn
    <3>1. agent \in {"call", "tools", "ask"} /\ (failed' = failed \/ failed' = failed \cup {turn})
      BY <2>1 DEF WorkStep
    <3>2. turn > 0
      BY <3>1 DEF TuiInv, TurnInv
    <3>3. turn \in Turn
      BY <1>1, <3>2, TuiAssumption DEF TuiTypeOK, Turn
    <3>. QED
      BY <1>1, <3>1, <3>3 DEF TuiTypeOK
  <2>4. answers' \in Seq({"allow", "deny"}) /\ Len(answers') <= 1 /\ verdict' \in [RequestId -> {"none", "allow", "deny"}]
    <3>1. CASE UNCHANGED <<answers, verdict>>
      BY <1>1, <3>1 DEF TuiTypeOK
    <3>2. CASE ReceiveAnswer
      <4>1. CASE answers # <<>> /\ answers' = Tail(answers) /\ verdict' = [verdict EXCEPT ![asked] = Head(answers)]
        <5>1. Head(answers) \in {"allow", "deny"} /\ Tail(answers) \in Seq({"allow", "deny"}) /\ Len(Tail(answers)) <= 1
          BY <1>1, <4>1, TailFacts DEF TuiTypeOK
        <5>. QED
          BY <1>1, <4>1, <5>1 DEF TuiTypeOK
      <4>2. CASE verdict' = [verdict EXCEPT ![asked] = "deny"] /\ UNCHANGED answers
        BY <1>1, <4>2 DEF TuiTypeOK
      <4>. QED
        BY <3>2, <4>1, <4>2 DEF ReceiveAnswer
    <3>3. agent = "ask" => ReceiveAnswer
      BY <1>6 DEF Work, Generate, RunTool
    <3>. QED
      BY <2>1, <3>1, <3>2, <3>3 DEF WorkStep
  <2>5. /\ agent' \in {"call", "tools", "ask", "over"} /\ UNCHANGED <<uiVars, cmds, opts, turn, used, persisted>>
        /\ calls' \in 0..MaxCalls /\ spoke' \in BOOLEAN /\ asked' \in 0..MaxAsks
    BY <2>1, Zenon DEF WorkStep
  <2>. QED
    BY <1>1, <2>2, <2>3, <2>4, <2>5 DEF TuiTypeOK, uiVars
<1>7. CASE EndTurn
  <2>1. PICK saved \in BOOLEAN : Emit(Closing(saved)) /\ persisted' = IF saved THEN persisted \cup {turn} ELSE persisted
    BY <1>7 DEF EndTurn
  <2>2. /\ agent = "over" /\ agent' = "wait"
        /\ UNCHANGED <<uiVars, cmds, answers, opts, calls, spoke, asked, turn, used, failed, verdict>>
    BY <1>7 DEF EndTurn
  <2>3. events' \in Seq(Event)
    BY <1>1, <2>1, ClosingFacts, EmitMany DEF TuiInv, TurnInv
  <2>4. turn > 0
    BY <2>2 DEF TuiInv, TurnInv
  <2>5. persisted' \subseteq Turn
    BY <1>1, <2>1, <2>4, TuiAssumption DEF TuiTypeOK, Turn
  <2>. QED
    BY <1>1, <2>2, <2>3, <2>5 DEF TuiTypeOK, uiVars
<1>8. CASE Abort
  BY <1>1, <1>8 DEF Abort, TuiTypeOK, uiVars
<1>9. CASE ApplyEvent
  <2>. DEFINE e == Head(events)
  <2>1. /\ events # <<>> /\ events' = Tail(events)
        /\ UNCHANGED <<ui, selected, turns, switches, chosen, reply, agentVars, cmds, answers>>
    BY <1>9 DEF ApplyEvent
  <2>2. e \in Event /\ events' \in Seq(Event)
    BY <1>1, <2>1, HeadFacts
  <2>. HIDE DEF e
  <2>3. \A k \in {"text", "tool", "notice"}, of \in SUBSET Turn, note \in {"-", "persist", "error", "fatal"} :
          [k |-> k, turn |-> e.turn, of |-> of, note |-> note] \in Item
    BY <2>2 DEF Event, Item
  <2>4. \A k \in {"text", "tool", "notice"}, of \in SUBSET Turn, note \in {"-", "persist", "error", "fatal"} :
          AddItem(k, of, note) => items' \in Seq(Item)
    BY <1>1, <2>3, AppendIsTyped DEF AddItem, e
  <2>5. items' = items \/ \E k \in {"text", "tool", "notice"}, of \in SUBSET Turn, note \in {"-", "persist", "error", "fatal"} :
                            AddItem(k, of, note)
    <3>1. streaming \in SUBSET Turn /\ {} \in SUBSET Turn /\ e.note \in {"-", "persist", "error", "fatal"}
      BY <1>1, <2>2 DEF TuiTypeOK, Event
    <3>. QED
      BY <1>9, <3>1, Zenon DEF ApplyEvent, e
  <2>6. items' \in Seq(Item)
    BY <1>1, <2>4, <2>5 DEF TuiTypeOK
  <2>7. busy' \in BOOLEAN
    BY <1>1, <1>9, Zenon DEF ApplyEvent, TuiTypeOK
  <2>8. /\ modal' = modal \/ modal' = e.id
        /\ shown' = shown \/ shown' = e.sel
        /\ streaming' = streaming \/ streaming' = {} \/ (e.k = "delta" /\ streaming' = streaming \cup {e.turn})
    BY <1>9, Zenon DEF ApplyEvent, e
  <2>9. /\ modal' \in 0..MaxAsks /\ shown' \in Selection
    BY <1>1, <2>2, <2>8 DEF TuiTypeOK, Event
  <2>10. streaming' \subseteq Turn
    <3>1. e.k = "delta" => e.turn \in Turn
      <4>1. e.k = "delta" => e.turn = turn /\ turn > 0
        BY <2>1, HeadFacts, <1>1 DEF TuiInv, TurnInv, e
      <4>2. turn > 0 => turn \in Turn
        BY <1>1, TuiAssumption DEF TuiTypeOK, Turn
      <4>. QED
        BY <4>1, <4>2
    <3>. QED
      BY <1>1, <2>8, <3>1 DEF TuiTypeOK
  <2>. QED
    BY <1>1, <2>1, <2>2, <2>6, <2>7, <2>9, <2>10 DEF TuiTypeOK, agentVars
<1>10. CASE \E a \in {"allow", "deny"} : AnswerModal(a)
  <2>1. PICK a \in {"allow", "deny"} : AnswerModal(a)
    BY <1>10
  <2>2. /\ ui = "open" /\ modal # 0 /\ modal' = 0 /\ answers' = Append(answers, a) /\ reply' = [reply EXCEPT ![modal] = a]
        /\ UNCHANGED <<ui, busy, selected, shown, streaming, items, turns, switches, chosen, agentVars, cmds, events>>
    BY <2>1 DEF AnswerModal, ModalAfterKey
  <2>3. answers = <<>>
    BY <2>2 DEF TuiInv, ModalInv, Unanswered
  <2>4. answers' \in Seq({"allow", "deny"}) /\ Len(answers') <= 1
    BY <2>2, <2>3
  <2>5. reply' \in [RequestId -> {"none", "allow", "deny"}] /\ modal' \in 0..MaxAsks
    <3>1. modal \in RequestId /\ 0 \in 0..MaxAsks
      BY <1>1, <2>2, TuiAssumption DEF TuiTypeOK, RequestId
    <3>2. reply' \in [RequestId -> {"none", "allow", "deny"}]
      BY <1>1, <2>2, <3>1 DEF TuiTypeOK
    <3>. QED
      BY <2>2, <3>1, <3>2
  <2>. QED
    BY <1>1, <2>2, <2>4, <2>5 DEF TuiTypeOK, agentVars
<1>11. CASE Switch("model") \/ Switch("agent")
  <2>1. PICK k \in {"model", "agent"} : Switch(k)
    BY <1>11
  <2>2. /\ switches' \in 0..MaxSwitch /\ selected' \in Selection /\ shown' = selected'
        /\ [k |-> k, turn |-> 0, sel |-> selected'] \in Command
        /\ Submitted([k |-> k, turn |-> 0, sel |-> selected'])
        /\ UNCHANGED <<busy, modal, streaming, items, turns, chosen, reply, agentVars, answers>>
    BY <2>1, SwitchFacts
  <2>3. ui' \in {"open", "closed"} /\ cmds' \in Seq(Command) /\ events' \in Seq(Event)
    BY <1>1, <2>2, SubmitIsTyped
  <2>. QED
    BY <1>1, <2>2, <2>3 DEF TuiTypeOK, agentVars
<1>12. CASE SendMessage
  <2>1. /\ turns' = turns + 1 /\ turns + 1 \in Turn /\ busy' = TRUE
        /\ [k |-> "user", turn |-> turns + 1, of |-> {}, note |-> "-"] \in Item
        /\ items' = Append(items, [k |-> "user", turn |-> turns + 1, of |-> {}, note |-> "-"])
        /\ chosen' \in [1..(turns + 1) -> Selection]
        /\ [k |-> "send", turn |-> turns + 1, sel |-> selected] \in Command
        /\ Submitted([k |-> "send", turn |-> turns + 1, sel |-> selected])
        /\ UNCHANGED <<modal, selected, shown, streaming, switches, reply, agentVars, answers>>
    BY <1>12, SendFacts
  <2>2. ui' \in {"open", "closed"} /\ cmds' \in Seq(Command) /\ events' \in Seq(Event)
    BY <1>1, <2>1, SubmitIsTyped
  <2>3. items' \in Seq(Item)
    BY <1>1, <2>1, AppendIsTyped
  <2>4. turns' \in 0..MaxTurns /\ turn \in 0..turns'
    BY <1>1, <2>1, TuiAssumption DEF TuiTypeOK, Turn
  <2>. QED
    BY <1>1, <2>1, <2>2, <2>3, <2>4 DEF TuiTypeOK, agentVars
<1>13. CASE Quit
  <2>1. ui' \in {"open", "closed"} /\ events' \in Seq(Event)
    BY <1>13 DEF Quit
  <2>. QED
    BY <1>1, <1>13, <2>1 DEF Quit, TuiTypeOK, agentVars
<1>14. CASE UNCHANGED tuiVars
  BY <1>1, <1>14 DEF tuiVars, uiVars, agentVars, TuiTypeOK
<1>. QED
  BY <1>2, <1>3, <1>4, <1>5, <1>6, <1>7, <1>8, <1>9, <1>10, <1>11, <1>12, <1>13, <1>14
     DEF TuiNext, AgentStep, Key, Work

\* A failure that was told stays told.
LEMMA ToldStays ==
  ASSUME TuiInv, [TuiNext]_tuiVars, Told
  PROVE  Told' /\ events' = <<>>
<1>1. events = <<>> /\ agent \in {"failing", "dead"}
  BY DEF Told, TuiInv, TurnInv
<1>2. agent' \in {"failing", "dead"} /\ (events' = events \/ events' = <<>>)
  <2>1. CASE DropInput
    BY <2>1 DEF DropInput
  <2>2. CASE \E a \in {"allow", "deny"} : AnswerModal(a)
    BY <1>1, <2>2 DEF AnswerModal, agentVars
  <2>3. CASE SendMessage \/ \E k \in {"model", "agent"} : Switch(k)
    BY <1>1, <2>3 DEF SendMessage, Switch, Submit, agentVars
  <2>4. CASE Quit \/ UNCHANGED tuiVars
    BY <1>1, <2>4 DEF Quit, tuiVars, agentVars
  <2>. QED
    BY <1>1, <2>1, <2>2, <2>3, <2>4
       DEF TuiNext, AgentStep, Key, ApplyEvent, Boot, ReceiveCommand, EndOfInput, Prepare, Generate, RunTool,
           ReceiveAnswer, EndTurn, Abort
<1>3. DOMAIN events' = {}
  BY <1>1, <1>2
<1>. QED
  BY <1>1, <1>2, <1>3 DEF Told

\* What a step does to the commands, the selections and the agent if it is none of those that
\* are about them.
Aside ==
  /\ UNCHANGED <<cmds, opts, turns, turn, chosen, selected, used>>
  /\ ui' = "open" => ui = "open"
  /\ agent' = agent \/ (agent' # "prepare" /\ (agent \notin {"prepare", "failing", "dead", "aborted"} \/ agent' \in {"dead", "aborted"}))

LEMMA AsideSteps ==
  ASSUME TuiInv, [TuiNext]_tuiVars
  PROVE  \/ Aside
         \/ ReceiveCommand \/ Prepare \/ SendMessage
         \/ \E k \in {"model", "agent"} : Switch(k)
<1>1. CASE Boot \/ DropInput \/ EndOfInput \/ Abort
  BY <1>1 DEF Boot, DropInput, EndOfInput, Abort, Aside, uiVars
<1>2. CASE EndTurn
  BY <1>2 DEF EndTurn, Aside, uiVars
<1>3. CASE Work
  BY <1>3, WorkFacts DEF WorkStep, Aside, uiVars
<1>4. CASE ApplyEvent
  BY <1>4 DEF ApplyEvent, Aside, agentVars
<1>5. CASE \E a \in {"allow", "deny"} : AnswerModal(a)
  BY <1>5 DEF AnswerModal, Aside, agentVars
<1>6. CASE Quit
  BY <1>6 DEF Quit, Aside, agentVars
<1>7. CASE UNCHANGED tuiVars
  BY <1>7 DEF tuiVars, uiVars, agentVars, Aside
<1>. QED
  BY <1>1, <1>2, <1>3, <1>4, <1>5, <1>6, <1>7 DEF TuiNext, AgentStep, Key, Work

\* The turn a message waits for is the next one, and it is the only one that waits.
LEMMA NobodySends ==
  ASSUME TuiInv, ui = "open", ~busy, ~Told
  PROVE  turns = turn /\ \A i \in DOMAIN cmds : cmds[i].k # "send"
  BY DEF TuiInv, TurnInv, SendPending

LEMMA SelectionStep ==
  ASSUME TuiInv, [TuiNext]_tuiVars
  PROVE  SelectionInv'
<1>1. /\ TuiTypeOK /\ SelectionInv /\ cmds \in Seq(Command) /\ Len(cmds) \in Nat /\ DOMAIN cmds = 1..Len(cmds)
      /\ turn \in Nat /\ turns \in Nat /\ turn <= turns /\ DOMAIN used \subseteq 1..turn
      /\ ui \in {"open", "closed"}
  BY TuiAssumption DEF TuiInv, TuiTypeOK
<1>2. CASE Aside
  BY <1>1, <1>2, ToldStays DEF Aside, SelectionInv, TurnUsesSelection, After
<1>3. CASE ReceiveCommand
  <2>1. /\ agent = "wait" /\ cmds # <<>> /\ cmds' = Tail(cmds)
        /\ UNCHANGED <<uiVars, answers, calls, spoke, asked, used, failed, persisted, verdict>>
        /\ opts' = cmds[1].sel
        /\ \/ /\ cmds[1].k = "send" /\ agent' = "prepare" /\ turn' = turn + 1 /\ turns > turn /\ opts' = opts
              /\ opts = chosen[turn + 1]
           \/ /\ cmds[1].k # "send" /\ UNCHANGED <<agent, turn>>
    BY <1>3, ReceiveFacts
  <2>2. /\ Len(cmds') = Len(cmds) - 1 /\ Len(cmds) > 0 /\ 1 \in DOMAIN cmds
        /\ \A i \in DOMAIN cmds' : i \in Nat /\ i + 1 \in DOMAIN cmds /\ cmds'[i] = cmds[i + 1]
    BY <1>1, <2>1, TailFacts
  <2>3. \A i \in Nat : i \in DOMAIN cmds' \/ i = 0 => After(opts', cmds', i) = After(opts, cmds, i + 1)
    <3>1. After(opts', cmds', 0) = After(opts, cmds, 0 + 1)
      BY <2>1 DEF After
    <3>2. \A i \in DOMAIN cmds' : After(opts', cmds', i) = After(opts, cmds, i + 1)
      BY <2>2 DEF After
    <3>. QED
      BY <3>1, <3>2
  <2>4. \A i \in DOMAIN cmds' : (i - 1 \in DOMAIN cmds' \/ i - 1 = 0) /\ i - 1 \in Nat /\ (i - 1) + 1 = i /\ (i + 1) - 1 = i
    BY <1>1, <2>1, <2>2, TailFacts
  <2>5. \A i \in DOMAIN cmds' : After(opts', cmds', i - 1) = After(opts, cmds, i)
    BY <2>3, <2>4
  <2>6. \A i \in DOMAIN cmds' :
          /\ cmds'[i].k # "model" => cmds'[i].sel.model = After(opts', cmds', i - 1).model
          /\ cmds'[i].k # "agent" => cmds'[i].sel.agent = After(opts', cmds', i - 1).agent
    BY <1>1, <2>2, <2>4, <2>5 DEF SelectionInv
  <2>7. \A i \in DOMAIN cmds' : cmds'[i].k = "send" /\ ~Told' =>
          cmds'[i].turn = turn' + 1 /\ turns' > turn' /\ cmds'[i].sel = chosen'[turn' + 1]
    <3>1. turns' = turns /\ chosen' = chosen
      BY <2>1 DEF uiVars
    <3>2. CASE cmds[1].k = "send"
      <4>1. \A i \in DOMAIN cmds : cmds[i].k = "send" => i = 1
        BY <2>1, <2>2, <3>2 DEF TuiInv, TurnInv, Told
      <4>2. \A i \in DOMAIN cmds' : i + 1 # 1
        BY <2>2, <1>1, <2>1, TailFacts
      <4>. QED
        BY <2>2, <4>1, <4>2
    <3>3. CASE cmds[1].k # "send"
      <4>1. turn' = turn /\ ~Told
        BY <2>1, <3>3 DEF Told
      <4>. QED
        BY <1>1, <2>2, <3>1, <4>1 DEF SelectionInv
    <3>. QED
      BY <3>2, <3>3
  <2>8. ui' = "open" => selected' = After(opts, cmds, Len(cmds))
    BY <1>1, <2>1 DEF SelectionInv, uiVars
  <2>9. After(opts', cmds', Len(cmds')) = After(opts, cmds, Len(cmds))
    <3>1. Len(cmds') \in Nat /\ Len(cmds') + 1 = Len(cmds) /\ (Len(cmds') \in DOMAIN cmds' \/ Len(cmds') = 0)
      BY <1>1, <2>1, <2>2
    <3>. QED
      BY <2>3, <3>1
  <2>10. agent' = "prepare" => opts' = chosen'[turn']
    BY <2>1 DEF uiVars
  <2>11. DOMAIN used' = 1..turn' \/ (agent' \in {"prepare", "failing", "dead", "aborted"} /\ DOMAIN used' = 1..(turn' - 1))
    <3>1. DOMAIN used = 1..turn
      BY <1>1, <2>1 DEF SelectionInv
    <3>2. (turn + 1) - 1 = turn
      BY <1>1
    <3>. QED
      BY <2>1, <3>1, <3>2
  <2>12. TurnUsesSelection'
    BY <1>1, <2>1 DEF SelectionInv, TurnUsesSelection, uiVars
  <2>. QED
    BY <2>6, <2>7, <2>8, <2>9, <2>10, <2>11, <2>12 DEF SelectionInv
<1>4. CASE Prepare
  <2>1. agent = "prepare" /\ UNCHANGED <<uiVars, cmds, answers, opts, asked, turn, failed, persisted, verdict>>
    BY <1>4 DEF Prepare
  <2>2. /\ \A i \in DOMAIN cmds' :
              /\ cmds'[i].k # "model" => cmds'[i].sel.model = After(opts', cmds', i - 1).model
              /\ cmds'[i].k # "agent" => cmds'[i].sel.agent = After(opts', cmds', i - 1).agent
              /\ cmds'[i].k = "send" /\ ~Told' => cmds'[i].turn = turn' + 1 /\ turns' > turn' /\ cmds'[i].sel = chosen'[turn' + 1]
        /\ ui' = "open" => selected' = After(opts', cmds', Len(cmds'))
    BY <1>1, <2>1 DEF SelectionInv, After, uiVars, Told
  <2>3. CASE agent' = "call" /\ used' = [t \in 1..turn |-> IF t = turn THEN Built ELSE used[t]]
    <3>1. turn > 0 /\ opts = chosen[turn]
      BY <1>1, <2>1 DEF TuiInv, TurnInv, SelectionInv
    <3>2. DOMAIN used = 1..turn \/ DOMAIN used = 1..(turn - 1)
      BY <1>1 DEF SelectionInv
    <3>3. \A t \in 1..turn : t = turn \/ t \in DOMAIN used
      BY <1>1, <3>1, <3>2
    <3>4. DOMAIN used' = 1..turn' /\ \A t \in DOMAIN used' : used'[t] = chosen'[t]
      BY <1>1, <2>1, <2>3, <3>1, <3>3 DEF Built, SelectionInv, TurnUsesSelection, uiVars
    <3>. QED
      BY <2>2, <2>3, <3>4 DEF SelectionInv, TurnUsesSelection
  <2>4. CASE agent' = "failing" /\ UNCHANGED used
    BY <1>1, <2>1, <2>2, <2>4 DEF SelectionInv, TurnUsesSelection, uiVars
  <2>. QED
    BY <1>4, <2>3, <2>4 DEF Prepare
<1>5. CASE SendMessage
  <2>. DEFINE c == [k |-> "send", turn |-> turns + 1, sel |-> selected]
  <2>1. /\ ui = "open" /\ busy = FALSE /\ turns' = turns + 1
        /\ chosen'[turns + 1] = selected /\ \A t \in 1..turns : chosen'[t] = chosen[t]
        /\ c \in Command /\ Submitted(c)
        /\ UNCHANGED <<modal, selected, shown, streaming, switches, reply, agentVars, answers>>
    BY <1>5, SendFacts
  <2>2. c.k = "send" /\ c.turn = turns + 1 /\ c.sel = selected
    OBVIOUS
  <2>. HIDE DEF c
  <2>3. UNCHANGED <<agent, opts, turn, used, selected>>
    BY <2>1 DEF agentVars
  <2>4. TurnUsesSelection'
    BY <1>1, <2>1, <2>3 DEF SelectionInv, TurnUsesSelection
  <2>5. agent' = "prepare" => opts' = chosen'[turn']
    <3>1. agent = "prepare" => turn \in 1..turns
      BY <1>1 DEF TuiInv, TurnInv
    <3>. QED
      BY <1>1, <2>1, <2>3, <3>1 DEF SelectionInv
  <2>6. DOMAIN used' = 1..turn' \/ (agent' \in {"prepare", "failing", "dead", "aborted"} /\ DOMAIN used' = 1..(turn' - 1))
    BY <1>1, <2>3 DEF SelectionInv
  <2>7. CASE cmds' = cmds /\ ui' = "closed"
    <3>1. ~Told => \A i \in DOMAIN cmds : cmds[i].k = "send" => turn + 1 \in 1..turns
      BY <1>1 DEF SelectionInv
    <3>2. \A i \in DOMAIN cmds : After(opts', cmds', i - 1) = After(opts, cmds, i - 1)
      BY <2>3, <2>7 DEF After
    <3>3. \A i \in DOMAIN cmds' :
            /\ cmds'[i].k # "model" => cmds'[i].sel.model = After(opts', cmds', i - 1).model
            /\ cmds'[i].k # "agent" => cmds'[i].sel.agent = After(opts', cmds', i - 1).agent
      BY <1>1, <2>7, <3>2 DEF SelectionInv
    <3>4. \A i \in DOMAIN cmds' : cmds'[i].k = "send" /\ ~Told' =>
            cmds'[i].turn = turn' + 1 /\ turns' > turn' /\ cmds'[i].sel = chosen'[turn' + 1]
      BY <1>1, <2>1, <2>3, <2>7, <3>1, ToldStays DEF SelectionInv
    <3>. QED
      BY <2>4, <2>5, <2>6, <2>7, <3>3, <3>4 DEF SelectionInv
  <2>8. CASE agent \notin {"ended", "dead"} /\ cmds' = Append(cmds, c)
    <3>1. ~Told => turns = turn /\ \A i \in DOMAIN cmds : cmds[i].k # "send"
      BY <2>1, NobodySends
    <3>2. /\ Len(cmds') = Len(cmds) + 1 /\ cmds'[Len(cmds) + 1] = c
          /\ \A i \in DOMAIN cmds : cmds'[i] = cmds[i]
          /\ \A i \in DOMAIN cmds' : i \in DOMAIN cmds \/ i = Len(cmds) + 1
      BY <1>1, <2>1, <2>8, AppendFacts
    <3>3. \A i \in Nat : i \in DOMAIN cmds \/ i = 0 => After(opts', cmds', i) = After(opts, cmds, i)
      BY <2>3, <3>2 DEF After
    <3>4. \A i \in DOMAIN cmds : i - 1 \in Nat /\ (i - 1 \in DOMAIN cmds \/ i - 1 = 0)
      BY <1>1
    <3>5. (Len(cmds) + 1) - 1 = Len(cmds) /\ Len(cmds) + 1 # 0 /\ (Len(cmds) \in DOMAIN cmds \/ Len(cmds) = 0)
      BY <1>1
    <3>6. After(opts', cmds', Len(cmds)) = selected
      BY <1>1, <2>1, <3>3, <3>5 DEF SelectionInv
    <3>7. After(opts', cmds', Len(cmds')) = selected'
      BY <2>2, <2>3, <3>2, <3>5 DEF After
    <3>8. \A i \in DOMAIN cmds' :
            /\ cmds'[i].k # "model" => cmds'[i].sel.model = After(opts', cmds', i - 1).model
            /\ cmds'[i].k # "agent" => cmds'[i].sel.agent = After(opts', cmds', i - 1).agent
      <4>1. SUFFICES ASSUME NEW i \in DOMAIN cmds'
                     PROVE  /\ cmds'[i].k # "model" => cmds'[i].sel.model = After(opts', cmds', i - 1).model
                            /\ cmds'[i].k # "agent" => cmds'[i].sel.agent = After(opts', cmds', i - 1).agent
        OBVIOUS
      <4>2. CASE i \in DOMAIN cmds
        <5>1. cmds'[i] = cmds[i] /\ After(opts', cmds', i - 1) = After(opts, cmds, i - 1)
          BY <3>2, <3>3, <3>4, <4>2
        <5>. QED
          BY <1>1, <4>2, <5>1 DEF SelectionInv
      <4>3. CASE i = Len(cmds) + 1
        <5>1. cmds'[i] = c /\ After(opts', cmds', i - 1) = selected
          BY <3>2, <3>5, <3>6, <4>3
        <5>. QED
          BY <2>2, <5>1
      <4>. QED
        BY <3>2, <4>2, <4>3
    <3>9. \A i \in DOMAIN cmds' : cmds'[i].k = "send" /\ ~Told' =>
            cmds'[i].turn = turn' + 1 /\ turns' > turn' /\ cmds'[i].sel = chosen'[turn' + 1]
      BY <1>1, <2>1, <2>2, <2>3, <3>1, <3>2, ToldStays
    <3>. QED
      BY <2>4, <2>5, <2>6, <3>7, <3>8, <3>9 DEF SelectionInv
  <2>. QED
    BY <2>1, <2>7, <2>8 DEF Submitted
<1>6. CASE \E k \in {"model", "agent"} : Switch(k)
  <2>1. PICK k \in {"model", "agent"} : Switch(k)
    BY <1>6
  <2>. DEFINE c == [k |-> k, turn |-> 0, sel |-> selected']
  <2>2. /\ ui = "open"
        /\ k = "model" => selected'.agent = selected.agent
        /\ k = "agent" => selected'.model = selected.model
        /\ c \in Command /\ Submitted(c)
        /\ UNCHANGED <<busy, modal, streaming, items, turns, chosen, reply, agentVars, answers>>
    BY <2>1, SwitchFacts
  <2>3. c.k = k /\ c.sel = selected'
    OBVIOUS
  <2>. HIDE DEF c
  <2>4. UNCHANGED <<agent, opts, turn, used, turns, chosen>>
    BY <2>2 DEF agentVars
  <2>5. /\ TurnUsesSelection'
        /\ agent' = "prepare" => opts' = chosen'[turn']
        /\ DOMAIN used' = 1..turn' \/ (agent' \in {"prepare", "failing", "dead", "aborted"} /\ DOMAIN used' = 1..(turn' - 1))
    BY <1>1, <2>4 DEF SelectionInv, TurnUsesSelection
  <2>6. CASE cmds' = cmds /\ ui' = "closed"
    BY <1>1, <2>4, <2>5, <2>6, ToldStays DEF SelectionInv, After
  <2>7. CASE cmds' = Append(cmds, c)
    <3>1. /\ Len(cmds') = Len(cmds) + 1 /\ cmds'[Len(cmds) + 1] = c
          /\ \A i \in DOMAIN cmds : cmds'[i] = cmds[i]
          /\ \A i \in DOMAIN cmds' : i \in DOMAIN cmds \/ i = Len(cmds) + 1
      BY <1>1, <2>2, <2>7, AppendFacts
    <3>2. \A i \in Nat : i \in DOMAIN cmds \/ i = 0 => After(opts', cmds', i) = After(opts, cmds, i)
      BY <2>4, <3>1 DEF After
    <3>3. \A i \in DOMAIN cmds : i - 1 \in Nat /\ (i - 1 \in DOMAIN cmds \/ i - 1 = 0)
      BY <1>1
    <3>4. (Len(cmds) + 1) - 1 = Len(cmds) /\ Len(cmds) + 1 # 0 /\ (Len(cmds) \in DOMAIN cmds \/ Len(cmds) = 0)
      BY <1>1
    <3>5. After(opts', cmds', Len(cmds)) = selected
      BY <1>1, <2>2, <3>2, <3>4 DEF SelectionInv
    <3>6. After(opts', cmds', Len(cmds')) = selected'
      BY <2>3, <3>1, <3>4 DEF After
    <3>7. \A i \in DOMAIN cmds' :
            /\ cmds'[i].k # "model" => cmds'[i].sel.model = After(opts', cmds', i - 1).model
            /\ cmds'[i].k # "agent" => cmds'[i].sel.agent = After(opts', cmds', i - 1).agent
      <4>1. SUFFICES ASSUME NEW i \in DOMAIN cmds'
                     PROVE  /\ cmds'[i].k # "model" => cmds'[i].sel.model = After(opts', cmds', i - 1).model
                            /\ cmds'[i].k # "agent" => cmds'[i].sel.agent = After(opts', cmds', i - 1).agent
        OBVIOUS
      <4>2. CASE i \in DOMAIN cmds
        <5>1. cmds'[i] = cmds[i] /\ After(opts', cmds', i - 1) = After(opts, cmds, i - 1)
          BY <3>1, <3>2, <3>3, <4>2
        <5>. QED
          BY <1>1, <4>2, <5>1 DEF SelectionInv
      <4>3. CASE i = Len(cmds) + 1
        <5>1. cmds'[i] = c /\ After(opts', cmds', i - 1) = selected
          BY <3>1, <3>4, <3>5, <4>3
        <5>. QED
          BY <2>2, <2>3, <5>1
      <4>. QED
        BY <3>1, <4>2, <4>3
    <3>8. \A i \in DOMAIN cmds' : cmds'[i].k = "send" /\ ~Told' =>
            cmds'[i].turn = turn' + 1 /\ turns' > turn' /\ cmds'[i].sel = chosen'[turn' + 1]
      BY <1>1, <2>3, <2>4, <3>1, ToldStays DEF SelectionInv
    <3>. QED
      BY <2>5, <3>6, <3>7, <3>8 DEF SelectionInv
  <2>. QED
    BY <2>2, <2>6, <2>7 DEF Submitted
<1>. QED
  BY <1>2, <1>3, <1>4, <1>5, <1>6, AsideSteps

\* The task has told nothing, or things of these kinds about its turn.
Tells(K) ==
  /\ events' \in Seq(Event) /\ Len(events) \in Nat /\ Len(events') \in Nat
  /\ \A i \in DOMAIN events : i \in DOMAIN events' /\ events'[i] = events[i] /\ i \in Nat /\ i <= Len(events)
  /\ \A i \in DOMAIN events' :
       /\ i \in Nat /\ i <= Len(events')
       /\ \/ i \in DOMAIN events /\ events'[i] = events[i]
          \/ i > Len(events) /\ ui = "open" /\ events'[i].turn = turn /\ events'[i].k \in K
  /\ ui = "closed" => events' = <<>>

LEMMA TellsNothing ==
  ASSUME TuiInv, events' = events
  PROVE  \A K : Tells(K)
<1>1. events \in Seq(Event) /\ (ui = "closed" => events = <<>>)
  BY DEF TuiInv, TuiTypeOK, TurnInv
<1>2. Len(events) \in Nat /\ DOMAIN events = 1..Len(events)
  BY <1>1
<1>3. \A i \in DOMAIN events : i \in Nat /\ i <= Len(events)
  BY <1>2
<1>. QED
  BY <1>1, <1>2, <1>3 DEF Tells

LEMMA TellsOne ==
  ASSUME TuiInv, NEW e \in Event, OneMore(e), e.turn = turn
  PROVE  \A K : e.k \in K => Tells(K)
<1>1. events \in Seq(Event) /\ events' \in Seq(Event)
  BY DEF TuiInv, TuiTypeOK, OneMore
<1>2. Len(events) \in Nat /\ Len(events') \in Nat /\ \A i \in DOMAIN events' : i \in Nat /\ i <= Len(events')
  BY <1>1
<1>3. \A i \in Nat : i = Len(events) + 1 => i > Len(events)
  BY <1>2
<1>. QED
  BY <1>1, <1>2, <1>3 DEF Tells, OneMore

LEMMA EndFacts ==
  ASSUME TuiInv, EndTurn
  PROVE  /\ agent = "over" /\ agent' = "wait" /\ Tells({"notice", "idle"})
         /\ UNCHANGED <<uiVars, cmds, answers, opts, calls, spoke, asked, turn, used, failed, verdict>>
         /\ \A i \in DOMAIN events' : i > Len(events) /\ events'[i].k = "idle" => i = Len(events')
         /\ \/ persisted' = persisted \cup {turn}
            \/ /\ persisted' = persisted
               /\ ui = "open" => \E i \in DOMAIN events' : /\ i = Len(events) + 1 /\ i < Len(events')
                                                           /\ events'[i].k = "notice" /\ events'[i].note = "persist"
<1>1. PICK saved \in BOOLEAN : Emit(Closing(saved)) /\ persisted' = IF saved THEN persisted \cup {turn} ELSE persisted
  BY DEF EndTurn
<1>2. TuiTypeOK /\ (ui = "closed" => events = <<>>) /\ ui \in {"open", "closed"}
  BY DEF TuiInv, TurnInv, TuiTypeOK
<1>. DEFINE es == Closing(saved)
<1>3. /\ es \in Seq(Event) /\ Len(es) \in 1..3
      /\ \A i \in DOMAIN es : es[i].turn = turn /\ es[i].k \in {"notice", "idle"} /\ (es[i].k = "idle" => i = Len(es))
      /\ ~saved => es[1].k = "notice" /\ es[1].note = "persist" /\ Len(es) > 1
  BY <1>2, ClosingFacts
<1>. HIDE DEF es
<1>4. /\ events' \in Seq(Event) /\ (ui = "closed" => events' = <<>>) /\ Len(events) \in Nat
      /\ \A i \in DOMAIN events : i \in DOMAIN events' /\ events'[i] = events[i] /\ i \in Nat /\ i <= Len(events)
      /\ \A i \in DOMAIN events' : i \in Nat /\
           (\/ i \in DOMAIN events /\ events'[i] = events[i]
            \/ i - Len(events) \in DOMAIN es /\ events'[i] = es[i - Len(events)] /\ ui = "open")
      /\ ui = "open" => /\ Len(events') = Len(events) + Len(es)
                        /\ \A j \in DOMAIN es : Len(events) + j \in DOMAIN events' /\ events'[Len(events) + j] = es[j]
  <2>1. Emit(es)
    BY <1>1 DEF es
  <2>. QED
    BY <1>2, <1>3, <2>1, EmitMany
<1>5. /\ agent = "over" /\ agent' = "wait"
      /\ UNCHANGED <<uiVars, cmds, answers, opts, calls, spoke, asked, turn, used, failed, verdict>>
  BY DEF EndTurn
<1>6. /\ Len(events') \in Nat /\ DOMAIN es = 1..Len(es) /\ \A i \in DOMAIN events' : i <= Len(events')
      /\ DOMAIN events = 1..Len(events)
  BY <1>2, <1>3, <1>4 DEF TuiTypeOK
<1>7. \A i \in Nat : i - Len(events) \in DOMAIN es => i > Len(events)
  BY <1>3, <1>4, <1>6
<1>8. Tells({"notice", "idle"})
  <2>1. SUFFICES ASSUME NEW i \in DOMAIN events'
                 PROVE  \/ i \in DOMAIN events /\ events'[i] = events[i]
                        \/ i > Len(events) /\ ui = "open" /\ events'[i].turn = turn /\ events'[i].k \in {"notice", "idle"}
    BY <1>4, <1>6 DEF Tells
  <2>2. CASE i - Len(events) \in DOMAIN es /\ events'[i] = es[i - Len(events)] /\ ui = "open"
    BY <1>3, <1>4, <1>7, <2>2
  <2>. QED
    BY <1>4, <2>2
<1>9. \A i \in DOMAIN events' : i > Len(events) /\ events'[i].k = "idle" => i = Len(events')
  <2>1. SUFFICES ASSUME NEW i \in DOMAIN events', i > Len(events), events'[i].k = "idle" PROVE i = Len(events')
    OBVIOUS
  <2>2. i \notin DOMAIN events
    BY <1>4, <1>6, <2>1
  <2>3. i - Len(events) \in DOMAIN es /\ events'[i] = es[i - Len(events)] /\ ui = "open" /\ i \in Nat
    BY <1>4, <2>2
  <2>4. i - Len(events) = Len(es) /\ Len(events') = Len(events) + Len(es)
    BY <1>3, <1>4, <2>1, <2>3
  <2>. QED
    BY <1>3, <1>4, <2>3, <2>4
<1>10. CASE saved
  BY <1>1, <1>5, <1>8, <1>9, <1>10
<1>11. CASE ~saved
  <2>1. ui = "open" => /\ Len(events) + 1 \in DOMAIN events' /\ Len(events) + 1 < Len(events')
                       /\ events'[Len(events) + 1].k = "notice" /\ events'[Len(events) + 1].note = "persist"
    <3>1. 1 \in DOMAIN es
      BY <1>3, <1>6
    <3>. QED
      BY <1>3, <1>4, <1>11, <3>1
  <2>. QED
    BY <1>1, <1>5, <1>8, <1>9, <1>11, <2>1
<1>. QED
  BY <1>10, <1>11

WorkKinds == {"delta", "done", "tool", "ask"}

\* What each action of the task tells.
LEMMA AgentTells ==
  ASSUME TuiInv
  PROVE  /\ Boot \/ Prepare => Tells({"fatal"})
         /\ Work => Tells(WorkKinds)
         /\ EndTurn => Tells({"notice", "idle"})
         /\ DropInput \/ EndOfInput \/ Abort => Tells({})
<1>1. Boot \/ Prepare => Tells({"fatal"})
  <2>1. SUFFICES ASSUME Boot \/ Prepare PROVE Tells({"fatal"})
    OBVIOUS
  <2>2. events' = events \/ OneMore(Plain("fatal"))
    BY <2>1, FatalFacts DEF Boot, Prepare
  <2>3. Plain("fatal") \in Event /\ Plain("fatal").k = "fatal" /\ Plain("fatal").turn = turn
    BY PlainIsTyped DEF TuiInv
  <2>. QED
    BY <2>2, <2>3, TellsNothing, TellsOne
<1>2. Work => Tells(WorkKinds)
  <2>1. SUFFICES ASSUME Work PROVE Tells(WorkKinds)
    OBVIOUS
  <2>2. WorkStep
    BY <2>1, WorkFacts
  <2>3. CASE events' = events
    BY <2>3, TellsNothing
  <2>4. CASE \E k, id : Working(k, id)
    <3>1. PICK k, id : Working(k, id)
      BY <2>4
    <3>2. k \in {"delta", "done", "tool", "ask"} /\ id \in 0..MaxAsks /\ OneMore(Ev(k, id, "-"))
      BY <3>1 DEF Working
    <3>3. Ev(k, id, "-") \in Event /\ Ev(k, id, "-").k = k /\ Ev(k, id, "-").turn = turn
      BY <3>2, EventIsTyped DEF TuiInv
    <3>. QED
      BY <3>2, <3>3, TellsOne DEF WorkKinds
  <2>. QED
    BY <2>2, <2>3, <2>4 DEF WorkStep
<1>3. EndTurn => Tells({"notice", "idle"})
  BY EndFacts
<1>4. DropInput \/ EndOfInput \/ Abort => Tells({})
  BY TellsNothing DEF DropInput, EndOfInput, Abort
<1>. QED
  BY <1>1, <1>2, <1>3, <1>4

\* The first event leaves the channel.
LEMMA ApplyFacts ==
  ASSUME TuiInv, ApplyEvent
  PROVE  /\ ui = "open" /\ events # <<>> /\ events' = Tail(events) /\ 1 \in DOMAIN events
         /\ UNCHANGED <<ui, selected, turns, switches, chosen, reply, agentVars, cmds, answers>>
         /\ Len(events) \in Nat /\ Len(events') = Len(events) - 1 /\ Len(events) > 0
         /\ \A i \in DOMAIN events' : i \in Nat /\ i + 1 \in DOMAIN events /\ events'[i] = events[i + 1]
         /\ \A i \in DOMAIN events : i \in Nat /\ i <= Len(events)
                                     /\ (i = 1 \/ (i - 1 \in DOMAIN events' /\ events'[i - 1] = events[i]))
<1>1. ui = "open" /\ events # <<>> /\ events' = Tail(events)
      /\ UNCHANGED <<ui, selected, turns, switches, chosen, reply, agentVars, cmds, answers>>
  BY DEF ApplyEvent
<1>2. events \in Seq(Event)
  BY DEF TuiInv, TuiTypeOK
<1>3. \A i \in DOMAIN events : i <= Len(events)
  BY <1>2
<1>. QED
  BY <1>1, <1>2, <1>3, TailFacts

LEMMA StatusStep ==
  ASSUME TuiInv, [TuiNext]_tuiVars
  PROVE  StatusInv'
<1>1. /\ TuiTypeOK /\ SelectionInv /\ StatusInv /\ cmds \in Seq(Command) /\ Len(cmds) \in Nat /\ DOMAIN cmds = 1..Len(cmds)
      /\ ui \in {"open", "closed"}
  BY DEF TuiInv, TuiTypeOK
<1>2. CASE ui' # "open"
  BY <1>2 DEF StatusInv, StatusCatchesUp
<1>3. ASSUME NEW K, Tells(K), "status" \notin K, UNCHANGED <<uiVars, cmds, opts>>, agent' # "dead" => agent # "dead"
      PROVE  StatusInv'
  <2>1. /\ \A i \in DOMAIN events : i \in DOMAIN events' /\ events'[i] = events[i]
        /\ \A i \in DOMAIN events' : (i \in DOMAIN events /\ events'[i] = events[i]) \/ events'[i].k # "status"
    BY <1>3 DEF Tells
  <2>2. UNCHANGED <<ui, cmds, opts, shown, selected>>
    BY <1>3 DEF uiVars
  <2>3. ui' = "open" => \A i \in DOMAIN events' :
          events'[i].k = "status" /\ (\A j \in DOMAIN events' : j > i => events'[j].k # "status") => events'[i].sel = opts'
    BY <1>1, <2>1, <2>2 DEF StatusInv
  <2>4. StatusCatchesUp'
    BY <1>1, <1>3, <2>1, <2>2 DEF StatusInv, StatusCatchesUp
  <2>. QED
    BY <2>3, <2>4 DEF StatusInv
<1>4. CASE Boot \/ Prepare
  BY <1>3, <1>4, AgentTells DEF Boot, Prepare
<1>5. CASE Work
  BY <1>3, <1>5, AgentTells, WorkFacts DEF WorkStep, WorkKinds
<1>6. CASE EndTurn
  BY <1>3, <1>6, AgentTells DEF EndTurn
<1>7. CASE DropInput \/ EndOfInput \/ Abort
  BY <1>3, <1>7, AgentTells DEF DropInput, EndOfInput, Abort
<1>8. CASE ReceiveCommand
  <2>1. /\ agent = "wait" /\ cmds # <<>> /\ cmds' = Tail(cmds) /\ UNCHANGED uiVars
        /\ \/ /\ cmds[1].k = "send" /\ opts' = opts /\ UNCHANGED events
           \/ /\ cmds[1].k # "send" /\ \E e \in Event : e.k = "status" /\ e.sel = opts' /\ OneMore(e)
    BY <1>8, ReceiveFacts
  <2>2. UNCHANGED <<ui, shown, selected>>
    BY <2>1 DEF uiVars
  <2>3. CASE cmds[1].k = "send" /\ opts' = opts /\ UNCHANGED events
    <3>1. \A i \in DOMAIN cmds : i = 1 \/ (i - 1 \in DOMAIN cmds' /\ cmds'[i - 1] = cmds[i])
      BY <1>1, <2>1, TailFacts
    <3>2. StatusCatchesUp'
      BY <1>1, <2>1, <2>2, <2>3, <3>1 DEF StatusInv, StatusCatchesUp
    <3>. QED
      BY <1>1, <2>2, <2>3, <3>2 DEF StatusInv
  <2>4. CASE \E e \in Event : e.k = "status" /\ e.sel = opts' /\ OneMore(e)
    <3>1. PICK e \in Event : e.k = "status" /\ e.sel = opts' /\ OneMore(e)
      BY <2>4
    <3>. DEFINE n == Len(events) + 1
    <3>2. CASE ui = "open"
      <4>1. /\ n \in DOMAIN events' /\ events'[n] = e
            /\ \A i \in DOMAIN events' : (i \in DOMAIN events /\ i <= Len(events)) \/ i = n
            /\ \A i \in DOMAIN events : i <= Len(events) /\ i \in Nat
        BY <3>1, <3>2 DEF OneMore
      <4>2. Len(events) \in Nat
        BY <1>1 DEF TuiTypeOK
      <4>3. \A i \in DOMAIN events : n > i
        BY <4>1, <4>2
      <4>. HIDE DEF n
      <4>. QED
        BY <3>1, <4>1, <4>3 DEF StatusInv, StatusCatchesUp
    <3>. QED
      BY <1>1, <1>2, <2>2, <3>2
  <2>. QED
    BY <2>1, <2>3, <2>4
<1>9. CASE ApplyEvent
  <2>1. /\ ui = "open" /\ 1 \in DOMAIN events /\ Head(events) = events[1]
        /\ UNCHANGED <<ui, selected, turns, switches, chosen, reply, agentVars, cmds, answers>>
        /\ \A i \in DOMAIN events' : i \in Nat /\ i + 1 \in DOMAIN events /\ events'[i] = events[i + 1]
        /\ \A i \in DOMAIN events : i \in Nat /\ (i = 1 \/ (i - 1 \in DOMAIN events' /\ events'[i - 1] = events[i]))
    BY <1>1, <1>9, ApplyFacts, HeadFacts
  <2>2. UNCHANGED <<opts, agent, cmds, selected, ui>>
    BY <2>1 DEF agentVars
  <2>3. \A i \in DOMAIN events' :
          events'[i].k = "status" /\ (\A j \in DOMAIN events' : j > i => events'[j].k # "status") => events'[i].sel = opts'
    <3>1. SUFFICES ASSUME NEW i \in DOMAIN events', events'[i].k = "status",
                          \A j \in DOMAIN events' : j > i => events'[j].k # "status"
                   PROVE  events'[i].sel = opts
      BY <2>2
    <3>2. \A j \in DOMAIN events : j > i + 1 => events[j].k # "status"
      <4>1. SUFFICES ASSUME NEW j \in DOMAIN events, j > i + 1 PROVE events[j].k # "status"
        OBVIOUS
      <4>2. i \in Nat /\ j \in Nat /\ j # 1 /\ j - 1 > i
        BY <2>1, <4>1
      <4>. QED
        BY <2>1, <3>1, <4>2
    <3>. QED
      BY <1>1, <2>1, <3>1, <3>2 DEF StatusInv
  <2>4. ASSUME agent # "dead", \A i \in DOMAIN cmds : cmds[i].k = "send", \A i \in DOMAIN events' : events'[i].k # "status"
        PROVE  shown' = selected
    <3>1. \A i \in DOMAIN events : i > 1 => events[i].k # "status"
      BY <2>1, <2>4
    <3>2. CASE events[1].k = "status"
      <4>1. events[1].sel = opts
        BY <1>1, <2>1, <3>1, <3>2 DEF StatusInv
      <4>2. shown' = opts
        BY <1>9, <2>1, <3>2, <4>1 DEF ApplyEvent
      <4>3. Len(cmds) = 0 \/ Len(cmds) = 1
        <5>1. \A i, j \in DOMAIN cmds : i = j
          <6>1. events # <<>>
            BY <2>1
          <6>2. ~Told
            BY <6>1 DEF TuiInv, TurnInv
          <6>. QED
            BY <2>4, <6>2 DEF TuiInv, TurnInv
        <5>2. Len(cmds) > 1 => 1 \in DOMAIN cmds /\ 2 \in DOMAIN cmds
          BY <1>1
        <5>. QED
          BY <1>1, <5>1, <5>2
      <4>4. selected = After(opts, cmds, Len(cmds))
        BY <1>1, <2>1 DEF SelectionInv
      <4>5. CASE Len(cmds) = 0
        BY <4>2, <4>4, <4>5 DEF After
      <4>6. CASE Len(cmds) = 1
        <5>1. 1 \in DOMAIN cmds /\ cmds[1].k = "send" /\ cmds[1] \in Command /\ After(opts, cmds, 1 - 1) = opts
          BY <1>1, <2>4, <4>6 DEF After
        <5>2. cmds[1].sel.model = opts.model /\ cmds[1].sel.agent = opts.agent
          BY <1>1, <5>1 DEF SelectionInv
        <5>3. cmds[1].sel \in Selection /\ opts \in Selection
          BY <1>1, <5>1 DEF Command, TuiTypeOK
        <5>4. \A s, t \in Selection : s.model = t.model /\ s.agent = t.agent => s = t
          BY DEF Selection
        <5>. QED
          BY <4>2, <4>4, <4>6, <5>2, <5>3, <5>4 DEF After
      <4>. QED
        BY <4>3, <4>5, <4>6
    <3>3. CASE events[1].k # "status"
      <4>1. shown' = shown
        BY <1>9, <2>1, <3>3 DEF ApplyEvent
      <4>2. \A i \in DOMAIN events : events[i].k # "status"
        BY <2>1, <2>4, <3>3
      <4>. QED
        BY <1>1, <2>1, <2>4, <4>1, <4>2 DEF StatusInv, StatusCatchesUp
    <3>. QED
      BY <3>2, <3>3
  <2>5. StatusCatchesUp'
    BY <2>2, <2>4 DEF StatusCatchesUp
  <2>. QED
    BY <2>3, <2>5 DEF StatusInv
<1>10. CASE (\E a \in {"allow", "deny"} : AnswerModal(a)) \/ UNCHANGED tuiVars
  <2>1. UNCHANGED <<ui, cmds, opts, shown, selected, events, agent>>
    BY <1>10 DEF AnswerModal, tuiVars, uiVars, agentVars
  <2>. QED
    BY <1>1, <2>1 DEF StatusInv, StatusCatchesUp
<1>11. CASE \E k \in {"model", "agent"} : Switch(k)
  <2>1. PICK k \in {"model", "agent"} : Switch(k)
    BY <1>11
  <2>. DEFINE c == [k |-> k, turn |-> 0, sel |-> selected']
  <2>2. c \in Command /\ Submitted(c) /\ UNCHANGED agentVars
    BY <2>1, SwitchFacts
  <2>3. c.k # "send"
    OBVIOUS
  <2>. HIDE DEF c
  <2>4. SUFFICES ASSUME ui' = "open" PROVE StatusInv'
    BY <1>2
  <2>5. cmds' = Append(cmds, c) /\ events' = events /\ opts' = opts /\ ui' = ui
    BY <2>2, <2>4 DEF Submitted, agentVars
  <2>6. Len(cmds) + 1 \in DOMAIN cmds' /\ cmds'[Len(cmds) + 1] = c
    BY <1>1, <2>2, <2>5, AppendLooksUp
  <2>. QED
    BY <1>1, <2>3, <2>5, <2>6 DEF StatusInv, StatusCatchesUp
<1>12. CASE SendMessage
  <2>. DEFINE c == [k |-> "send", turn |-> turns + 1, sel |-> selected]
  <2>1. c \in Command /\ Submitted(c) /\ UNCHANGED <<shown, selected, agentVars>>
    BY <1>12, SendFacts
  <2>. HIDE DEF c
  <2>2. SUFFICES ASSUME ui' = "open" PROVE StatusInv'
    BY <1>2
  <2>3. cmds' = Append(cmds, c) /\ events' = events /\ opts' = opts /\ ui' = ui /\ agent' = agent
    BY <2>1, <2>2 DEF Submitted, agentVars
  <2>4. \A i \in DOMAIN cmds : i \in DOMAIN cmds' /\ cmds'[i] = cmds[i]
    BY <1>1, <2>1, <2>3, AppendLooksUp
  <2>. QED
    BY <1>1, <2>1, <2>3, <2>4 DEF StatusInv, StatusCatchesUp
<1>13. CASE Quit
  BY <1>2, <1>13 DEF Quit
<1>. QED
  BY <1>4, <1>5, <1>6, <1>7, <1>8, <1>9, <1>10, <1>11, <1>12, <1>13 DEF TuiNext, AgentStep, Key, Work

\* The two halves of TurnInv: the commands and the task, and the events under way.
TurnState ==
  /\ ~Told => \A i, j \in DOMAIN cmds : cmds[i].k = "send" /\ cmds[j].k = "send" => i = j
  /\ ~Told => turns = IF SendPending THEN turn + 1 ELSE turn
  /\ ui = "open" /\ ~busy /\ ~Told => ~SendPending
  /\ agent = "boot" => turn = 0
  /\ agent \in {"ended", "aborted"} => ui = "closed"
  /\ agent \in {"prepare", "call", "tools", "ask", "over"} => turn > 0
  /\ ui = "open" /\ (~busy \/ SendPending) => agent \in {"boot", "wait", "failing", "dead"}

TurnQueue ==
  /\ ui = "closed" \/ Told => events = <<>>
  /\ ui = "open" /\ (~busy \/ SendPending) =>
       \A i \in DOMAIN events : events[i].k = "status" \/ (events[i].k = "fatal" /\ turn = 0)
  /\ \A i \in DOMAIN events :
       /\ events[i].k # "status" => events[i].turn = turn
       /\ events[i].k \notin {"status", "fatal"} => turn > 0
       /\ events[i].k = "fatal" => agent \in {"failing", "dead"} /\ i = Len(events)
       /\ events[i].k = "idle" =>
            agent = "wait" /\ \A j \in DOMAIN events : j > i => events[j].k = "status"

LEMMA TurnHalves == (TurnInv <=> TurnState /\ TurnQueue) /\ (TurnInv' <=> TurnState' /\ TurnQueue')
  BY DEF TurnInv, TurnState, TurnQueue

\* What a command does to the message under way.
LEMMA PendingFacts ==
  ASSUME TuiInv
  PROVE  /\ cmds' = cmds => (SendPending' <=> SendPending)
         /\ \A c \in Command : cmds' = Append(cmds, c) => (/\ c.k # "send" => (SendPending' <=> SendPending)
                                                          /\ c.k = "send" => SendPending')
         /\ agent = "wait" /\ cmds # <<>> /\ cmds' = Tail(cmds) => (/\ cmds[1].k # "send" => (SendPending' <=> SendPending)
                                                                    /\ cmds[1].k = "send" => SendPending /\ ~SendPending')
<1>1. cmds \in Seq(Command) /\ TurnState
  BY TurnHalves DEF TuiInv, TuiTypeOK
<1>2. cmds' = cmds => (SendPending' <=> SendPending)
  BY DEF SendPending
<1>3. ASSUME NEW c \in Command, cmds' = Append(cmds, c)
      PROVE  (c.k # "send" => (SendPending' <=> SendPending)) /\ (c.k = "send" => SendPending')
  <2>1. /\ \A i \in DOMAIN cmds : i \in DOMAIN cmds' /\ cmds'[i] = cmds[i]
        /\ \A i \in DOMAIN cmds' : (i \in DOMAIN cmds /\ cmds'[i] = cmds[i]) \/ cmds'[i] = c
        /\ Len(cmds) + 1 \in DOMAIN cmds' /\ cmds'[Len(cmds) + 1] = c
    BY <1>1, <1>3, AppendLooksUp
  <2>. QED
    BY <2>1 DEF SendPending
<1>4. ASSUME agent = "wait", cmds # <<>>, cmds' = Tail(cmds)
      PROVE  /\ cmds[1].k # "send" => (SendPending' <=> SendPending)
             /\ cmds[1].k = "send" => SendPending /\ ~SendPending'
  <2>1. /\ 1 \in DOMAIN cmds
        /\ \A i \in DOMAIN cmds' : i \in Nat /\ i + 1 \in DOMAIN cmds /\ cmds'[i] = cmds[i + 1]
        /\ \A i \in DOMAIN cmds : i = 1 \/ (i - 1 \in DOMAIN cmds' /\ cmds'[i - 1] = cmds[i])
    BY <1>1, <1>4, TailFacts
  <2>2. cmds[1].k # "send" => (SendPending' <=> SendPending)
    BY <2>1 DEF SendPending
  <2>3. cmds[1].k = "send" => SendPending /\ ~SendPending'
    <3>1. 0 \notin DOMAIN cmds'
      BY <1>1, <1>4
    <3>2. \A i \in DOMAIN cmds' : i + 1 # 1
      BY <2>1, <3>1
    <3>. QED
      BY <1>1, <1>4, <2>1, <3>2 DEF SendPending, TurnState, Told
  <2>. QED
    BY <2>2, <2>3
<1>. QED
  BY <1>2, <1>3, <1>4

LEMMA TurnStateStep ==
  ASSUME TuiInv, [TuiNext]_tuiVars
  PROVE  TurnState'
<1>1. /\ TuiTypeOK /\ TurnState /\ TurnQueue /\ cmds \in Seq(Command)
      /\ turn \in Nat /\ turns \in Nat /\ ui \in {"open", "closed"} /\ (Told => Told')
  BY TuiAssumption, TurnHalves, ToldStays DEF TuiInv, TuiTypeOK
<1>2. ASSUME UNCHANGED <<ui, busy, turns, turn, cmds>>, agent # "dead", agent' # "boot",
             agent' \in {"ended", "aborted"} => ui = "closed",
             agent' \in {"prepare", "call", "tools", "ask", "over"} => agent \in {"prepare", "call", "tools", "ask", "over"},
             ui = "open" /\ agent \in {"boot", "wait", "failing", "dead"} => agent' \in {"boot", "wait", "failing", "dead"}
      PROVE  TurnState'
  <2>1. (SendPending' <=> SendPending) /\ (Told => Told')
    BY <1>2, PendingFacts, ToldStays
  <2>. QED
    BY <1>1, <1>2, <2>1 DEF TurnState
<1>12. CASE DropInput
  <2>1. UNCHANGED <<ui, busy, turns, turn, cmds>> /\ agent = "failing" /\ agent' = "dead"
    BY <1>12 DEF DropInput, uiVars
  <2>2. (SendPending' <=> SendPending) /\ (Told => Told')
    BY <2>1, PendingFacts, ToldStays
  <2>. QED
    BY <1>1, <2>1, <2>2 DEF TurnState
<1>3. CASE Boot \/ EndOfInput \/ Abort
  <2>1. UNCHANGED <<ui, busy, turns, turn, cmds>>
    BY <1>3 DEF Boot, EndOfInput, Abort, uiVars
  <2>2. /\ agent # "dead" /\ agent' \in {"wait", "failing", "ended", "aborted"}
        /\ agent' \in {"ended", "aborted"} => ui = "closed"
    BY <1>3 DEF Boot, EndOfInput, Abort
  <2>. QED
    BY <1>2, <2>1, <2>2
<1>4. CASE Prepare
  <2>1. UNCHANGED <<ui, busy, turns, turn, cmds>> /\ agent = "prepare" /\ agent' \in {"call", "failing"}
    BY <1>4 DEF Prepare, uiVars
  <2>. QED
    BY <1>2, <2>1
<1>5. CASE Work
  <2>1. UNCHANGED <<ui, busy, turns, turn, cmds>> /\ agent \in {"call", "tools", "ask"} /\ agent' \in {"call", "tools", "ask", "over"}
    BY <1>5, WorkFacts DEF WorkStep, uiVars
  <2>. QED
    BY <1>2, <2>1
<1>6. CASE EndTurn
  <2>1. UNCHANGED <<ui, busy, turns, turn, cmds>> /\ agent = "over" /\ agent' = "wait"
    BY <1>6 DEF EndTurn, uiVars
  <2>. QED
    BY <1>2, <2>1
<1>7. CASE ReceiveCommand
  <2>1. /\ agent = "wait" /\ cmds # <<>> /\ cmds' = Tail(cmds) /\ UNCHANGED <<ui, busy, turns>>
        /\ \/ cmds[1].k = "send" /\ agent' = "prepare" /\ turn' = turn + 1
           \/ cmds[1].k # "send" /\ UNCHANGED <<agent, turn>>
    BY <1>7, ReceiveFacts DEF uiVars
  <2>2. /\ cmds[1].k # "send" => (SendPending' <=> SendPending)
        /\ cmds[1].k = "send" => SendPending /\ ~SendPending'
    BY <2>1, PendingFacts
  <2>6. ~Told
    BY <2>1 DEF Told
  <2>3. \A i, j \in DOMAIN cmds' : cmds'[i].k = "send" /\ cmds'[j].k = "send" => i = j
    <3>1. \A i \in DOMAIN cmds' : i \in Nat /\ i + 1 \in DOMAIN cmds /\ cmds'[i] = cmds[i + 1]
      BY <1>1, <2>1, TailFacts
    <3>2. \A i, j \in DOMAIN cmds' : i + 1 = j + 1 => i = j
      BY <3>1
    <3>. QED
      BY <1>1, <2>6, <3>1, <3>2 DEF TurnState
  <2>4. CASE cmds[1].k = "send" /\ agent' = "prepare" /\ turn' = turn + 1
    <3>1. turns = turn + 1 /\ (ui = "open" => busy)
      BY <1>1, <2>1, <2>2, <2>4, <2>6 DEF TurnState
    <3>2. turn' > 0
      BY <1>1, <2>4
    <3>. QED
      BY <2>1, <2>2, <2>3, <2>4, <3>1, <3>2 DEF TurnState
  <2>5. CASE cmds[1].k # "send" /\ UNCHANGED <<agent, turn>>
    BY <1>1, <2>1, <2>2, <2>3, <2>5, <2>6 DEF TurnState
  <2>. QED
    BY <2>1, <2>4, <2>5
<1>8. CASE ApplyEvent
  <2>1. /\ ui = "open" /\ 1 \in DOMAIN events /\ Head(events) = events[1]
        /\ UNCHANGED <<ui, turns, turn, agent, cmds>>
    BY <1>1, <1>8, ApplyFacts, HeadFacts DEF agentVars
  <2>2. SendPending' <=> SendPending
    BY <2>1, PendingFacts
  <2>3. CASE busy' = busy
    BY <1>1, <2>1, <2>2, <2>3 DEF TurnState
  <2>4. CASE events[1].k = "idle"
    <3>1. agent = "wait" /\ ~SendPending
      BY <1>1, <2>1, <2>4 DEF TurnQueue
    <3>. QED
      BY <1>1, <2>1, <2>2, <3>1 DEF TurnState
  <2>5. CASE events[1].k = "fatal"
    <3>1. agent \in {"failing", "dead"}
      BY <1>1, <2>1, <2>5 DEF TurnQueue
    <3>2. Told'
      <4>1. Len(events) = 1
        BY <1>1, <2>1, <2>5 DEF TurnQueue
      <4>2. events' = Tail(events) /\ Len(events') = Len(events) - 1
        BY <1>8, ApplyFacts
      <4>3. events' \in Seq(Event)
        BY <1>8, TypeStep DEF TuiTypeOK
      <4>4. DOMAIN events' = {}
        BY <4>1, <4>2, <4>3
      <4>. QED
        BY <2>1, <3>1, <4>4 DEF Told
    <3>. QED
      BY <1>1, <2>1, <2>2, <3>1, <3>2 DEF TurnState
  <2>. QED
    BY <1>8, <2>1, <2>3, <2>4, <2>5 DEF ApplyEvent
<1>9. CASE (\E a \in {"allow", "deny"} : AnswerModal(a)) \/ UNCHANGED tuiVars \/ Quit
  <2>1. UNCHANGED <<cmds, turns, turn, agent, busy>> /\ (ui' = ui \/ ui' = "closed")
    BY <1>9 DEF AnswerModal, Quit, tuiVars, uiVars, agentVars
  <2>2. SendPending' <=> SendPending
    BY <2>1, PendingFacts
  <2>. QED
    BY <1>1, <2>1, <2>2 DEF TurnState
<1>10. CASE \E k \in {"model", "agent"} : Switch(k)
  <2>1. PICK k \in {"model", "agent"} : Switch(k)
    BY <1>10
  <2>2. UNCHANGED <<busy, turns, agent, turn>> /\ ui = "open"
    BY <2>1, SwitchFacts DEF agentVars
  <2>3. PICK c \in Command : Submitted(c) /\ c.k # "send"
    BY <2>1, SwitchFacts
  <2>4. CASE cmds' = Append(cmds, c) /\ ui' = ui
    <3>1. /\ \A i \in DOMAIN cmds' : (i \in DOMAIN cmds /\ cmds'[i] = cmds[i]) \/ cmds'[i] = c
          /\ \A i \in DOMAIN cmds : i \in DOMAIN cmds' /\ cmds'[i] = cmds[i]
      BY <1>1, <2>3, <2>4, AppendLooksUp
    <3>2. SendPending' <=> SendPending
      BY <2>3, <3>1 DEF SendPending
    <3>. QED
      BY <1>1, <2>2, <2>3, <2>4, <3>1, <3>2 DEF TurnState
  <2>5. CASE agent \in {"ended", "dead"} /\ ui' = "closed" /\ cmds' = cmds
    BY <1>1, <2>2, <2>5, PendingFacts DEF TurnState
  <2>. QED
    BY <2>3, <2>4, <2>5 DEF Submitted
<1>11. CASE SendMessage
  <2>. DEFINE c == [k |-> "send", turn |-> turns + 1, sel |-> selected]
  <2>1. c \in Command /\ Submitted(c) /\ UNCHANGED <<agent, turn>> /\ ui = "open" /\ busy = FALSE /\ busy' = TRUE /\ turns' = turns + 1
    BY <1>11, SendFacts DEF agentVars
  <2>2. c.k = "send"
    OBVIOUS
  <2>. HIDE DEF c
  <2>3. CASE agent \notin {"ended", "dead"} /\ cmds' = Append(cmds, c) /\ ui' = ui
    <3>1. SendPending'
      BY <2>1, <2>2, <2>3, PendingFacts
    <3>2. /\ \A i \in DOMAIN cmds' : (i \in DOMAIN cmds /\ cmds'[i] = cmds[i]) \/ i = Len(cmds) + 1
      BY <1>1, <2>1, <2>3, AppendLooksUp
    <3>3. ~Told => turns = turn /\ \A i \in DOMAIN cmds : cmds[i].k # "send"
      BY <2>1, NobodySends
    <3>4. agent \in {"boot", "wait", "failing", "dead"}
      BY <1>1, <2>1 DEF TurnState
    <3>5. ~Told => \A i, j \in DOMAIN cmds' : cmds'[i].k = "send" /\ cmds'[j].k = "send" => i = j
      BY <3>2, <3>3
    <3>. QED
      BY <1>1, <2>1, <2>3, <3>1, <3>3, <3>4, <3>5 DEF TurnState
  <2>4. CASE agent \in {"ended", "dead"} /\ ui' = "closed" /\ cmds' = cmds /\ events' = <<>>
    <3>1. agent = "dead" /\ agent' = "dead"
      BY <1>1, <2>1, <2>4 DEF TurnState
    <3>2. DOMAIN events' = {}
      BY <2>4
    <3>3. Told'
      BY <3>1, <3>2 DEF Told
    <3>. QED
      BY <1>1, <2>1, <2>4, <3>1, <3>3 DEF TurnState
  <2>. QED
    BY <2>1, <2>3, <2>4 DEF Submitted
<1>. QED
  BY <1>3, <1>4, <1>5, <1>6, <1>7, <1>8, <1>9, <1>10, <1>11, <1>12 DEF TuiNext, AgentStep, Key, Work

\* What is told is the last event.
LEMMA ToldIsSilent ==
  ASSUME TuiInv, [TuiNext]_tuiVars, Told'
  PROVE  events' = <<>>
<1>1. /\ events \in Seq(Event) /\ (ui = "closed" => events = <<>>) /\ ui \in {"open", "closed"}
      /\ \A i \in DOMAIN events : events[i].k = "fatal" => agent \in {"failing", "dead"} /\ i = Len(events)
      /\ agent' \in {"failing", "dead"} /\ \A i \in DOMAIN events' : events'[i].k # "fatal"
  BY DEF TuiInv, TurnInv, TuiTypeOK, Told
<1>2. CASE Told
  BY <1>2, ToldStays
<1>3. CASE Boot \/ Prepare
  <2>1. Emit(<<Plain("fatal")>>) /\ OneMore(Plain("fatal"))
    BY <1>1, <1>3, FatalFacts DEF Boot, Prepare
  <2>2. Plain("fatal").k = "fatal"
    BY PlainIsTyped DEF TuiInv
  <2>. QED
    BY <1>1, <2>1, <2>2 DEF OneMore
<1>4. ASSUME ~Told, ApplyEvent PROVE events' = <<>>
  <2>1. /\ Len(events) \in Nat /\ Len(events') = Len(events) - 1 /\ UNCHANGED agent /\ events' = Tail(events)
        /\ events # <<>>
        /\ \A i \in DOMAIN events : i = 1 \/ (i - 1 \in DOMAIN events' /\ events'[i - 1] = events[i])
    BY <1>4, ApplyFacts DEF agentVars
  <2>2. PICK i \in DOMAIN events : events[i].k = "fatal"
    BY <1>1, <1>4, <2>1 DEF Told
  <2>3. i = 1 /\ i = Len(events)
    BY <1>1, <2>1, <2>2
  <2>4. events' \in Seq(Event) /\ Len(events') = 0
    BY <1>1, <2>1, <2>3
  <2>. QED
    BY <2>4
<1>5. ASSUME ~Told, ~Boot, ~Prepare, ~ApplyEvent PROVE events' = <<>>
  <2>1. agent \in {"failing", "dead"} /\ (events' = events \/ events' = <<>>)
    <3>1. CASE DropInput
      BY <3>1 DEF DropInput
    <3>2. CASE \E a \in {"allow", "deny"} : AnswerModal(a)
      BY <1>1, <3>2 DEF AnswerModal, agentVars
    <3>3. CASE SendMessage \/ \E k \in {"model", "agent"} : Switch(k)
      BY <1>1, <3>3 DEF SendMessage, Switch, Submit, agentVars
    <3>4. CASE Quit \/ UNCHANGED tuiVars
      BY <1>1, <3>4 DEF Quit, tuiVars, agentVars
    <3>5. ~Work
      BY <1>1, WorkFacts DEF WorkStep
    <3>. QED
      BY <1>1, <1>5, <3>1, <3>2, <3>3, <3>4, <3>5
         DEF TuiNext, AgentStep, Key, Work, ReceiveCommand, EndOfInput, EndTurn, Abort
  <2>. QED
    BY <1>1, <1>5, <2>1 DEF Told
<1>. QED
  BY <1>2, <1>3, <1>4, <1>5

LEMMA TurnQueueStep ==
  ASSUME TuiInv, [TuiNext]_tuiVars
  PROVE  TurnQueue'
<1>1. /\ TuiTypeOK /\ TurnState /\ TurnQueue /\ cmds \in Seq(Command) /\ events \in Seq(Event)
      /\ turn \in Nat /\ ui \in {"open", "closed"} /\ (Told' => events' = <<>>)
  BY TuiAssumption, TurnHalves, ToldIsSilent DEF TuiInv, TuiTypeOK
<1>2. CASE ui' = "closed" /\ events' = <<>>
  <2>1. DOMAIN events' = {}
    BY <1>2
  <2>. QED
    BY <1>2, <2>1 DEF TurnQueue
<1>3. CASE Boot \/ Prepare
  <2>1. Tells({"fatal"}) /\ UNCHANGED <<ui, busy, turn, cmds>>
    BY <1>3, AgentTells DEF Boot, Prepare, uiVars
  <2>2. /\ agent \in {"boot", "prepare"} /\ (agent = "boot" => turn = 0)
        /\ events' = events \/ (agent' = "failing" /\ OneMore(Plain("fatal")))
    BY <1>1, <1>3, FatalFacts DEF Boot, Prepare, TurnState
  <2>3. SendPending' <=> SendPending
    BY <2>1, PendingFacts
  <2>4. \A i \in DOMAIN events : events[i].k \notin {"fatal", "idle"}
    BY <1>1, <2>2 DEF TurnQueue
  <2>5. CASE events' = events
    BY <1>1, <2>1, <2>3, <2>4, <2>5 DEF TurnQueue
  <2>6. CASE agent' = "failing" /\ OneMore(Plain("fatal"))
    <3>1. \A i \in DOMAIN events' : \/ i \in DOMAIN events /\ events'[i] = events[i]
                                    \/ i = Len(events') /\ events'[i].k = "fatal" /\ events'[i].turn = turn
      BY <1>1, <2>6, PlainIsTyped DEF OneMore
    <3>2. ui = "open" /\ (~busy \/ SendPending) => turn = 0
      BY <1>1, <2>2 DEF TurnState
    <3>3. \A i \in DOMAIN events' : events'[i].k # "idle"
      BY <2>4, <3>1
    <3>. QED
      BY <1>1, <2>1, <2>3, <2>4, <2>6, <3>1, <3>2, <3>3 DEF TurnQueue, OneMore
  <2>. QED
    BY <2>2, <2>5, <2>6
<1>4. CASE Work
  <2>1. /\ Tells(WorkKinds) /\ UNCHANGED <<ui, busy, turn, cmds>>
        /\ agent \in {"call", "tools", "ask"}
    BY <1>4, AgentTells, WorkFacts DEF WorkStep, uiVars
  <2>2. SendPending' <=> SendPending
    BY <2>1, PendingFacts
  <2>3. \A i \in DOMAIN events : events[i].k \notin {"fatal", "idle"}
    BY <1>1, <2>1 DEF TurnQueue
  <2>4. turn > 0 /\ ~(ui = "open" /\ (~busy \/ SendPending))
    BY <1>1, <2>1 DEF TurnState
  <2>5. \A i \in DOMAIN events' : /\ events'[i].k \notin {"fatal", "idle"}
                                  /\ events'[i].k # "status" => events'[i].turn = turn
    BY <1>1, <2>1, <2>3 DEF Tells, WorkKinds, TurnQueue
  <2>6. ui = "closed" => events' = <<>>
    BY <2>1 DEF Tells
  <2>. QED
    BY <1>1, <2>1, <2>2, <2>4, <2>5, <2>6 DEF TurnQueue
<1>5. CASE EndTurn
  <2>1. /\ Tells({"notice", "idle"}) /\ UNCHANGED <<ui, busy, turn, cmds>>
        /\ agent = "over" /\ agent' = "wait"
        /\ \A i \in DOMAIN events' : i > Len(events) /\ events'[i].k = "idle" => i = Len(events')
    BY <1>5, EndFacts DEF uiVars
  <2>2. SendPending' <=> SendPending
    BY <2>1, PendingFacts
  <2>3. \A i \in DOMAIN events : events[i].k \notin {"fatal", "idle"}
    BY <1>1, <2>1 DEF TurnQueue
  <2>4. turn > 0 /\ ~(ui = "open" /\ (~busy \/ SendPending))
    BY <1>1, <2>1 DEF TurnState
  <2>5. \A i \in DOMAIN events' : /\ events'[i].k # "fatal"
                                  /\ events'[i].k # "status" => events'[i].turn = turn
                                  /\ events'[i].k = "idle" => i > Len(events)
    BY <1>1, <2>1, <2>3 DEF Tells, TurnQueue
  <2>6. \A i \in DOMAIN events' : events'[i].k = "idle" => ~ \E j \in DOMAIN events' : j > i
    <3>1. \A j \in DOMAIN events' : j \in Nat /\ j <= Len(events')
      BY <2>1 DEF Tells
    <3>2. Len(events') \in Nat
      BY <2>1 DEF Tells
    <3>. QED
      BY <2>1, <2>5, <3>1, <3>2
  <2>7. ui = "closed" => events' = <<>>
    BY <2>1 DEF Tells
  <2>. QED
    BY <1>1, <2>1, <2>2, <2>4, <2>5, <2>6, <2>7 DEF TurnQueue
<1>6. CASE EndOfInput \/ Abort
  <2>1. ui' = "closed" /\ events' = <<>>
    BY <1>1, <1>6 DEF EndOfInput, Abort, TurnQueue, uiVars
  <2>. QED
    BY <1>2, <2>1
<1>7. CASE ReceiveCommand
  <2>1. /\ agent = "wait" /\ cmds # <<>> /\ cmds' = Tail(cmds) /\ UNCHANGED <<ui, busy>>
        /\ \/ cmds[1].k = "send" /\ agent' = "prepare" /\ turn' = turn + 1 /\ UNCHANGED events
           \/ /\ cmds[1].k # "send" /\ UNCHANGED <<agent, turn>>
              /\ \E e \in Event : e.k = "status" /\ OneMore(e)
    BY <1>7, ReceiveFacts DEF uiVars
  <2>2. /\ cmds[1].k # "send" => (SendPending' <=> SendPending)
        /\ cmds[1].k = "send" => SendPending /\ ~SendPending'
    BY <2>1, PendingFacts
  <2>3. CASE cmds[1].k = "send" /\ agent' = "prepare" /\ turn' = turn + 1 /\ UNCHANGED events
    <3>1. ui = "open" => busy
      BY <1>1, <2>1, <2>2, <2>3 DEF TurnState, Told
    <3>2. ui = "open" => \A i \in DOMAIN events : events[i].k = "status"
      BY <1>1, <2>1, <2>2, <2>3 DEF TurnQueue
    <3>3. \A i \in DOMAIN events : events[i].k = "status"
      <4>1. ui = "closed" => DOMAIN events = {}
        BY <1>1 DEF TurnQueue
      <4>. QED
        BY <1>1, <3>2, <4>1
    <3>. QED
      BY <1>1, <2>1, <2>2, <2>3, <3>1, <3>3 DEF TurnQueue
  <2>4. CASE cmds[1].k # "send" /\ UNCHANGED <<agent, turn>> /\ \E e \in Event : e.k = "status" /\ OneMore(e)
    <3>1. PICK e \in Event : e.k = "status" /\ OneMore(e)
      BY <2>4
    <3>2. /\ \A i \in DOMAIN events' : (i \in DOMAIN events /\ events'[i] = events[i]) \/ events'[i].k = "status"
          /\ ui = "closed" => events' = <<>>
      BY <3>1 DEF OneMore
    <3>3. \A i \in DOMAIN events' : events'[i].k # "fatal"
      BY <1>1, <2>1, <3>2 DEF TurnQueue
    <3>4. ui = "open" /\ (~busy \/ SendPending) => \A i \in DOMAIN events' : events'[i].k = "status"
      BY <1>1, <2>1, <3>2 DEF TurnQueue
    <3>5. \A i \in DOMAIN events' :
            /\ events'[i].k # "status" => events'[i].turn = turn
            /\ events'[i].k \notin {"status", "fatal"} => turn > 0
            /\ events'[i].k = "idle" => \A j \in DOMAIN events' : j > i => events'[j].k = "status"
      BY <1>1, <3>2 DEF TurnQueue
    <3>. QED
      BY <1>1, <2>1, <2>2, <2>4, <3>2, <3>3, <3>4, <3>5 DEF TurnQueue
  <2>. QED
    BY <2>1, <2>3, <2>4
<1>8. CASE ApplyEvent
  <2>1. /\ ui = "open" /\ 1 \in DOMAIN events /\ Head(events) = events[1]
        /\ UNCHANGED <<ui, turn, agent, cmds>>
        /\ Len(events) \in Nat /\ Len(events') = Len(events) - 1
        /\ \A i \in DOMAIN events' : i \in Nat /\ i + 1 \in DOMAIN events /\ events'[i] = events[i + 1]
        /\ \A i \in DOMAIN events : i \in Nat /\ i <= Len(events) /\ (i = 1 \/ (i - 1 \in DOMAIN events' /\ events'[i - 1] = events[i]))
    BY <1>1, <1>8, ApplyFacts, HeadFacts DEF agentVars
  <2>2. SendPending' <=> SendPending
    BY <2>1, PendingFacts
  <2>3. \A i, j \in DOMAIN events' : (i + 1 = Len(events) => i = Len(events')) /\ (j > i => j + 1 > i + 1) /\ i + 1 > 1
    <3>1. \A i \in DOMAIN events' : i > 0
      BY <1>1, <1>8, ApplyFacts, HeadFacts
    <3>. QED
      BY <2>1, <3>1
  <2>4. \A i \in DOMAIN events' :
       /\ events'[i].k # "status" => events'[i].turn = turn
       /\ events'[i].k \notin {"status", "fatal"} => turn > 0
       /\ events'[i].k = "fatal" => agent \in {"failing", "dead"} /\ i = Len(events')
       /\ events'[i].k = "idle" =>
            agent = "wait" /\ \A j \in DOMAIN events' : j > i => events'[j].k = "status"
    BY <1>1, <2>1, <2>3 DEF TurnQueue
  <2>5. ui = "open" /\ (~busy' \/ SendPending) =>
          \A i \in DOMAIN events' : events'[i].k = "status" \/ (events'[i].k = "fatal" /\ turn = 0)
    <3>1. CASE busy' = busy
      BY <1>1, <2>1, <3>1 DEF TurnQueue
    <3>2. CASE events[1].k = "idle"
      BY <1>1, <2>1, <2>3, <3>2 DEF TurnQueue
    <3>3. CASE events[1].k = "fatal"
      <4>1. Len(events) = 1
        BY <1>1, <2>1, <3>3 DEF TurnQueue
      <4>2. \A i \in DOMAIN events' : i + 1 <= 1
        BY <2>1, <4>1
      <4>. QED
        BY <2>1, <2>3, <4>2
    <3>. QED
      BY <1>8, <2>1, <3>1, <3>2, <3>3 DEF ApplyEvent
  <2>. QED
    BY <1>1, <2>1, <2>2, <2>4, <2>5 DEF TurnQueue
<1>9. CASE (\E a \in {"allow", "deny"} : AnswerModal(a)) \/ UNCHANGED tuiVars
  <2>1. UNCHANGED <<ui, cmds, turn, agent, busy, events>>
    BY <1>9 DEF AnswerModal, tuiVars, uiVars, agentVars
  <2>2. SendPending' <=> SendPending
    BY <2>1, PendingFacts
  <2>. QED
    BY <1>1, <2>1, <2>2 DEF TurnQueue
<1>10. CASE \E k \in {"model", "agent"} : Switch(k)
  <2>1. PICK k \in {"model", "agent"} : Switch(k)
    BY <1>10
  <2>2. UNCHANGED <<busy, turns, agent, turn>> /\ ui = "open"
    BY <2>1, SwitchFacts DEF agentVars
  <2>3. PICK c \in Command : Submitted(c) /\ c.k # "send"
    BY <2>1, SwitchFacts
  <2>4. CASE cmds' = Append(cmds, c) /\ ui' = ui /\ events' = events
    <3>1. /\ \A i \in DOMAIN cmds' : (i \in DOMAIN cmds /\ cmds'[i] = cmds[i]) \/ cmds'[i] = c
          /\ \A i \in DOMAIN cmds : i \in DOMAIN cmds' /\ cmds'[i] = cmds[i]
      BY <1>1, <2>3, <2>4, AppendLooksUp
    <3>2. SendPending' <=> SendPending
      BY <2>3, <3>1 DEF SendPending
    <3>. QED
      BY <1>1, <2>2, <2>4, <3>2 DEF TurnQueue
  <2>. QED
    BY <1>2, <2>3, <2>4 DEF Submitted
<1>11. CASE SendMessage
  <2>1. PICK c \in Command : Submitted(c)
    BY <1>11, SendFacts
  <2>2. UNCHANGED <<agent, turn>> /\ ui = "open" /\ busy = FALSE /\ busy' = TRUE
    BY <1>11, SendFacts DEF agentVars
  <2>3. CASE ui' = ui /\ events' = events
    <3>1. \A i \in DOMAIN events : events[i].k = "status" \/ (events[i].k = "fatal" /\ turn = 0)
      BY <1>1, <2>2 DEF TurnQueue
    <3>. QED
      BY <1>1, <2>2, <2>3, <3>1 DEF TurnQueue
  <2>. QED
    BY <1>2, <2>1, <2>3 DEF Submitted
<1>12. CASE Quit
  BY <1>2, <1>12 DEF Quit
<1>13. CASE DropInput
  <2>1. UNCHANGED <<ui, cmds, turn, busy, events>> /\ agent = "failing" /\ agent' = "dead"
    BY <1>13 DEF DropInput, uiVars
  <2>2. SendPending' <=> SendPending
    BY <2>1, PendingFacts
  <2>3. Told' => Told
    BY <2>1 DEF Told
  <2>. QED
    BY <1>1, <2>1, <2>2, <2>3 DEF TurnQueue
<1>. QED
  BY <1>3, <1>4, <1>5, <1>6, <1>7, <1>8, <1>9, <1>10, <1>11, <1>12, <1>13 DEF TuiNext, AgentStep, Key, Work

LEMMA TurnStep == TuiInv /\ [TuiNext]_tuiVars => TurnInv'
  BY TurnStateStep, TurnQueueStep, TurnHalves

\* The two halves of TranscriptInv: what the transcript says, and the text it does not have yet.
TranscriptItems ==
  /\ TranscriptInOrder
  /\ \A i \in DOMAIN items : items[i].turn <= turns
  /\ \A t \in 1..turns : \E j \in DOMAIN items : items[j].k = "user" /\ items[j].turn = t

TranscriptText ==
  /\ ui = "open" => \A t \in streaming \ failed :
       t = turn /\ (agent = "call" \/ \E j \in DOMAIN events : events[j].k = "done")
  /\ \A i \in DOMAIN events : events[i].k = "delta" =>
       turn \in failed \/ agent = "call" \/ \E j \in DOMAIN events : j > i /\ events[j].k = "done"

LEMMA TranscriptHalves ==
  /\ TranscriptInv <=> TranscriptItems /\ TranscriptText
  /\ TranscriptInv' <=> TranscriptItems' /\ TranscriptText'
  BY DEF TranscriptInv, TranscriptItems, TranscriptText

\* One more item at the end of the transcript.
LEMMA ItemsGrow ==
  ASSUME TuiInv, NEW x \in Item, items' = Append(items, x), turns' \in Nat, turns <= turns', x.turn <= turns',
         failed' = failed,
         x.turn > 0 => \A i \in DOMAIN items : items[i].turn <= x.turn,
         x.turn > 0 => x.k = "user" \/ \E j \in DOMAIN items : items[j].k = "user" /\ items[j].turn = x.turn,
         x.of \subseteq {x.turn} \cup failed,
         \A t \in 1..turns' : t \in 1..turns \/ (x.k = "user" /\ x.turn = t)
  PROVE  TranscriptItems'
<1>. DEFINE n == Len(items) + 1
<1>1. items \in Seq(Item) /\ TranscriptItems /\ turns \in Nat
  BY TuiAssumption, TranscriptHalves DEF TuiInv, TuiTypeOK
<1>2. /\ \A i \in DOMAIN items : i \in DOMAIN items' /\ items'[i] = items[i] /\ i \in Nat /\ i <= Len(items)
      /\ \A i \in DOMAIN items' : i \in Nat /\
           (\/ i \in DOMAIN items /\ items'[i] = items[i]
            \/ i = n /\ items'[i] = x /\ i \notin DOMAIN items)
      /\ n \in DOMAIN items' /\ items'[n] = x
  BY <1>1, AppendLooksUp
<1>3. Len(items) \in Nat /\ n \in Nat /\ \A i \in DOMAIN items : i < n /\ i \in 1..n /\ ~(n < i)
  BY <1>1
<1>4. n \in 1..n /\ \A i \in DOMAIN items' : i \in 1..i /\ \A j \in 1..i : j \in Nat
  BY <1>2, <1>3
<1>. HIDE DEF n
<1>5. \A i \in DOMAIN items : items[i].turn \in Nat /\ items[i].turn <= turns
  <2>1. \A i \in DOMAIN items : items[i] \in Item
    BY <1>1
  <2>2. \A y \in Item : y.turn \in Nat
    BY TuiAssumption DEF Item
  <2>. QED
    BY <1>1, <2>1, <2>2 DEF TranscriptItems
<1>6. x.turn \in Nat
  BY TuiAssumption DEF Item
<1>7. \A i, j \in DOMAIN items' : i < j /\ items'[i].turn > 0 /\ items'[j].turn > 0 => items'[i].turn <= items'[j].turn
  <2>1. \A i, j \in DOMAIN items : i < j /\ items[i].turn > 0 /\ items[j].turn > 0 => items[i].turn <= items[j].turn
    BY <1>1 DEF TranscriptItems, TranscriptInOrder
  <2>2. \A i \in DOMAIN items : x.turn > 0 => items[i].turn <= x.turn
    OBVIOUS
  <2>3. \A i, j \in DOMAIN items' : i < j => i \in DOMAIN items
    BY <1>2, <1>3
  <2>. QED
    BY <1>2, <2>1, <2>2, <2>3
<1>8. \A i \in DOMAIN items' : items'[i].turn > 0 => \E j \in 1..i : items'[j].k = "user" /\ items'[j].turn = items'[i].turn
  <2>1. SUFFICES ASSUME NEW i \in DOMAIN items', items'[i].turn > 0
                 PROVE  \E j \in 1..i : items'[j].k = "user" /\ items'[j].turn = items'[i].turn
    OBVIOUS
  <2>2. CASE i \in DOMAIN items
    <3>1. PICK j \in 1..i : items[j].k = "user" /\ items[j].turn = items[i].turn
      BY <1>1, <1>2, <2>1, <2>2 DEF TranscriptItems, TranscriptInOrder
    <3>2. j \in DOMAIN items
      <4>1. i \in 1..Len(items) /\ DOMAIN items = 1..Len(items)
        BY <1>1, <2>2
      <4>. QED
        BY <1>3, <3>1, <4>1
    <3>. QED
      BY <1>2, <2>2, <3>1, <3>2
  <2>3. CASE i = n
    <3>1. CASE x.k = "user"
      BY <1>2, <1>4, <2>3, <3>1
    <3>2. CASE \E j \in DOMAIN items : items[j].k = "user" /\ items[j].turn = x.turn
      BY <1>2, <1>3, <2>3, <3>2
    <3>. QED
      BY <1>2, <2>1, <2>3, <3>1, <3>2
  <2>. QED
    BY <1>2, <2>2, <2>3
<1>9. \A i \in DOMAIN items' : items'[i].of \subseteq {items'[i].turn} \cup failed'
  BY <1>1, <1>2 DEF TranscriptItems, TranscriptInOrder
<1>10. \A i \in DOMAIN items' : items'[i].turn <= turns'
  BY <1>1, <1>2, <1>5
<1>11. \A t \in 1..turns' : \E j \in DOMAIN items' : items'[j].k = "user" /\ items'[j].turn = t
  <2>1. SUFFICES ASSUME NEW t \in 1..turns' PROVE \E j \in DOMAIN items' : items'[j].k = "user" /\ items'[j].turn = t
    OBVIOUS
  <2>2. CASE t \in 1..turns
    BY <1>1, <1>2, <2>2 DEF TranscriptItems
  <2>. QED
    BY <1>2, <2>2
<1>. QED
  BY <1>7, <1>8, <1>9, <1>10, <1>11 DEF TranscriptItems, TranscriptInOrder

\* An event that is not a status is of the last turn, unless the task was never ready.
LEMMA HeadIsOfTurn ==
  ASSUME TuiInv, ui = "open", NEW i \in DOMAIN events, events[i].k # "status"
  PROVE  /\ events[i].turn = turn
         /\ turn = 0 \/ (turn = turns /\ turn \in 1..turns)
         /\ events[i].k # "fatal" => turn = turns /\ turn \in 1..turns /\ busy /\ ~SendPending
<1>1. TurnState /\ TurnQueue /\ turn \in Nat /\ turns \in Nat
  BY TuiAssumption, TurnHalves DEF TuiInv, TuiTypeOK
<1>2. events[i].turn = turn /\ (events[i].k # "fatal" => turn > 0)
  BY <1>1 DEF TurnQueue
<1>3. turn = 0 \/ (busy /\ ~SendPending)
  BY <1>1 DEF TurnQueue
<1>4. ~SendPending => turns = turn
  <2>1. DOMAIN events # {}
    OBVIOUS
  <2>2. events # <<>>
    BY <2>1
  <2>3. ~Told
    BY <1>1, <2>2 DEF TurnQueue
  <2>. QED
    BY <1>1, <2>3 DEF TurnState
<1>. QED
  BY <1>1, <1>2, <1>3, <1>4

LEMMA TranscriptItemsStep ==
  ASSUME TuiInv, [TuiNext]_tuiVars
  PROVE  TranscriptItems'
<1>1. /\ TuiTypeOK /\ TranscriptItems /\ TranscriptText /\ turn \in Nat /\ turns \in Nat
  BY TuiAssumption, TranscriptHalves DEF TuiInv, TuiTypeOK
<1>2. ASSUME UNCHANGED <<items, turns>>, failed \subseteq failed'
      PROVE  TranscriptItems'
  BY <1>1, <1>2 DEF TranscriptItems, TranscriptInOrder
<1>3. CASE ApplyEvent
  <2>. DEFINE e == events[1]
  <2>1. /\ ui = "open" /\ 1 \in DOMAIN events /\ Head(events) = e /\ e \in Event
        /\ UNCHANGED <<turns, failed>>
    BY <1>1, <1>3, ApplyFacts, HeadFacts DEF agentVars
  <2>2. ASSUME NEW k \in {"text", "tool", "notice"}, NEW of \in SUBSET Turn, NEW note \in {"-", "persist", "error", "fatal"},
               e.k # "status", of \subseteq {turn} \cup failed, AddItem(k, of, note)
        PROVE  TranscriptItems'
    <3>. DEFINE x == [k |-> k, turn |-> e.turn, of |-> of, note |-> note]
    <3>1. items' = Append(items, x)
      BY <2>1, <2>2 DEF AddItem
    <3>2. x \in Item /\ x.turn = turn /\ x.of = of /\ x.k = k
      BY <2>1, <2>2, HeadIsOfTurn DEF Item, Event
    <3>3. turn = 0 \/ (turn = turns /\ turn \in 1..turns)
      BY <2>1, <2>2, HeadIsOfTurn
    <3>. HIDE DEF x
    <3>4. turn > 0 => \E j \in DOMAIN items : items[j].k = "user" /\ items[j].turn = turn
      BY <1>1, <3>3 DEF TranscriptItems
    <3>5. turn > 0 => \A i \in DOMAIN items : items[i].turn <= turn
      BY <1>1, <3>3 DEF TranscriptItems
    <3>6. turns' \in Nat /\ turns <= turns' /\ x.turn <= turns' /\ failed' = failed
      BY <1>1, <2>1, <3>2, <3>3
    <3>7. x.of \subseteq {x.turn} \cup failed /\ \A t \in 1..turns' : t \in 1..turns
      BY <2>1, <2>2, <3>2
    <3>. QED
      BY <3>1, <3>2, <3>4, <3>5, <3>6, <3>7, ItemsGrow
  <2>3. CASE items' = items
    BY <1>2, <2>1, <2>3
  <2>4. CASE e.k = "done" /\ AddItem("text", streaming, "-")
    <3>1. streaming \subseteq {turn} \cup failed /\ streaming \in SUBSET Turn
      BY <1>1, <2>1 DEF TranscriptText, TuiTypeOK
    <3>. QED
      BY <2>2, <2>4, <3>1
  <2>5. CASE e.k \in {"tool", "notice"} /\ AddItem(e.k, {}, e.note)
    <3>1. {} \in SUBSET Turn /\ e.note \in {"-", "persist", "error", "fatal"}
      BY <2>1 DEF Event
    <3>. QED
      BY <2>2, <2>5, <3>1
  <2>6. CASE e.k = "fatal" /\ AddItem("notice", {}, "fatal")
    <3>1. {} \in SUBSET Turn
      OBVIOUS
    <3>. QED
      BY <2>2, <2>6, <3>1
  <2>. QED
    BY <1>3, <2>1, <2>3, <2>4, <2>5, <2>6 DEF ApplyEvent
<1>4. CASE SendMessage
  <2>. DEFINE x == [k |-> "user", turn |-> turns + 1, of |-> {}, note |-> "-"]
  <2>1. turns' = turns + 1 /\ x \in Item /\ items' = Append(items, x) /\ failed' = failed
    BY <1>4, SendFacts DEF agentVars
  <2>2. x.k = "user" /\ x.turn = turns + 1 /\ x.of = {}
    OBVIOUS
  <2>. HIDE DEF x
  <2>3. \A i \in DOMAIN items : items[i].turn <= turns /\ items[i].turn \in Nat
    <3>1. \A i \in DOMAIN items : items[i] \in Item
      BY <1>1 DEF TuiTypeOK
    <3>2. \A y \in Item : y.turn \in Nat
      BY TuiAssumption DEF Item
    <3>. QED
      BY <1>1, <3>1, <3>2 DEF TranscriptItems
  <2>4. turns' \in Nat /\ turns <= turns' /\ x.turn <= turns' /\ \A i \in DOMAIN items : items[i].turn <= x.turn
    BY <1>1, <2>1, <2>2, <2>3
  <2>5. \A t \in 1..turns' : t \in 1..turns \/ (x.k = "user" /\ x.turn = t)
    BY <1>1, <2>1, <2>2
  <2>. QED
    BY <2>1, <2>2, <2>4, <2>5, ItemsGrow
<1>5. CASE Boot \/ DropInput \/ EndOfInput \/ Prepare \/ Abort \/ ReceiveCommand \/ EndTurn
  BY <1>2, <1>5 DEF Boot, DropInput, EndOfInput, Prepare, Abort, ReceiveCommand, EndTurn, uiVars
<1>6. CASE Work
  BY <1>2, <1>6, WorkFacts DEF WorkStep, uiVars
<1>7. CASE (\E a \in {"allow", "deny"} : AnswerModal(a)) \/ UNCHANGED tuiVars \/ Quit
  BY <1>2, <1>7 DEF AnswerModal, Quit, tuiVars, uiVars, agentVars
<1>8. CASE \E k \in {"model", "agent"} : Switch(k)
  BY <1>2, <1>8, SwitchFacts DEF agentVars
<1>. QED
  BY <1>3, <1>4, <1>5, <1>6, <1>7, <1>8 DEF TuiNext, AgentStep, Key, Work

LEMMA TranscriptTextStep ==
  ASSUME TuiInv, [TuiNext]_tuiVars
  PROVE  TranscriptText'
<1>1. /\ TuiTypeOK /\ TranscriptText /\ TurnState /\ TurnQueue /\ turn \in Nat /\ ui \in {"open", "closed"}
      /\ events \in Seq(Event)
  BY TuiAssumption, TranscriptHalves, TurnHalves DEF TuiInv, TuiTypeOK
<1>2. CASE ui' = "closed" /\ events' = <<>>
  <2>1. DOMAIN events' = {}
    BY <1>2
  <2>. QED
    BY <1>2, <2>1 DEF TranscriptText
<1>3. ASSUME UNCHANGED <<ui, streaming, turn>>, failed \subseteq failed', NEW K, Tells(K), "delta" \notin K, agent # "call"
      PROVE  TranscriptText'
  <2>1. /\ \A i \in DOMAIN events : i \in DOMAIN events' /\ events'[i] = events[i]
        /\ \A i \in DOMAIN events' : (i \in DOMAIN events /\ events'[i] = events[i]) \/ events'[i].k # "delta"
    BY <1>3 DEF Tells
  <2>. QED
    BY <1>1, <1>3, <2>1 DEF TranscriptText
<1>4. CASE Boot \/ Prepare
  BY <1>3, <1>4, AgentTells DEF Boot, Prepare, uiVars
<1>5. CASE Work
  <2>1. /\ Tells(WorkKinds) /\ UNCHANGED <<ui, streaming, turn>> /\ failed \subseteq failed'
        /\ \E k, id : Working(k, id) \/ events' = events
        /\ agent = "call" => agent' = "call" \/ turn \in failed' \/ \E id : Working("done", id)
    BY <1>5, AgentTells, WorkFacts DEF WorkStep, uiVars
  <2>2. CASE ui = "closed"
    BY <1>2, <2>1, <2>2 DEF Tells
  <2>3. CASE ui = "open"
    <3>1. agent = "call" => agent' = "call" \/ turn \in failed'
                            \/ \E j \in DOMAIN events' : j > Len(events) /\ events'[j].k = "done"
      <4>1. ASSUME NEW id, Working("done", id) PROVE \E j \in DOMAIN events' : j > Len(events) /\ events'[j].k = "done"
        <5>1. OneMore(Ev("done", id, "-")) /\ Ev("done", id, "-").k = "done" /\ Len(events) \in Nat
          BY <1>1, <4>1, EventIsTyped DEF Working
        <5>2. Len(events) + 1 > Len(events)
          BY <5>1
        <5>. QED
          BY <2>3, <5>1, <5>2 DEF OneMore
      <4>. QED
        BY <2>1, <4>1
    <3>2. \A i \in DOMAIN events' : events'[i].k = "delta" => i \in DOMAIN events \/ agent' = "call"
      <4>1. SUFFICES ASSUME NEW i \in DOMAIN events', events'[i].k = "delta", i \notin DOMAIN events PROVE agent' = "call"
        OBVIOUS
      <4>2. PICK k, id : Working(k, id)
        BY <2>1, <4>1
      <4>3. OneMore(Ev(k, id, "-")) /\ Ev(k, id, "-").k = k
        BY <1>1, <4>2, EventIsTyped DEF Working
      <4>4. k = "delta"
        BY <4>1, <4>3 DEF OneMore
      <4>. QED
        BY <4>2, <4>4 DEF Working
    <3>3. \A i \in DOMAIN events : i \in DOMAIN events' /\ events'[i] = events[i] /\ i <= Len(events) /\ i \in Nat /\ Len(events) \in Nat
      BY <2>1 DEF Tells
    <3>4. \A t \in streaming' \ failed' :
            t = turn /\ (agent' = "call" \/ \E j \in DOMAIN events' : events'[j].k = "done")
      BY <1>1, <2>1, <2>3, <3>1, <3>3 DEF TranscriptText
    <3>5. \A i \in DOMAIN events : \A j \in DOMAIN events' : j > Len(events) => j > i
      <4>1. \A j \in DOMAIN events' : j \in Nat
        BY <2>1 DEF Tells
      <4>. QED
        BY <3>3, <4>1
    <3>6. \A i \in DOMAIN events' : events'[i].k = "delta" =>
            turn \in failed' \/ agent' = "call" \/ \E j \in DOMAIN events' : j > i /\ events'[j].k = "done"
      <4>1. SUFFICES ASSUME NEW i \in DOMAIN events, events[i].k = "delta", turn \notin failed', agent' # "call"
                     PROVE  \E j \in DOMAIN events' : j > i /\ events'[j].k = "done"
        BY <3>2, <3>3
      <4>2. CASE agent = "call"
        BY <3>1, <3>5, <4>1, <4>2
      <4>3. CASE \E j \in DOMAIN events : j > i /\ events[j].k = "done"
        BY <3>3, <4>3
      <4>. QED
        BY <1>1, <2>1, <4>1, <4>2, <4>3 DEF TranscriptText
    <3>. QED
      BY <2>1, <3>4, <3>6 DEF TranscriptText
  <2>. QED
    BY <1>1, <2>2, <2>3
<1>6. CASE EndTurn
  BY <1>3, <1>6, EndFacts DEF uiVars
<1>7. CASE EndOfInput \/ Abort
  <2>1. ui' = "closed" /\ events' = <<>>
    BY <1>1, <1>7 DEF EndOfInput, Abort, TurnQueue, uiVars
  <2>. QED
    BY <1>2, <2>1
<1>8. CASE ReceiveCommand
  <2>1. /\ agent = "wait" /\ cmds # <<>> /\ cmds' = Tail(cmds) /\ UNCHANGED <<ui, streaming, failed>>
        /\ \/ cmds[1].k = "send" /\ agent' = "prepare" /\ UNCHANGED events
           \/ /\ cmds[1].k # "send" /\ UNCHANGED <<agent, turn>>
              /\ \E e \in Event : e.k = "status" /\ OneMore(e)
    BY <1>8, ReceiveFacts DEF uiVars
  <2>2. CASE cmds[1].k = "send" /\ agent' = "prepare" /\ UNCHANGED events
    <3>1. SendPending
      BY <2>1, <2>2, PendingFacts
    <3>2. \A i \in DOMAIN events : events[i].k \in {"status", "fatal"}
      <4>1. ui = "closed" => DOMAIN events = {}
        BY <1>1 DEF TurnQueue
      <4>. QED
        BY <1>1, <3>1, <4>1 DEF TurnQueue
    <3>3. ui = "open" => streaming \ failed = {}
      BY <1>1, <2>1, <3>2 DEF TranscriptText
    <3>. QED
      BY <2>1, <2>2, <3>2, <3>3 DEF TranscriptText
  <2>3. CASE UNCHANGED <<agent, turn>> /\ \E e \in Event : e.k = "status" /\ OneMore(e)
    <3>1. PICK e \in Event : e.k = "status" /\ OneMore(e)
      BY <2>3
    <3>2. /\ \A i \in DOMAIN events : i \in DOMAIN events' /\ events'[i] = events[i]
          /\ \A i \in DOMAIN events' : (i \in DOMAIN events /\ events'[i] = events[i]) \/ events'[i].k # "delta"
      BY <3>1 DEF OneMore
    <3>. QED
      BY <1>1, <2>1, <2>3, <3>2 DEF TranscriptText
  <2>. QED
    BY <2>1, <2>2, <2>3
<1>9. CASE ApplyEvent
  <2>1. /\ ui = "open" /\ 1 \in DOMAIN events /\ Head(events) = events[1]
        /\ UNCHANGED <<ui, turn, agent, failed>>
        /\ \A i \in DOMAIN events' : i \in Nat /\ i + 1 \in DOMAIN events /\ events'[i] = events[i + 1]
        /\ \A i \in DOMAIN events : i \in Nat /\ (i = 1 \/ (i - 1 \in DOMAIN events' /\ events'[i - 1] = events[i]))
    BY <1>1, <1>9, ApplyFacts, HeadFacts DEF agentVars
  <2>2. \A i \in DOMAIN events' : events'[i].k = "delta" =>
          turn \in failed \/ agent = "call" \/ \E j \in DOMAIN events' : j > i /\ events'[j].k = "done"
    <3>1. SUFFICES ASSUME NEW i \in DOMAIN events', events'[i].k = "delta", turn \notin failed, agent # "call"
                   PROVE  \E j \in DOMAIN events' : j > i /\ events'[j].k = "done"
      OBVIOUS
    <3>2. PICK j \in DOMAIN events : j > i + 1 /\ events[j].k = "done"
      BY <1>1, <2>1, <3>1 DEF TranscriptText
    <3>3. j # 1 /\ j - 1 > i
      BY <2>1, <3>2
    <3>. QED
      BY <2>1, <3>2, <3>3
  <2>3. ASSUME NEW t \in streaming' \ failed
        PROVE  t = turn /\ (agent = "call" \/ \E j \in DOMAIN events' : events'[j].k = "done")
    <3>1. CASE t \in streaming /\ events[1].k # "done"
      BY <1>1, <2>1, <2>3, <3>1 DEF TranscriptText
    <3>2. CASE events[1].k = "delta" /\ t = events[1].turn
      <4>1. t = turn
        BY <1>1, <2>1, <3>2 DEF TurnQueue
      <4>2. agent = "call" \/ \E j \in DOMAIN events : j > 1 /\ events[j].k = "done"
        BY <1>1, <2>1, <2>3, <3>2, <4>1 DEF TranscriptText
      <4>. QED
        BY <2>1, <4>1, <4>2
    <3>. QED
      BY <1>9, <2>1, <2>3, <3>1, <3>2 DEF ApplyEvent
  <2>. QED
    BY <2>1, <2>2, <2>3 DEF TranscriptText
<1>10. CASE (\E a \in {"allow", "deny"} : AnswerModal(a)) \/ UNCHANGED tuiVars
  <2>1. UNCHANGED <<ui, turn, agent, failed, streaming, events>>
    BY <1>10 DEF AnswerModal, tuiVars, uiVars, agentVars
  <2>. QED
    BY <1>1, <2>1 DEF TranscriptText
<1>11. CASE SendMessage \/ \E k \in {"model", "agent"} : Switch(k)
  <2>1. UNCHANGED <<turn, agent, failed, streaming>> /\ \E c \in Command : Submitted(c)
    BY <1>11, SendFacts, SwitchFacts DEF agentVars
  <2>2. CASE ui' = ui /\ events' = events
    BY <1>1, <2>1, <2>2 DEF TranscriptText
  <2>. QED
    BY <1>2, <2>1, <2>2 DEF Submitted
<1>12. CASE Quit
  BY <1>2, <1>12 DEF Quit
<1>13. CASE DropInput
  <2>1. UNCHANGED <<ui, turn, failed, streaming, events>> /\ agent # "call"
    BY <1>13 DEF DropInput, uiVars
  <2>. QED
    BY <1>1, <2>1 DEF TranscriptText
<1>. QED
  BY <1>4, <1>5, <1>6, <1>7, <1>8, <1>9, <1>10, <1>11, <1>12, <1>13 DEF TuiNext, AgentStep, Key, Work

LEMMA TranscriptStep == TuiInv /\ [TuiNext]_tuiVars => TranscriptInv'
  BY TranscriptItemsStep, TranscriptTextStep, TranscriptHalves

\* What the transcript and the event store have, they keep.
LEMMA TranscriptGrows ==
  ASSUME TuiInv, [TuiNext]_tuiVars
  PROVE  /\ persisted \subseteq persisted'
         /\ \A i \in DOMAIN items : i \in DOMAIN items' /\ items'[i] = items[i]
<1>1. items \in Seq(Item) /\ TuiTypeOK
  BY DEF TuiInv, TuiTypeOK
<1>2. CASE ApplyEvent
  <2>1. persisted' = persisted
    BY <1>2, ApplyFacts DEF agentVars
  <2>2. items' = items \/ \E k, of, note : AddItem(k, of, note)
    BY <1>2, Zenon DEF ApplyEvent
  <2>3. \A x : items' = Append(items, x) => \A i \in DOMAIN items : i \in DOMAIN items' /\ items'[i] = items[i]
    BY <1>1
  <2>. QED
    BY <2>1, <2>2, <2>3 DEF AddItem
<1>3. CASE SendMessage
  <2>1. persisted' = persisted /\ \E x \in Item : items' = Append(items, x)
    BY <1>3, SendFacts DEF agentVars
  <2>. QED
    BY <1>1, <2>1, AppendLooksUp
<1>4. CASE Boot \/ DropInput \/ EndOfInput \/ Prepare \/ Abort \/ ReceiveCommand \/ EndTurn
  BY <1>4 DEF Boot, DropInput, EndOfInput, Prepare, Abort, ReceiveCommand, EndTurn, uiVars
<1>5. CASE Work
  BY <1>5, WorkFacts DEF WorkStep, uiVars
<1>6. CASE (\E a \in {"allow", "deny"} : AnswerModal(a)) \/ UNCHANGED tuiVars \/ Quit
  BY <1>6 DEF AnswerModal, Quit, tuiVars, uiVars, agentVars
<1>7. CASE \E k \in {"model", "agent"} : Switch(k)
  BY <1>7, SwitchFacts DEF agentVars
<1>. QED
  BY <1>2, <1>3, <1>4, <1>5, <1>6, <1>7 DEF TuiNext, AgentStep, Key, Work

NoticeUnderWay(i) == \E j \in DOMAIN events : j < i /\ events[j].k = "notice" /\ events[j].note = "persist"

LEMMA LossStep ==
  ASSUME TuiInv, [TuiNext]_tuiVars
  PROVE  LossInv'
<1>1. /\ TuiTypeOK /\ LossInv /\ TurnState /\ TurnQueue /\ turn \in Nat /\ turns \in Nat /\ ui \in {"open", "closed"}
      /\ events \in Seq(Event) /\ items \in Seq(Item)
  BY TuiAssumption, TurnHalves DEF TuiInv, TuiTypeOK
<1>2. /\ persisted \subseteq persisted'
      /\ \A i \in DOMAIN items : i \in DOMAIN items' /\ items'[i] = items[i]
  BY TranscriptGrows
<1>3. \A t : IsShown(t) => IsShown(t)'
  BY <1>2 DEF IsShown
<1>4. \A t \in 1..turns : ui = "open" /\ (t < turns \/ ~busy) => IsShown(t)
  BY <1>1 DEF LossInv, LossIsShown, IsShown
<1>5. CASE ui' = "closed" /\ events' = <<>>
  <2>1. DOMAIN events' = {}
    BY <1>5
  <2>. QED
    BY <1>5, <2>1 DEF LossInv, LossIsShown
\* Nothing new is claimed to be over.
<1>6. ASSUME UNCHANGED <<ui, turns>>, busy' = busy PROVE LossIsShown'
  BY <1>3, <1>4, <1>6 DEF LossIsShown, IsShown
<1>7. ASSUME UNCHANGED turn, \A i \in DOMAIN events : i \in DOMAIN events' /\ events'[i] = events[i],
             \A i \in DOMAIN events' : (i \in DOMAIN events /\ events'[i] = events[i]) \/ events'[i].k # "idle"
      PROVE  \A i \in DOMAIN events' : events'[i].k = "idle" => IsShown(turn)' \/ NoticeUnderWay(i)'
  <2>1. \A i \in DOMAIN events : events[i].k = "idle" => IsShown(turn) \/ NoticeUnderWay(i)
    BY <1>1 DEF LossInv, NoticeUnderWay
  <2>2. IsShown(turn) => IsShown(turn)'
    BY <1>2, <1>7 DEF IsShown
  <2>3. \A i \in DOMAIN events : NoticeUnderWay(i) => NoticeUnderWay(i)'
    BY <1>7 DEF NoticeUnderWay
  <2>. QED
    BY <1>7, <2>1, <2>2, <2>3
<1>8. ASSUME LossIsShown', \A i \in DOMAIN events' : events'[i].k = "idle" => IsShown(turn)' \/ NoticeUnderWay(i)'
      PROVE  LossInv'
  BY <1>8 DEF LossInv, NoticeUnderWay
<1>9. ASSUME NEW K, Tells(K), "idle" \notin K
      PROVE  /\ \A i \in DOMAIN events : i \in DOMAIN events' /\ events'[i] = events[i]
             /\ \A i \in DOMAIN events' : (i \in DOMAIN events /\ events'[i] = events[i]) \/ events'[i].k # "idle"
  BY <1>9 DEF Tells
<1>10. CASE Boot \/ Prepare
  <2>1. Tells({"fatal"}) /\ UNCHANGED <<ui, turns, turn>> /\ busy' = busy
    BY <1>10, AgentTells DEF Boot, Prepare, uiVars
  <2>. QED
    BY <1>6, <1>7, <1>8, <1>9, <2>1
<1>11. CASE Work
  <2>1. Tells(WorkKinds) /\ UNCHANGED <<ui, turns, turn>> /\ busy' = busy /\ "idle" \notin WorkKinds
    BY <1>11, AgentTells, WorkFacts DEF WorkStep, uiVars, WorkKinds
  <2>. QED
    BY <1>6, <1>7, <1>8, <1>9, <2>1
<1>12. CASE EndTurn
  <2>1. /\ Tells({"notice", "idle"}) /\ UNCHANGED <<ui, turns, turn>> /\ busy' = busy
        /\ \A i \in DOMAIN events' : i > Len(events) /\ events'[i].k = "idle" => i = Len(events')
        /\ \/ persisted' = persisted \cup {turn}
           \/ ui = "open" => \E i \in DOMAIN events' : /\ i = Len(events) + 1 /\ i < Len(events')
                                                       /\ events'[i].k = "notice" /\ events'[i].note = "persist"
    BY <1>12, EndFacts DEF uiVars
  <2>2. LossIsShown'
    BY <1>6, <2>1
  <2>3. CASE turn \in persisted'
    <3>1. IsShown(turn)'
      BY <2>1, <2>3 DEF IsShown
    <3>. QED
      BY <1>8, <2>2, <3>1
  <2>4. CASE turn \notin persisted'
    <3>1. SUFFICES ASSUME NEW i \in DOMAIN events', events'[i].k = "idle" PROVE IsShown(turn)' \/ NoticeUnderWay(i)'
      BY <1>8, <2>2
    <3>2. CASE i \in DOMAIN events /\ events'[i] = events[i]
      <4>1. IsShown(turn) \/ NoticeUnderWay(i)
        BY <1>1, <3>1, <3>2 DEF LossInv, NoticeUnderWay
      <4>2. IsShown(turn) => IsShown(turn)'
        BY <1>2, <2>1 DEF IsShown
      <4>3. NoticeUnderWay(i) => NoticeUnderWay(i)'
        BY <2>1 DEF NoticeUnderWay, Tells
      <4>. QED
        BY <4>1, <4>2, <4>3
    <3>3. CASE i > Len(events) /\ ui = "open"
      <4>1. i = Len(events')
        BY <2>1, <3>1, <3>3
      <4>. QED
        BY <2>1, <2>4, <3>3, <4>1 DEF NoticeUnderWay
    <3>. QED
      BY <2>1, <3>2, <3>3 DEF Tells
  <2>. QED
    BY <2>3, <2>4
<1>13. CASE EndOfInput \/ Abort
  <2>1. ui' = "closed" /\ events' = <<>>
    BY <1>1, <1>13 DEF EndOfInput, Abort, TurnQueue, uiVars
  <2>. QED
    BY <1>5, <2>1
<1>14. CASE ReceiveCommand
  <2>1. /\ agent = "wait" /\ cmds # <<>> /\ cmds' = Tail(cmds) /\ UNCHANGED <<ui, turns>> /\ busy' = busy
        /\ \/ cmds[1].k = "send" /\ UNCHANGED events
           \/ /\ UNCHANGED turn
              /\ \E e \in Event : e.k = "status" /\ OneMore(e)
    BY <1>14, ReceiveFacts DEF uiVars
  <2>2. CASE cmds[1].k = "send" /\ UNCHANGED events
    <3>1. SendPending
      BY <2>1, <2>2, PendingFacts
    <3>2. \A i \in DOMAIN events : events[i].k # "idle"
      <4>1. ui = "closed" => DOMAIN events = {}
        BY <1>1 DEF TurnQueue
      <4>. QED
        BY <1>1, <3>1, <4>1 DEF TurnQueue
    <3>. QED
      BY <1>6, <1>8, <2>1, <2>2, <3>2
  <2>3. CASE UNCHANGED turn /\ \E e \in Event : e.k = "status" /\ OneMore(e)
    <3>1. PICK e \in Event : e.k = "status" /\ OneMore(e)
      BY <2>3
    <3>2. /\ \A i \in DOMAIN events : i \in DOMAIN events' /\ events'[i] = events[i]
          /\ \A i \in DOMAIN events' : (i \in DOMAIN events /\ events'[i] = events[i]) \/ events'[i].k # "idle"
      BY <3>1 DEF OneMore
    <3>. QED
      BY <1>6, <1>7, <1>8, <2>1, <2>3, <3>2
  <2>. QED
    BY <2>1, <2>2, <2>3
<1>15. CASE ApplyEvent
  <2>1. /\ ui = "open" /\ 1 \in DOMAIN events /\ Head(events) = events[1] /\ events[1] \in Event
        /\ UNCHANGED <<ui, turns, turn>>
        /\ \A i \in DOMAIN events' : i \in Nat /\ i + 1 \in DOMAIN events /\ events'[i] = events[i + 1]
        /\ \A i \in DOMAIN events : i \in Nat /\ (i = 1 \/ (i - 1 \in DOMAIN events' /\ events'[i - 1] = events[i]))
    BY <1>1, <1>15, ApplyFacts, HeadFacts DEF agentVars
  <2>2. ASSUME NEW note, AddItem("notice", {}, note)
        PROVE  \E i \in DOMAIN items' : items'[i].note = note /\ items'[i].turn = events[1].turn
    <3>. DEFINE x == [k |-> "notice", turn |-> events[1].turn, of |-> {}, note |-> note]
    <3>1. items' = Append(items, x)
      BY <2>1, <2>2 DEF AddItem
    <3>2. x.note = note /\ x.turn = events[1].turn
      OBVIOUS
    <3>. HIDE DEF x
    <3>3. Len(items) + 1 \in DOMAIN items' /\ items'[Len(items) + 1] = x
      BY <1>1, <3>1
    <3>. QED
      BY <3>2, <3>3
  <2>3. \A i \in DOMAIN events' : events'[i].k = "idle" => IsShown(turn)' \/ NoticeUnderWay(i)'
    <3>1. SUFFICES ASSUME NEW i \in DOMAIN events', events'[i].k = "idle" PROVE IsShown(turn)' \/ NoticeUnderWay(i)'
      OBVIOUS
    <3>2. i + 1 \in DOMAIN events /\ events[i + 1].k = "idle" /\ i \in Nat
      BY <2>1, <3>1
    <3>3. CASE IsShown(turn)
      BY <1>2, <2>1, <3>3 DEF IsShown
    <3>4. CASE NoticeUnderWay(i + 1)
      <4>1. PICK j \in DOMAIN events : j < i + 1 /\ events[j].k = "notice" /\ events[j].note = "persist"
        BY <3>4 DEF NoticeUnderWay
      <4>2. CASE j = 1
        <5>1. AddItem("notice", {}, "persist") /\ events[1].turn = turn
          BY <1>1, <1>15, <2>1, <4>1, <4>2 DEF ApplyEvent, TurnQueue
        <5>2. \E n \in DOMAIN items' : items'[n].note = "persist" /\ items'[n].turn = turn
          BY <2>2, <5>1
        <5>. QED
          BY <2>1, <5>2 DEF IsShown
      <4>3. CASE j # 1
        <5>1. j - 1 \in DOMAIN events' /\ events'[j - 1] = events[j] /\ j - 1 < i
          BY <2>1, <3>2, <4>1, <4>3
        <5>. QED
          BY <4>1, <5>1 DEF NoticeUnderWay
      <4>. QED
        BY <4>2, <4>3
    <3>. QED
      BY <1>1, <3>2, <3>3, <3>4 DEF LossInv, NoticeUnderWay
  <2>4. LossIsShown'
    <3>1. CASE busy' = busy
      BY <1>6, <2>1, <3>1
    <3>2. CASE events[1].k = "idle"
      <4>1. IsShown(turn)
        BY <1>1, <2>1, <3>2 DEF LossInv
      <4>2. turn = turns
        BY <2>1, <3>2, HeadIsOfTurn
      <4>3. \A t \in 1..turns : t < turns \/ t = turns
        BY <1>1
      <4>4. \A t \in 1..turns : IsShown(t)
        BY <1>4, <2>1, <4>1, <4>2, <4>3
      <4>. QED
        BY <1>3, <2>1, <4>4 DEF LossIsShown, IsShown
    <3>3. CASE events[1].k = "fatal"
      <4>1. AddItem("notice", {}, "fatal")
        BY <1>15, <2>1, <3>3 DEF ApplyEvent
      <4>2. \E n \in DOMAIN items' : items'[n].note = "fatal"
        BY <2>2, <4>1
      <4>. QED
        BY <4>2 DEF LossIsShown
    <3>. QED
      BY <1>15, <2>1, <3>1, <3>2, <3>3 DEF ApplyEvent
  <2>. QED
    BY <1>8, <2>3, <2>4
<1>16. CASE (\E a \in {"allow", "deny"} : AnswerModal(a)) \/ UNCHANGED tuiVars
  <2>1. UNCHANGED <<ui, turn, turns, events>> /\ busy' = busy
    BY <1>16 DEF AnswerModal, tuiVars, uiVars, agentVars
  <2>. QED
    BY <1>6, <1>7, <1>8, <2>1
<1>17. CASE \E k \in {"model", "agent"} : Switch(k)
  <2>1. UNCHANGED <<turn, turns>> /\ busy' = busy /\ \E c \in Command : Submitted(c)
    BY <1>17, SwitchFacts DEF agentVars
  <2>2. CASE ui' = ui /\ events' = events
    BY <1>6, <1>7, <1>8, <2>1, <2>2
  <2>. QED
    BY <1>5, <2>1, <2>2 DEF Submitted
<1>18. CASE SendMessage
  <2>1. UNCHANGED turn /\ turns' = turns + 1 /\ ui = "open" /\ busy = FALSE /\ busy' = TRUE /\ \E c \in Command : Submitted(c)
    BY <1>18, SendFacts DEF agentVars
  <2>2. LossIsShown'
    <3>1. \A t \in 1..turns : IsShown(t)
      BY <1>4, <2>1
    <3>2. \A t \in 1..turns' : t < turns' => t \in 1..turns
      BY <1>1, <2>1
    <3>. QED
      BY <1>3, <2>1, <3>1, <3>2 DEF LossIsShown, IsShown
  <2>3. CASE events' = events
    BY <1>7, <1>8, <2>1, <2>2, <2>3
  <2>. QED
    BY <1>5, <2>1, <2>3 DEF Submitted
<1>19. CASE Quit
  BY <1>5, <1>19 DEF Quit
<1>20. CASE DropInput
  <2>1. UNCHANGED <<ui, turns, turn, events>> /\ busy' = busy
    BY <1>20 DEF DropInput, uiVars
  <2>. QED
    BY <1>6, <1>7, <1>8, <2>1
<1>. QED
  BY <1>10, <1>11, <1>12, <1>13, <1>14, <1>15, <1>16, <1>17, <1>18, <1>19, <1>20 DEF TuiNext, AgentStep, Key, Work

\* What becomes of a request: nothing, it is asked, answered, or settled.
Undisturbed ==
  /\ UNCHANGED <<asked, reply, verdict, answers>>
  /\ agent' = agent \/ (agent # "ask" /\ agent' # "ask")

Asked ==
  /\ agent = "tools" /\ agent' = "ask" /\ asked' = asked + 1 /\ asked + 1 \in RequestId /\ ui = "open"
  /\ UNCHANGED <<ui, modal, reply, verdict, answers>> /\ OneMore(Ev("ask", asked + 1, "-"))

Settled ==
  /\ agent = "ask" /\ agent' # "ask" /\ UNCHANGED <<ui, modal, reply, asked>>
  /\ answers # <<>> \/ ui = "closed"
  /\ answers' = <<>> /\ asked \in RequestId
  /\ \E a \in {"allow", "deny"} : /\ verdict' = [verdict EXCEPT ![asked] = a]
                                  /\ a = "allow" => reply[asked] = "allow"

Answered ==
  /\ ui = "open" /\ modal # 0 /\ modal' = 0 /\ agent = "ask" /\ asked \in RequestId /\ modal = asked
  /\ reply[asked] = "none"
  /\ \E a \in {"allow", "deny"} : answers' = <<a>> /\ reply' = [reply EXCEPT ![asked] = a]
  /\ UNCHANGED <<ui, agent, asked, verdict, events>>

LEMMA AskedIsRequest == TuiInv /\ agent = "ask" => asked \in RequestId
<1>1. TuiInv => asked \in 0..MaxAsks /\ (agent = "ask" => asked > 0)
  BY DEF TuiInv, TuiTypeOK, ModalInv
<1>. QED
  BY <1>1, TuiAssumption DEF RequestId

LEMMA WorkAsks ==
  ASSUME TuiInv, Work
  PROVE  \/ Undisturbed /\ Tells({"delta", "done", "tool"}) /\ UNCHANGED <<ui, modal>> /\ agent # "ask"
         \/ Asked
         \/ Settled /\ Tells({"tool"})
<1>1. WorkStep /\ UNCHANGED <<ui, modal, reply>> /\ TuiTypeOK /\ ModalInv
  BY WorkFacts DEF WorkStep, uiVars, TuiInv
<1>2. 0 \in 0..MaxAsks
  BY TuiAssumption
<1>3. \A k, id : Working(k, id) => /\ OneMore(Ev(k, id, "-")) /\ Ev(k, id, "-").k = k /\ Ev(k, id, "-").turn = turn
                                   /\ Ev(k, id, "-") \in Event
  BY <1>1, EventIsTyped DEF Working
<1>4. ASSUME agent' # "ask" PROVE Tells({"delta", "done", "tool"})
  <2>1. CASE events' = events
    BY <2>1, TellsNothing
  <2>2. CASE \E k, id : Working(k, id)
    <3>1. PICK k, id : Working(k, id)
      BY <2>2
    <3>2. k \in {"delta", "done", "tool"}
      BY <1>4, <3>1 DEF Working
    <3>. QED
      BY <1>3, <3>1, <3>2, TellsOne
  <2>. QED
    BY <1>1, <2>1, <2>2 DEF WorkStep
<1>5. CASE agent # "ask" /\ agent' # "ask"
  <2>1. Undisturbed
    BY <1>1, <1>5 DEF WorkStep, Undisturbed
  <2>. QED
    BY <1>1, <1>4, <1>5, <2>1
<1>6. CASE agent' = "ask"
  <2>1. PICK k, id : Working(k, id)
    BY <1>1, <1>6 DEF WorkStep
  <2>2. asked' # asked /\ agent # "ask"
    BY <1>1, <1>6 DEF WorkStep
  <2>3. RunTool
    BY <1>6, <2>2, NextCallFacts, <1>1 DEF Work, Generate, ReceiveAnswer
  <2>4. /\ agent = "tools" /\ asked < MaxAsks /\ ui = "open" /\ asked' = asked + 1
        /\ Emit(<<Ev("ask", asked + 1, "-")>>) /\ UNCHANGED <<answers, verdict>>
    BY <2>2, <2>3 DEF RunTool
  <2>5. asked + 1 \in RequestId /\ asked + 1 \in 0..MaxAsks
    BY <1>1, <2>4, TuiAssumption DEF TuiTypeOK, RequestId
  <2>6. OneMore(Ev("ask", asked + 1, "-"))
    <3>1. Ev("ask", asked + 1, "-") \in Event
      BY <1>1, <2>5, EventIsTyped
    <3>. QED
      BY <1>1, <2>4, <3>1, EmitOne DEF TuiInv, TurnInv
  <2>. QED
    BY <1>1, <1>6, <2>4, <2>5, <2>6 DEF Asked
<1>7. CASE agent = "ask"
  <2>1. ReceiveAnswer /\ agent' # "ask" /\ asked' = asked /\ asked \in RequestId
    BY <1>1, <1>7, AskedIsRequest DEF Work, Generate, RunTool, WorkStep, ReceiveAnswer
  <2>2. Emit(<<Plain("tool")>>)
    BY <2>1 DEF ReceiveAnswer
  <2>3. Tells({"tool"})
    <3>1. Plain("tool") \in Event /\ Plain("tool").k = "tool" /\ Plain("tool").turn = turn
      BY <1>1, PlainIsTyped
    <3>. QED
      BY <1>1, <2>2, <3>1, EmitOne, TellsOne DEF TuiInv, TurnInv
  <2>4. Settled
    <3>1. CASE answers # <<>> /\ answers' = Tail(answers) /\ verdict' = [verdict EXCEPT ![asked] = Head(answers)]
      <4>1. answers = <<reply[asked]>>
        BY <1>1, <3>1 DEF ModalInv
      <4>2. Tail(answers) = <<>> /\ Head(answers) = reply[asked]
        BY <4>1
      <4>3. Head(answers) \in {"allow", "deny"}
        BY <1>1, <3>1, TailFacts DEF TuiTypeOK
      <4>. QED
        BY <1>1, <1>7, <2>1, <3>1, <4>2, <4>3 DEF Settled
    <3>2. CASE Disconnected /\ verdict' = [verdict EXCEPT ![asked] = "deny"] /\ UNCHANGED answers
      BY <1>1, <1>7, <2>1, <3>2 DEF Settled, Disconnected
    <3>. QED
      BY <2>1, <3>1, <3>2 DEF ReceiveAnswer
  <2>. QED
    BY <2>3, <2>4
<1>. QED
  BY <1>5, <1>6, <1>7

LEMMA AnswerFacts ==
  ASSUME TuiInv, NEW a \in {"allow", "deny"}, AnswerModal(a)
  PROVE  Answered
<1>1. /\ ui = "open" /\ modal # 0 /\ modal' = 0 /\ answers' = Append(answers, a) /\ reply' = [reply EXCEPT ![modal] = a]
      /\ UNCHANGED <<ui, agentVars, events>>
  BY DEF AnswerModal, ModalAfterKey
<1>2. Unanswered /\ modal = asked
  BY <1>1 DEF TuiInv, ModalInv
<1>3. answers' = <<a>>
  BY <1>1, <1>2 DEF Unanswered
<1>. QED
  BY <1>1, <1>2, <1>3, AskedIsRequest DEF Answered, Unanswered, agentVars

\* Every other action leaves the requests alone.
LEMMA RequestSteps ==
  ASSUME TuiInv, [TuiNext]_tuiVars
  PROVE  Undisturbed \/ Asked \/ Settled \/ Answered
<1>1. CASE Boot \/ DropInput \/ EndOfInput \/ Prepare \/ Abort \/ ReceiveCommand \/ EndTurn
  BY <1>1 DEF Boot, DropInput, EndOfInput, Prepare, Abort, ReceiveCommand, EndTurn, uiVars, Undisturbed
<1>2. CASE Work
  BY <1>2, WorkAsks
<1>3. CASE ApplyEvent
  BY <1>3, ApplyFacts DEF agentVars, Undisturbed
<1>4. CASE \E a \in {"allow", "deny"} : AnswerModal(a)
  BY <1>4, AnswerFacts
<1>5. CASE SendMessage
  BY <1>5, SendFacts DEF agentVars, Undisturbed
<1>6. CASE \E k \in {"model", "agent"} : Switch(k)
  BY <1>6, SwitchFacts DEF agentVars, Undisturbed
<1>7. CASE Quit \/ UNCHANGED tuiVars
  BY <1>7 DEF Quit, tuiVars, uiVars, agentVars, Undisturbed
<1>. QED
  BY <1>1, <1>2, <1>3, <1>4, <1>5, <1>6, <1>7 DEF TuiNext, AgentStep, Key, Work

LEMMA ModalStep ==
  ASSUME TuiInv, [TuiNext]_tuiVars
  PROVE  ModalInv'
<1>1. /\ TuiTypeOK /\ ModalInv /\ TurnQueue /\ ui \in {"open", "closed"} /\ asked \in Nat
      /\ events \in Seq(Event)
  BY TuiAssumption, TurnHalves DEF TuiInv, TuiTypeOK
\* Nobody asks, neither before nor after.
<1>2. ASSUME Undisturbed, UNCHANGED <<ui, modal>>, agent # "ask",
             NEW K, Tells(K), "ask" \notin K
      PROVE  ModalInv'
  <2>1. agent' # "ask"
    BY <1>2 DEF Undisturbed
  <2>2. \A i \in DOMAIN events : events[i].k # "ask"
    BY <1>1, <1>2 DEF ModalInv, Unanswered
  <2>3. \A i \in DOMAIN events' : events'[i].k # "ask"
    BY <1>2, <2>2 DEF Tells
  <2>4. answers' = <<>> /\ (ui' = "open" => modal' = 0)
    BY <1>1, <1>2 DEF ModalInv, Undisturbed, Unanswered
  <2>5. \A i \in RequestId : i > asked' => verdict'[i] = "none" /\ reply'[i] = "none"
    BY <1>1, <1>2 DEF ModalInv, Undisturbed
  <2>. QED
    BY <2>1, <2>3, <2>4, <2>5 DEF ModalInv
\* The requests and the modal stay; the events stay or are dropped with the interface.
<1>3. ASSUME Undisturbed, UNCHANGED <<modal, agent>>, (ui' = ui /\ events' = events) \/ (ui' = "closed" /\ events' = <<>>)
      PROVE  ModalInv'
  <2>1. Unanswered' <=> Unanswered
    BY <1>3 DEF Undisturbed, Unanswered
  <2>2. ui' = "open" /\ modal' # 0 => Unanswered' /\ modal' = asked'
    BY <1>1, <1>3, <2>1 DEF ModalInv, Undisturbed
  <2>3. \A i \in DOMAIN events' : events'[i].k = "ask" =>
          /\ Unanswered' /\ modal' = 0 /\ events'[i].id = asked'
          /\ \A j \in DOMAIN events' : events'[j].k = "ask" => j = i
    <3>1. CASE events' = events
      BY <1>1, <1>3, <2>1, <3>1 DEF ModalInv, Undisturbed
    <3>2. CASE events' = <<>>
      <4>1. DOMAIN events' = {}
        BY <3>2
      <4>. QED
        BY <4>1
    <3>. QED
      BY <1>3, <3>1, <3>2
  <2>4. /\ answers' # <<>> => agent' = "ask" /\ answers' = <<reply'[asked']>>
        /\ agent' = "ask" => asked' > 0
        /\ \A i \in RequestId : i > asked' => verdict'[i] = "none" /\ reply'[i] = "none"
    BY <1>1, <1>3 DEF ModalInv, Undisturbed
  <2>. QED
    BY <2>2, <2>3, <2>4 DEF ModalInv
<1>4. CASE Boot \/ DropInput \/ EndOfInput \/ Prepare \/ Abort \/ EndTurn
  <2>1. Undisturbed /\ UNCHANGED <<ui, modal>> /\ agent # "ask"
    BY <1>4 DEF Boot, DropInput, EndOfInput, Prepare, Abort, EndTurn, uiVars, Undisturbed
  <2>2. Tells({"fatal"}) \/ Tells({"notice", "idle"}) \/ Tells({})
    BY <1>4, AgentTells
  <2>. QED
    BY <1>2, <2>1, <2>2
<1>5. CASE ReceiveCommand
  <2>1. /\ Undisturbed /\ UNCHANGED <<ui, modal>> /\ agent # "ask" /\ agent' # "ask"
        /\ events' = events \/ \E e \in Event : e.k = "status" /\ OneMore(e)
    BY <1>5, ReceiveFacts DEF uiVars, Undisturbed
  <2>2. \A i \in DOMAIN events : events[i].k # "ask"
    BY <1>1, <2>1 DEF ModalInv, Unanswered
  <2>3. \A i \in DOMAIN events' : events'[i].k # "ask"
    BY <2>1, <2>2 DEF OneMore
  <2>4. answers' = <<>> /\ (ui' = "open" => modal' = 0)
    BY <1>1, <2>1 DEF ModalInv, Undisturbed, Unanswered
  <2>5. \A i \in RequestId : i > asked' => verdict'[i] = "none" /\ reply'[i] = "none"
    BY <1>1, <2>1 DEF ModalInv, Undisturbed
  <2>. QED
    BY <2>1, <2>3, <2>4, <2>5 DEF ModalInv
<1>6. CASE Asked
  <2>1. Ev("ask", asked + 1, "-").k = "ask" /\ Ev("ask", asked + 1, "-").id = asked + 1
    BY DEF Ev
  <2>2. \A i \in DOMAIN events : events[i].k # "ask"
    BY <1>1, <1>6 DEF ModalInv, Unanswered, Asked
  <2>3. answers = <<>> /\ modal = 0 /\ asked + 1 > asked /\ asked + 1 > 0 /\ reply[asked + 1] = "none"
    BY <1>1, <1>6 DEF ModalInv, Unanswered, Asked
  <2>4. Unanswered' /\ modal' = 0
    BY <1>6, <2>3 DEF Asked, Unanswered
  <2>5. \A i \in DOMAIN events' : events'[i].k = "ask" => i = Len(events) + 1 /\ events'[i].id = asked'
    BY <1>6, <2>1, <2>2 DEF Asked, OneMore
  <2>6. \A i \in RequestId : i > asked' => i > asked
    BY <1>1, <1>6, TuiAssumption DEF Asked, RequestId
  <2>. QED
    BY <1>1, <1>6, <2>3, <2>4, <2>5, <2>6 DEF Asked, ModalInv
<1>7. CASE Settled /\ Tells({"tool"})
  <2>1. ui = "closed" => events' = <<>>
    BY <1>7 DEF Tells
  <2>2. \A i \in DOMAIN events' : events'[i].k # "ask"
    <3>1. CASE ui = "closed"
      BY <2>1, <3>1
    <3>2. CASE ui = "open"
      <4>1. \A i \in DOMAIN events : events[i].k # "ask"
        BY <1>1, <1>7, <3>2 DEF Settled, ModalInv, Unanswered
      <4>. QED
        BY <1>7, <4>1 DEF Tells
    <3>. QED
      BY <1>1, <3>1, <3>2
  <2>3. ui = "open" => modal = 0
    BY <1>1, <1>7 DEF Settled, ModalInv, Unanswered
  <2>4. \A i \in RequestId : i > asked => verdict'[i] = "none"
    <3>1. \A i \in RequestId : i > asked => i # asked
      BY <1>1
    <3>. QED
      BY <1>1, <1>7, <3>1 DEF Settled, ModalInv, TuiTypeOK
  <2>. QED
    BY <1>1, <1>7, <2>2, <2>3, <2>4 DEF Settled, ModalInv
<1>8. CASE Work
  BY <1>2, <1>6, <1>7, <1>8, WorkAsks
<1>9. CASE ApplyEvent
  <2>1. /\ ui = "open" /\ 1 \in DOMAIN events /\ Head(events) = events[1]
        /\ UNCHANGED <<ui, reply, verdict, answers, agent, asked>>
        /\ \A i \in DOMAIN events' : i \in Nat /\ i + 1 \in DOMAIN events /\ events'[i] = events[i + 1]
    BY <1>1, <1>9, ApplyFacts, HeadFacts DEF agentVars
  <2>2. Unanswered' <=> Unanswered
    BY <2>1 DEF Unanswered
  <2>3. \A i, j \in DOMAIN events' : i + 1 = j + 1 => i = j
    BY <2>1
  <2>4. CASE events[1].k = "ask"
    <3>1. modal' = asked /\ Unanswered
      BY <1>1, <1>9, <2>1, <2>4 DEF ApplyEvent, ModalInv
    <3>2. \A i \in DOMAIN events' : events'[i].k # "ask"
      <4>1. \A i \in DOMAIN events' : i + 1 # 1
        BY <1>1, <1>9, ApplyFacts, HeadFacts
      <4>. QED
        BY <1>1, <2>1, <2>4, <4>1 DEF ModalInv
    <3>. QED
      BY <1>1, <2>1, <2>2, <3>1, <3>2 DEF ModalInv
  <2>5. CASE modal' = modal
    BY <1>1, <2>1, <2>2, <2>3, <2>5 DEF ModalInv
  <2>. QED
    BY <1>9, <2>1, <2>4, <2>5 DEF ApplyEvent
<1>10. CASE Answered
  <2>1. \A i \in DOMAIN events : events[i].k # "ask"
    BY <1>1, <1>10 DEF Answered, ModalInv
  <2>2. \A i \in RequestId : i > asked => reply'[i] = "none"
    <3>1. \A i \in RequestId : i > asked => i # asked
      BY <1>1
    <3>. QED
      BY <1>1, <1>10, <3>1 DEF Answered, ModalInv, TuiTypeOK
  <2>3. answers' = <<reply'[asked]>>
    BY <1>1, <1>10 DEF Answered, TuiTypeOK
  <2>. QED
    BY <1>1, <1>10, <2>1, <2>2, <2>3 DEF Answered, ModalInv
<1>11. CASE \E a \in {"allow", "deny"} : AnswerModal(a)
  BY <1>10, <1>11, AnswerFacts
<1>12. CASE SendMessage
  BY <1>3, <1>12, SendFacts DEF agentVars, Undisturbed, Submitted
<1>13. CASE \E k \in {"model", "agent"} : Switch(k)
  <2>1. Undisturbed /\ UNCHANGED <<modal, agent>> /\ \E c \in Command : Submitted(c)
    BY <1>13, SwitchFacts DEF agentVars, Undisturbed
  <2>. QED
    BY <1>3, <2>1 DEF Submitted
<1>14. CASE Quit \/ UNCHANGED tuiVars
  BY <1>3, <1>14 DEF Quit, tuiVars, uiVars, agentVars, Undisturbed
<1>. QED
  BY <1>4, <1>5, <1>8, <1>9, <1>11, <1>12, <1>13, <1>14 DEF TuiNext, AgentStep, Key, Work

LEMMA TuiStaysTrue == TuiInv /\ [TuiNext]_tuiVars => TuiInv'
<1>. SUFFICES ASSUME TuiInv, [TuiNext]_tuiVars PROVE TuiInv'
  OBVIOUS
<1>. QED
  BY TypeStep, SelectionStep, StatusStep, TurnStep, TranscriptStep, LossStep, ModalStep DEF TuiInv

LEMMA TuiInvIsEnough ==
  TuiInv => TuiTypeOK /\ TurnUsesSelection /\ StatusCatchesUp /\ TranscriptInOrder /\ LossIsShown
  BY DEF TuiInv, SelectionInv, StatusInv, TranscriptInv, LossInv

LEMMA ContractStarts == TuiInit => Contract!Init
  BY DEF TuiInit, Contract!Init

\* A step of the interface and its task is a step of the permission contract or none.
LEMMA ContractStep == TuiInv /\ [TuiNext]_tuiVars => [Contract!Next]_Contract!vars
<1>. DEFINE open == [s \in {1} |-> IF agent = "ask" THEN {asked} ELSE {}]
<1>. SUFFICES ASSUME TuiInv, [TuiNext]_tuiVars PROVE [Contract!Next]_Contract!vars
  OBVIOUS
<1>1. Undisturbed \/ Asked \/ Settled \/ Answered
  BY RequestSteps
<1>2. /\ ModalInv /\ TuiTypeOK /\ asked \in Nat
  BY TuiAssumption DEF TuiInv, TuiTypeOK
<1>3. CASE Undisturbed
  BY <1>3 DEF Undisturbed, Contract!vars
<1>4. CASE Asked
  <2>1. agent # "ask" /\ agent' = "ask" /\ asked' = asked + 1 /\ asked + 1 \in RequestId /\ UNCHANGED <<reply, verdict>>
    BY <1>4 DEF Asked
  <2>2. verdict[asked + 1] = "none"
    BY <1>2, <2>1 DEF ModalInv
  <2>3. Contract!Ask(1, asked + 1)
    BY <2>1, <2>2 DEF Contract!Ask
  <2>. QED
    BY <2>1, <2>3 DEF Contract!Next
<1>5. CASE Settled
  <2>1. /\ agent = "ask" /\ agent' # "ask" /\ UNCHANGED <<reply, asked>> /\ asked \in RequestId
        /\ \E a \in {"allow", "deny"} : /\ verdict' = [verdict EXCEPT ![asked] = a]
                                        /\ a = "allow" => reply[asked] = "allow"
    BY <1>5 DEF Settled
  <2>2. PICK a \in {"allow", "deny"} : verdict' = [verdict EXCEPT ![asked] = a] /\ (a = "allow" => reply[asked] = "allow")
    BY <2>1
  <2>3. Contract!Decide(1, asked, a)
    BY <2>1, <2>2 DEF Contract!Decide
  <2>. QED
    BY <2>1, <2>3 DEF Contract!Next
<1>6. CASE Answered
  <2>1. /\ agent = "ask" /\ asked \in RequestId /\ reply[asked] = "none" /\ UNCHANGED <<agent, asked, verdict>>
        /\ \E a \in {"allow", "deny"} : reply' = [reply EXCEPT ![asked] = a]
    BY <1>6 DEF Answered
  <2>2. PICK a \in {"allow", "deny"} : reply' = [reply EXCEPT ![asked] = a]
    BY <2>1
  <2>3. Contract!AnswerRequest(asked, a)
    BY <2>1, <2>2 DEF Contract!AnswerRequest
  <2>. QED
    BY <2>1, <2>3 DEF Contract!Next
<1>. QED
  BY <1>1, <1>3, <1>4, <1>5, <1>6

\* The modal of the terminal keeps the contract that the permission bridge of the web
\* sessions keeps (TuiResolver and the key handling of tui_app.rs): one open request, one
\* answer, one decision, and none allows what the user has not allowed.
THEOREM ModalKeepsContract == TuiSpec => KeepsContract
<1>1. TuiSpec => []TuiInv
  BY TuiStarts, TuiStaysTrue, PTL DEF TuiSpec
<1>. QED
  BY <1>1, ContractStarts, ContractStep, PTL DEF TuiSpec, KeepsContract, Contract!Spec

\* For any number of turns, calls, requests and switches, and however the events of the task
\* and the keys interleave: a turn runs with the selection its message was sent with, the
\* status line catches up, the transcript keeps turns apart, a turn shown as ended is saved
\* or reported as not saved, and the modal keeps its contract.
THEOREM TerminalAlwaysFaithful == TuiSpec => TerminalIsFaithful
<1>1. TuiSpec => []TuiInv
  BY TuiStarts, TuiStaysTrue, PTL DEF TuiSpec
<1>2. TuiSpec => [](TuiTypeOK /\ TurnUsesSelection /\ StatusCatchesUp /\ TranscriptInOrder /\ LossIsShown)
  BY <1>1, TuiInvIsEnough, PTL
<1>. QED
  BY <1>2, ModalKeepsContract DEF TerminalIsFaithful
=============================================================================
