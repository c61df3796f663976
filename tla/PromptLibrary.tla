--------------------------- MODULE PromptLibrary ---------------------------
(***************************************************************************)
(* The prompt library (forge-store's prompt_library.rs) as it is used by two *)
(* processes: the requests of the dashboard, which share one connection      *)
(* behind a mutex, and `forge chat`, which has its own.  A call is one or    *)
(* two SQL statements without a transaction around them.                    *)
(***************************************************************************)
EXTENDS Naturals, FiniteSets

CONSTANTS Web,     \* requests of the dashboard
          Chat,    \* the commands of a chat, one after the other
          MaxId, MaxCommands

ASSUME LibraryAssumption == MaxId \in Nat \ {0} /\ MaxCommands \in Nat /\ Chat \notin Web

Actor == Web \cup {Chat}
Id    == 1..MaxId

VARIABLES row,       \* favorite of the rows there are, and which save made it
          sequence,  \* of AUTOINCREMENT
          saves,
          lock,      \* of the dashboard; Chat: nobody has it
          step, target, was, \* of a call: its place, its id, the favorite it has read
          answer,
          meant,     \* the save of the prompt a call is about
          flips,     \* toggles that have been written, of a save
          met,       \* saves for which a toggle of one process met one of the other
          dropped,   \* saves whose row the chat has deleted
          commands   \* of the chat that are over
libraryVars == <<row, sequence, saves, lock, step, target, was, answer, meant, flips, met, dropped, commands>>

Row == [favorite : BOOLEAN, of : Id]

LibraryTypeOK ==
  /\ DOMAIN row \subseteq Id /\ \A i \in DOMAIN row : row[i] \in Row
  /\ sequence \in 0..MaxId /\ saves \in 0..MaxId /\ lock \in Actor
  /\ step \in [Actor -> {"idle", "asked", "update", "get", "done"}]
  /\ target \in [Actor -> 0..MaxId] /\ was \in [Actor -> BOOLEAN]
  /\ answer \in [Actor -> {"none", "saved", "favorite", "plain", "removed", "missing", "error", "vanished"}]
  /\ \A a \in Web : step[a] \in {"update", "get"} => lock = a
  /\ meant \in [Actor -> 0..MaxId] /\ flips \in [Id -> Nat] /\ met \subseteq Id /\ dropped \subseteq Id
  /\ commands \in 0..MaxCommands

LibraryInit ==
  /\ row = <<>> /\ sequence = 0 /\ saves = 0 /\ lock = Chat
  /\ step = [a \in Actor |-> "idle"] /\ target = [a \in Actor |-> 0] /\ was = [a \in Actor |-> FALSE]
  /\ answer = [a \in Actor |-> "none"] /\ meant = [a \in Actor |-> 0]
  /\ flips = [s \in Id |-> 0] /\ met = {} /\ dropped = {} /\ commands = 0

-----------------------------------------------------------------------------
Free == lock = Chat

\* Faulty: a handler does not wait for the mutex.
MayStart_Web(a) == TRUE

\* library.lock() of a handler; the chat has the library for itself.
MayStart(a) == a = Chat \/ Free

Goto(a, s) == step' = [step EXCEPT ![a] = s]

\* A call has its answer, and its guard is dropped.
Return(a, what) ==
  Goto(a, "done") /\ answer' = [answer EXCEPT ![a] = what] /\ lock' = IF lock = a THEN Chat ELSE lock

Keep(a) == lock' = IF a = Chat THEN lock ELSE a

\* An id that a list has shown.
Name(a) ==
  /\ step[a] = "idle" /\ Goto(a, "asked")
  /\ \E i \in DOMAIN row : target' = [target EXCEPT ![a] = i] /\ meant' = [meant EXCEPT ![a] = row[i].of]
  /\ UNCHANGED <<row, sequence, saves, lock, was, answer, flips, met, dropped, commands>>

\* Faulty: the id of a row that was deleted may come again.
NextId_Reused == IF DOMAIN row = {} THEN 1 ELSE 1 + CHOOSE i \in DOMAIN row : \A j \in DOMAIN row : j <= i

\* INTEGER PRIMARY KEY AUTOINCREMENT
NextId == sequence + 1

\* save; the dashboard goes on with a get of its own id.
Save(a) ==
  /\ step[a] = "idle" /\ MayStart(a) /\ sequence < MaxId /\ saves < MaxId
  /\ saves' = saves + 1
  /\ row' = [i \in DOMAIN row \cup {NextId} |->
               IF i = NextId THEN [favorite |-> FALSE, of |-> saves + 1] ELSE row[i]]
  /\ sequence' = NextId /\ target' = [target EXCEPT ![a] = NextId]
  /\ meant' = [meant EXCEPT ![a] = saves + 1]
  /\ IF a = Chat THEN Return(a, "saved") ELSE Goto(a, "get") /\ Keep(a) /\ UNCHANGED answer
  /\ UNCHANGED <<was, flips, met, dropped, commands>>

\* create_prompt: the record is read back.
ReadBack(a) ==
  /\ step[a] = "get" /\ Return(a, IF target[a] \in DOMAIN row THEN "saved" ELSE "vanished")
  /\ UNCHANGED <<row, sequence, saves, target, was, meant, flips, met, dropped, commands>>

\* Two toggles of the same row, one of each process, between their statements.
Meets(a) == \E b \in Actor \ {a} : step[b] = "update" /\ target[b] = target[a] /\ Chat \in {a, b}

\* toggle_favorite: get ...
ToggleRead(a) ==
  /\ step[a] = "asked" /\ MayStart(a)
  /\ IF target[a] \in DOMAIN row
       THEN /\ Goto(a, "update") /\ Keep(a) /\ was' = [was EXCEPT ![a] = row[target[a]].favorite]
            /\ met' = (IF Meets(a) THEN met \cup {meant[a]} ELSE met) /\ UNCHANGED answer
       ELSE Return(a, "missing") /\ UNCHANGED <<was, met>>
  /\ UNCHANGED <<row, sequence, saves, target, meant, flips, dropped, commands>>

\* ... and UPDATE, which answers the same when the row has gone meanwhile.
ToggleWrite(a) ==
  LET i == target[a] IN
  /\ step[a] = "update"
  /\ IF i \in DOMAIN row
       THEN /\ row' = [row EXCEPT ![i].favorite = ~was[a]]
            /\ flips' = [flips EXCEPT ![row[i].of] = @ + 1]
       ELSE UNCHANGED <<row, flips>>
  /\ Return(a, IF was[a] THEN "plain" ELSE "favorite")
  /\ UNCHANGED <<sequence, saves, target, was, meant, met, dropped, commands>>

Delete(a) ==
  LET i == target[a] IN
  /\ step[a] = "asked" /\ MayStart(a)
  /\ IF i \in DOMAIN row
       THEN /\ row' = [j \in DOMAIN row \ {i} |-> row[j]] /\ Return(a, "removed")
            /\ dropped' = IF a = Chat THEN dropped \cup {row[i].of} ELSE dropped
       ELSE Return(a, "missing") /\ UNCHANGED <<row, dropped>>
  /\ UNCHANGED <<sequence, saves, target, was, meant, flips, met, commands>>

\* A statement fails: the call ends with the error, and what was written stays.
Fails(a) ==
  /\ step[a] \in {"asked", "update", "get"} /\ (step[a] = "asked" => MayStart(a)) /\ Return(a, "error")
  /\ UNCHANGED <<row, sequence, saves, target, was, meant, flips, met, dropped, commands>>

\* The next command of the chat.
NextCommand ==
  /\ step[Chat] = "done" /\ Goto(Chat, "idle") /\ answer' = [answer EXCEPT ![Chat] = "none"]
  /\ target' = [target EXCEPT ![Chat] = 0] /\ meant' = [meant EXCEPT ![Chat] = 0]
  /\ commands < MaxCommands /\ commands' = commands + 1
  /\ UNCHANGED <<row, sequence, saves, lock, was, flips, met, dropped>>

Call(a) == \/ Name(a) \/ Save(a) \/ ReadBack(a) \/ ToggleRead(a) \/ ToggleWrite(a) \/ Delete(a) \/ Fails(a)

\* The commands of the chat, and the handlers of the dashboard.
ChatStep == Call(Chat) \/ NextCommand
WebStep  == \E a \in Web : Call(a)

LibraryNext == ChatStep \/ WebStep

LibrarySpec == LibraryInit /\ [][LibraryNext]_libraryVars

-----------------------------------------------------------------------------
\* A prompt is a favourite after an odd number of toggles, however its requests
\* interleave, unless a toggle of the chat met one of the dashboard.
FavoriteIsParity ==
  \A i \in DOMAIN row : row[i].of \notin met => (row[i].favorite <=> flips[row[i].of] % 2 = 1)

\* An id that was listed stands for the same prompt for ever: a late toggle or
\* delete finds that prompt or nothing.
IdsKeepTheirPrompt ==
  \A a \in Actor : target[a] \in DOMAIN row /\ meant[a] # 0 => row[target[a]].of = meant[a]

\* "prompt salvo mas nao encontrado": only the other process can bring it about.
SavedIsFound == \A a \in Web : answer[a] = "vanished" => meant[a] \in dropped

\* The library under the dashboard and a chat: a favourite is the parity of its toggles,
\* the number of a deleted prompt names no other, and a saved one is found.
LibraryIsKept == LibraryTypeOK /\ FavoriteIsParity /\ IdsKeepTheirPrompt /\ SavedIsFound

\* The inductive strengthening.  Ids are given once, in the order of the saves; a call is
\* about the prompt of its id, and one that reads back its save finds it or the chat has
\* deleted it.
CallInv(a) ==
  /\ target[a] <= sequence /\ meant[a] = target[a]
  /\ step[a] = "idle" => answer[a] = "none"
  /\ step[a] = "get" => a # Chat /\ (target[a] \in DOMAIN row \/ target[a] \in dropped)

\* What a toggle has read still holds when it writes, unless it met another.
ToggleInv(a) ==
  step[a] = "update" =>
    /\ target[a] \in DOMAIN row /\ target[a] \notin met => was[a] = row[target[a]].favorite
    /\ \A b \in Actor \ {a} : step[b] = "update" /\ target[b] = target[a] => target[a] \in met

LibraryInv ==
  /\ LibraryIsKept /\ saves = sequence
  /\ \A i \in DOMAIN row : i <= sequence /\ row[i].of = i
  /\ \A s \in Id : s > sequence => flips[s] = 0
  /\ \A a \in Actor : CallInv(a) /\ ToggleInv(a)
=============================================================================
