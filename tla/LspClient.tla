----------------------------- MODULE LspClient -----------------------------
(***************************************************************************)
(* The session with a language server (forge-tools' lsp.rs): it is started   *)
(* at the first query and shared by the tools, and the mutex of the session *)
(* is held for a whole query, retries included.  The server pushes           *)
(* diagnostics and asks requests of its own on the same pipe.               *)
(***************************************************************************)
EXTENDS Naturals, Sequences, FiniteSets

CONSTANTS Query, Document, Nobody,
          MaxAsks,   \* requests of a query: its retries until its time is over
          MaxPush,   \* messages a server sends unasked
          MaxServers, MaxFaults

ASSUME LspAssumption ==
  Nobody \notin Query /\ MaxAsks \in Nat /\ MaxPush \in Nat /\ MaxServers \in Nat /\ MaxFaults \in Nat

VARIABLES phase, kind, file, result, asks, asked, from,  \* of a query
          lock, slot,              \* the mutex and the process it guards; 0 is none
          shaking,                 \* the process of the handshake
          nextId, opened, stash,   \* what the session keeps of the process
          toServer, fromServer, owes, seen, pushed,   \* the server's pipes and state
          running, abandoned, spawned, faults, closed
queryVars   == <<phase, kind, file, result, asks, asked, from>>
sessionVars == <<lock, slot, shaking, nextId, opened, stash>>
serverVars  == <<toServer, fromServer, owes, seen, pushed, running, abandoned, spawned, faults>>
lspVars == <<queryVars, sessionVars, serverVars, closed>>

Published == {"none", "clean", "issues"}
ToServer ==
  [k : {"initialize", "request", "reply"}, id : Nat, file : Document \cup {Nobody}, of : Query \cup {Nobody}]
  \cup [k : {"open"}, id : {0}, file : Document, of : {Nobody}]
FromServer ==
  [k : {"response"}, id : Nat, file : Document \cup {Nobody}, of : Query \cup {Nobody},
   val : {"found", "empty", "error"}]
  \cup [k : {"push"}, id : {0}, file : Document, of : {Nobody}, val : {"clean", "issues"}]
  \cup [k : {"request", "garbled"}, id : {0}, file : {Nobody}, of : {Nobody}, val : {"none"}]

LspTypeOK ==
  /\ phase \in [Query -> {"idle", "lock", "shake", "ask", "read", "done"}]
  /\ kind \in [Query -> {"position", "diagnostics"}] /\ file \in [Query -> Document]
  /\ result \in [Query -> {"none", "found", "empty", "error"}]
  /\ asks \in [Query -> 0..MaxAsks] /\ asked \in [Query -> Nat]
  /\ from \in [Query -> Query \cup {Nobody}]
  /\ lock \in Query \cup {Nobody} /\ \A q \in Query : phase[q] \in {"shake", "ask", "read"} => lock = q
  /\ slot \in 0..spawned /\ shaking \in 0..spawned
  /\ nextId \in Nat /\ opened \subseteq Document /\ stash \in [Document -> Published]
  /\ toServer \in Seq(ToServer) /\ fromServer \in Seq(FromServer)
  /\ owes \in BOOLEAN /\ seen \in [Document -> 0..2] /\ pushed \in 0..MaxPush
  /\ running \subseteq 1..spawned /\ abandoned \subseteq 1..spawned /\ spawned \in 0..MaxServers
  /\ faults \in 0..MaxFaults /\ closed \in BOOLEAN

LspInit ==
  /\ phase = [q \in Query |-> "idle"] /\ kind \in [Query -> {"position", "diagnostics"}]
  /\ file \in [Query -> Document] /\ result = [q \in Query |-> "none"]
  /\ asks = [q \in Query |-> 0] /\ asked = [q \in Query |-> 0] /\ from = [q \in Query |-> Nobody]
  /\ lock = Nobody /\ slot = 0 /\ shaking = 0 /\ nextId = 0 /\ opened = {}
  /\ stash = [f \in Document |-> "none"]
  /\ toServer = <<>> /\ fromServer = <<>> /\ owes = FALSE /\ seen = [f \in Document |-> 0]
  /\ pushed = 0 /\ running = {} /\ abandoned = {} /\ spawned = 0 /\ faults = 0 /\ closed = FALSE

-----------------------------------------------------------------------------
Msg(k, id, f, q)       == [k |-> k, id |-> id, file |-> f, of |-> q]
Reply(k, id, f, q, v)  == [k |-> k, id |-> id, file |-> f, of |-> q, val |-> v]
Advance(q, step) == phase' = [phase EXCEPT ![q] = step]

\* The process whose pipes a query uses, and whether it is there.
Peer == IF slot # 0 THEN slot ELSE shaking
Up   == Peer \in running

Finish(q, r, whose) ==
  /\ Advance(q, "done") /\ lock' = Nobody
  /\ result' = [result EXCEPT ![q] = r] /\ from' = [from EXCEPT ![q] = whose]

Begin(q) ==
  /\ phase[q] = "idle" /\ ~closed /\ Advance(q, "lock")
  /\ UNCHANGED <<kind, file, result, asks, asked, from, sessionVars, serverVars, closed>>

\* read_file fails before the session is touched.
FileMissing(q) ==
  /\ phase[q] = "idle" /\ ~closed
  /\ Advance(q, "done") /\ result' = [result EXCEPT ![q] = "error"]
  /\ UNCHANGED <<kind, file, asks, asked, from, sessionVars, serverVars, closed>>

\* Faulty: the mutex is not held while the server starts.
LockFree_WhileStarting == lock = Nobody \/ slot = 0

LockFree == lock = Nobody

StartServer ==
  /\ spawned < MaxServers /\ spawned' = spawned + 1 /\ shaking' = spawned + 1
  /\ running' = running \cup {spawned + 1}
  /\ toServer' = <<Msg("initialize", 1, Nobody, Nobody)>> /\ fromServer' = <<>>
  /\ owes' = FALSE /\ seen' = [f \in Document |-> 0]

\* ensure_started: a process in the slot is used as it is, alive or not.
Acquire(q) ==
  /\ phase[q] = "lock" /\ LockFree
  /\ \/ /\ slot # 0 /\ Advance(q, "ask") /\ lock' = q
        /\ UNCHANGED <<result, from, shaking, toServer, fromServer, owes, seen, running, spawned>>
     \/ /\ slot = 0 /\ Advance(q, "shake") /\ lock' = q /\ StartServer /\ UNCHANGED <<result, from>>
     \/ /\ slot = 0 /\ Finish(q, "error", Nobody)
        /\ UNCHANGED <<shaking, toServer, fromServer, owes, seen, running, spawned>>
  /\ UNCHANGED <<kind, file, asks, asked, slot, nextId, opened, stash, pushed, abandoned, faults,
                 closed>>

\* Faulty: requests of the server are skipped like its notifications.
RespondServerRequest_Not == toServer

RespondServerRequest == Append(toServer, Msg("reply", 0, Nobody, Nobody))

\* An error of the handshake leaves the slot empty and the child running: only
\* the drop of an LspProc would kill it.
HandshakeFails(q) ==
  /\ Finish(q, "error", Nobody) /\ abandoned' = abandoned \cup {shaking} /\ shaking' = 0
  /\ UNCHANGED <<slot, nextId, opened, stash, toServer>>

\* Reads until the answer to initialize, which `initialized' follows;
\* notifications on the way are lost, and a write to a server that is gone fails.
Handshake(q) ==
  LET m == Head(fromServer)
      isAnswer == m.k = "response" /\ m.id = 1
  IN
  /\ phase[q] = "shake"
  /\ \/ fromServer = <<>> /\ ~Up /\ HandshakeFails(q) /\ UNCHANGED fromServer
     \/ /\ fromServer # <<>> /\ fromServer' = Tail(fromServer)
        /\ \/ (m.k = "garbled" \/ (~Up /\ (m.k = "request" \/ isAnswer))) /\ HandshakeFails(q)
           \/ /\ isAnswer /\ Up
              /\ slot' = shaking /\ shaking' = 0 /\ nextId' = 1 /\ opened' = {}
              /\ stash' = [f \in Document |-> "none"]
              /\ Advance(q, "ask") /\ UNCHANGED <<lock, result, from, abandoned, toServer>>
           \/ /\ m.k = "push" \/ (m.k = "request" /\ Up)
              /\ toServer' = IF m.k = "request" THEN RespondServerRequest ELSE toServer
              /\ UNCHANGED <<phase, lock, result, from, abandoned, shaking, slot, nextId, opened, stash>>
  /\ UNCHANGED <<kind, file, asks, asked, owes, seen, pushed, running, spawned, faults, closed>>

\* Faulty: that a document was opened is not noted.
NowOpen_Forgets(f) == opened

NowOpen(f) == opened \cup {f}

\* didOpen goes out once for a document.
DidOpen(f) == IF f \in opened THEN toServer ELSE Append(toServer, Msg("open", 0, f, Nobody))

\* The end of a round of diagnostics, in which errors of the request are
\* ignored: issues are the result, otherwise it goes on until its budget is over.
Pumped(q, published) ==
  \/ published = "issues" /\ Finish(q, "found", q)
  \/ published # "issues" /\ Finish(q, "empty", q)
  \/ /\ published # "issues" /\ asks[q] < MaxAsks /\ Advance(q, "ask") /\ UNCHANGED <<lock, result, from>>

Failed(q) == IF kind[q] = "position" THEN Finish(q, "error", Nobody) ELSE Pumped(q, stash[file[q]])

\* ensure_open and a request with the next id; a server that is gone fails both,
\* didOpen for diagnostics too.
Ask(q) ==
  /\ phase[q] = "ask"
  /\ asks' = [asks EXCEPT ![q] = IF @ < MaxAsks THEN @ + 1 ELSE @]
  /\ \/ /\ Up /\ asks[q] < MaxAsks
        /\ nextId' = nextId + 1 /\ asked' = [asked EXCEPT ![q] = nextId + 1]
        /\ toServer' = Append(DidOpen(file[q]), Msg("request", nextId + 1, file[q], q))
        /\ opened' = NowOpen(file[q])
        /\ Advance(q, "read") /\ UNCHANGED <<lock, result, from>>
     \/ /\ ~Up /\ UNCHANGED <<nextId, asked, toServer, opened>>
        /\ IF file[q] \in opened THEN Failed(q) ELSE Finish(q, "error", Nobody)
  /\ UNCHANGED <<kind, file, slot, shaking, stash, fromServer, owes, seen, pushed, running,
                 abandoned, spawned, faults, closed>>

\* Faulty: any response is taken for the one that is waited for.
Matches_Any(m, q) == TRUE

Matches(m, q) == m.id = asked[q]

\* position_query returns what is not empty, or anything once its time is over.
Answered(q, m) ==
  IF kind[q] = "diagnostics" THEN Pumped(q, stash[file[q]])
  ELSE \/ Finish(q, m.val, m.of)
       \/ /\ m.val = "empty" /\ asks[q] < MaxAsks /\ Advance(q, "ask") /\ UNCHANGED <<lock, result, from>>

\* request: one message read.
ReadMessage(q) ==
  LET m == Head(fromServer) IN
  /\ phase[q] = "read"
  /\ \/ fromServer = <<>> /\ ~Up /\ Failed(q) /\ UNCHANGED <<fromServer, toServer, stash>>
     \/ /\ fromServer # <<>> /\ fromServer' = Tail(fromServer)
        /\ \/ (m.k = "garbled" \/ (m.k = "request" /\ ~Up)) /\ Failed(q) /\ UNCHANGED <<toServer, stash>>
           \/ m.k = "response" /\ Matches(m, q) /\ Answered(q, m) /\ UNCHANGED <<toServer, stash>>
           \/ /\ \/ m.k = "response" /\ ~Matches(m, q) /\ UNCHANGED <<toServer, stash>>
                 \/ m.k = "request" /\ Up /\ toServer' = RespondServerRequest /\ UNCHANGED stash
                 \/ m.k = "push" /\ stash' = [stash EXCEPT ![m.file] = m.val] /\ UNCHANGED toServer
              /\ UNCHANGED <<phase, lock, result, from>>
  /\ UNCHANGED <<kind, file, asks, asked, slot, shaking, nextId, opened, owes, seen, pushed, running,
                 abandoned, spawned, faults, closed>>

\* The registry and with it the session ends: the drop of the process kills it.
DropSession ==
  /\ ~closed /\ closed' = TRUE /\ \A q \in Query : phase[q] \in {"idle", "done"}
  /\ running' = running \ {slot}
  /\ UNCHANGED <<queryVars, sessionVars, toServer, fromServer, owes, seen, pushed, abandoned, spawned,
                 faults>>

-----------------------------------------------------------------------------
Without(s, i) == [j \in 1..(Len(s) - 1) |-> IF j < i THEN s[j] ELSE s[j + 1]]

Says(m) == fromServer' = Append(fromServer, m)

\* The server handles its messages in order, but for the reply it waits for.
Serve ==
  LET m == Head(toServer) IN
  /\ Up /\ toServer # <<>>
  /\ \/ /\ ~owes /\ toServer' = Tail(toServer) /\ UNCHANGED <<owes, pushed>>
        /\ \/ m.k = "initialize" /\ Says(Reply("response", 1, Nobody, Nobody, "found")) /\ UNCHANGED seen
           \/ m.k = "open" /\ seen' = [seen EXCEPT ![m.file] = IF @ < 2 THEN @ + 1 ELSE @]
              /\ UNCHANGED fromServer
           \/ /\ m.k = "request" /\ UNCHANGED seen
              /\ \E v \in {"found", "empty", "error"} : Says(Reply("response", m.id, m.file, m.of, v))
           \/ m.k = "reply" /\ UNCHANGED <<seen, fromServer>>
     \/ /\ ~owes /\ m.k \in {"initialize", "request"} /\ pushed < MaxPush /\ pushed' = pushed + 1
        /\ owes' = TRUE /\ Says(Reply("request", 0, Nobody, Nobody, "none")) /\ UNCHANGED <<toServer, seen>>
     \/ /\ owes /\ owes' = FALSE
        /\ \E i \in DOMAIN toServer : toServer[i].k = "reply" /\ toServer' = Without(toServer, i)
        /\ UNCHANGED <<fromServer, seen, pushed>>
  /\ UNCHANGED <<queryVars, sessionVars, running, abandoned, spawned, faults, closed>>

PublishDiagnostics ==
  /\ Up /\ pushed < MaxPush /\ pushed' = pushed + 1
  /\ \E f \in Document, v \in {"clean", "issues"} :
       seen[f] > 0 /\ Says(Reply("push", 0, f, Nobody, v))
  /\ UNCHANGED <<queryVars, sessionVars, toServer, owes, seen, running, abandoned, spawned, faults, closed>>

\* A message that cannot be read, or the end of the process.
ServerFails ==
  /\ Up /\ faults < MaxFaults /\ faults' = faults + 1
  /\ \/ Says(Reply("garbled", 0, Nobody, Nobody, "none")) /\ UNCHANGED running
     \/ running' = running \ {Peer} /\ UNCHANGED fromServer
  /\ UNCHANGED <<queryVars, sessionVars, toServer, owes, seen, pushed, abandoned, spawned, closed>>

QueryStep(q) == Acquire(q) \/ Handshake(q) \/ Ask(q) \/ ReadMessage(q)

LspNext ==
  \/ \E q \in Query : Begin(q) \/ FileMissing(q) \/ QueryStep(q)
  \/ DropSession \/ Serve \/ PublishDiagnostics \/ ServerFails

LspSpec == LspInit /\ [][LspNext]_lspVars

\* A server that has not ended answers what it is asked: no read of the client
\* has a time limit.
LspFairSpec == LspSpec /\ WF_lspVars(Serve) /\ \A q \in Query : SF_lspVars(QueryStep(q))

-----------------------------------------------------------------------------
\* A query returns the answer to its own request, though a query that failed
\* may have left its answer unread in the pipe.
AnswersOwnQuery == \A q \in Query : result[q] = "found" => from[q] = q

\* Document and process: didOpen is never sent again ("reabrir viola o protocolo").
OpenedOnce == \A f \in Document : seen[f] <= 1

\* The queries share one process, and none is left after the session, except
\* for those whose handshake failed.
OneServer ==
  /\ Cardinality(running \ abandoned) <= 1
  /\ closed => running \subseteq abandoned

\* LspSession under its mutex: one server, a document opened once in it, and to each
\* query the answer to its own request although earlier ones were left in the pipe.
LspAnswersAreOwn == LspTypeOK /\ OneServer /\ OpenedOnce /\ AnswersOwnQuery

\* What makes it inductive.  The process that is shaking hands is that of the lock's
\* holder, and a query asks and reads only with a process in the slot; whatever runs
\* and is not abandoned is the one or the other.
ServerIsCurrent ==
  /\ shaking # 0 => lock # Nobody /\ phase[lock] = "shake"
  /\ \A q \in Query : (phase[q] = "shake" => slot = 0 /\ shaking # 0)
                      /\ (phase[q] \in {"ask", "read"} => slot # 0)
  /\ running \ abandoned \subseteq {Peer}
  /\ closed => running \subseteq abandoned /\ \A q \in Query : phase[q] \in {"idle", "done"}

\* Ids grow, the query that reads waits for the latest, and no other query's request or
\* answer in a pipe has it.
Owned(m) == /\ m.id <= 1 \/ m.id <= nextId
            /\ \A q \in Query : phase[q] = "read" /\ m.id = asked[q] => m.of = q
IdsAreOwn ==
  /\ IF slot = 0 THEN nextId = 0 ELSE nextId >= 1
  /\ \A q \in Query : phase[q] = "read" => asked[q] = nextId /\ nextId >= 2
  /\ \A i \in DOMAIN toServer : toServer[i].k = "request" => Owned(toServer[i])
  /\ \A i \in DOMAIN fromServer : fromServer[i].k = "response" => Owned(fromServer[i])

\* What the server has seen or is yet to see opened is noted, and not both.
OpenedIsNoted ==
  /\ slot = 0 => opened = {}
  /\ \A f \in Document : seen[f] <= 1 /\ (seen[f] # 0 => f \in opened)
  /\ \A i \in DOMAIN toServer : toServer[i].k = "open" =>
       /\ toServer[i].file \in opened /\ seen[toServer[i].file] = 0
       /\ \A j \in DOMAIN toServer :
            toServer[j].k = "open" /\ toServer[j].file = toServer[i].file => j = i

LspInv == LspTypeOK /\ ServerIsCurrent /\ IdsAreOwn /\ OpenedIsNoted /\ AnswersOwnQuery

\* Every query returns, also when the server asks back, sends what cannot be
\* read or dies.
QueriesEnd == \A q \in Query : phase[q] = "lock" ~> phase[q] = "done"
=============================================================================
