------------------------------ MODULE Sidecars ------------------------------
(***************************************************************************)
(* The one-process services of the dashboard (forge-sidecar's service.rs,   *)
(* supervisor.rs and memory_client.rs; the handlers of prompt_render.rs and *)
(* memory_console.rs) and the sidecar of a single command (sidecar.rs).     *)
(*                                                                         *)
(* client() holds the service's lock while it checks the kept process and,  *)
(* if that does not answer, starts another.  A supervisor that is dropped   *)
(* kills its process group; so does a request whose caller goes away.       *)
(***************************************************************************)
EXTENDS Naturals, FiniteSets

CONSTANTS Handler, Service, Cli,  \* Cli: the owner of a command's sidecar
          MaxSpawns, MaxRounds, MaxOutages, Nobody

ASSUME SidecarsAssumption ==
  /\ Cli \notin Service /\ Nobody \notin Handler
  /\ MaxSpawns \in Nat /\ MaxRounds \in Nat /\ MaxOutages \in Nat

Pid == 1..MaxSpawns

VARIABLES place,   \* step of a request's handler
          service, \* what a request asks for
          answer,  \* its response
          lock,    \* the holder of a service's mutex
          kept,    \* process of the service's state
          mine,    \* process a request has started and not handed over
          conn,    \* process behind the client of a request
          waited,  \* rounds of wait_ready
          spawned, running, ready, outages
sidecarVars == <<place, service, answer, lock, kept, mine, conn, waited, spawned, running,
                 ready, outages>>

Place  == {"idle", "queue", "health", "spawn", "ready", "call", "done"}
Answer == {"none", "ok", "unavailable", "rpc_error", "cancelled"}

SidecarTypeOK ==
  /\ place \in [Handler -> Place] /\ service \in [Handler -> Service \cup {Cli}]
  /\ answer \in [Handler -> Answer]
  /\ lock \in [Service -> Handler \cup {Nobody}] /\ kept \in [Service -> Pid \cup {0}]
  /\ mine \in [Handler -> Pid \cup {0}] /\ conn \in [Handler -> Pid \cup {0}]
  /\ waited \in [Handler -> 0..MaxRounds]
  /\ spawned \in 0..MaxSpawns /\ ready \subseteq running /\ running \subseteq 1..spawned
  /\ outages \in 0..MaxOutages

SidecarInit ==
  /\ place = [r \in Handler |-> "idle"] /\ service \in [Handler -> Service \cup {Cli}]
  /\ answer = [r \in Handler |-> "none"]
  /\ lock = [s \in Service |-> Nobody] /\ kept = [s \in Service |-> 0]
  /\ mine = [r \in Handler |-> 0] /\ conn = [r \in Handler |-> 0]
  /\ waited = [r \in Handler |-> 0]
  /\ spawned = 0 /\ running = {} /\ ready = {} /\ outages = 0

-----------------------------------------------------------------------------
Proceed(r, step) == place' = [place EXCEPT ![r] = step]

\* Faulty: only `uv` is signalled, its child stays.
DropSupervisor_LeaderOnly(p) == UNCHANGED <<running, ready>>

\* The drop of a supervisor: the whole process group is killed.
DropSupervisor(p) == running' = running \ {p} /\ ready' = ready \ {p}

\* Faulty: an early return keeps the mutex.
Unlock_OnlyOnSuccess(r) ==
  lock' = IF answer'[r] \in {"unavailable", "cancelled"} THEN lock
          ELSE [s \in Service |-> IF lock[s] = r THEN Nobody ELSE lock[s]]

\* The guard is dropped on every way out.
Unlock(r) == lock' = [s \in Service |-> IF lock[s] = r THEN Nobody ELSE lock[s]]

Finish(r, a) == Proceed(r, "done") /\ answer' = [answer EXCEPT ![r] = a]

\* try_start of a command starts a sidecar of its own.
TryStart(r) ==
  /\ place[r] = "idle" /\ service[r] = Cli /\ Proceed(r, "spawn")
  /\ UNCHANGED <<service, answer, lock, kept, mine, conn, waited, spawned, running, ready, outages>>

Arrive(r) ==
  /\ place[r] = "idle" /\ service[r] \in Service /\ Proceed(r, "queue")
  /\ UNCHANGED <<service, answer, lock, kept, mine, conn, waited, spawned, running, ready, outages>>

\* Faulty: the mutex is not waited for.
Lock_NotAwaited(r) ==
  /\ place[r] = "queue"
  /\ lock' = [lock EXCEPT ![service[r]] = r]
  /\ Proceed(r, IF kept[service[r]] = 0 THEN "spawn" ELSE "health")
  /\ UNCHANGED <<service, answer, kept, mine, conn, waited, spawned, running, ready, outages>>

Lock(r) ==
  /\ place[r] = "queue" /\ lock[service[r]] = Nobody
  /\ lock' = [lock EXCEPT ![service[r]] = r]
  /\ Proceed(r, IF kept[service[r]] = 0 THEN "spawn" ELSE "health")
  /\ UNCHANGED <<service, answer, kept, mine, conn, waited, spawned, running, ready, outages>>

\* A process that answers is used again; one that is dead, or fails a check,
\* is to be replaced.
CheckHealth(r) ==
  LET s == service[r] IN
  /\ place[r] = "health"
  /\ \/ /\ kept[s] \in ready
        /\ Proceed(r, "call") /\ conn' = [conn EXCEPT ![r] = kept[s]]
        /\ UNCHANGED <<answer, outages>> /\ Unlock(r)
     \/ /\ kept[s] \notin ready /\ Proceed(r, "spawn") /\ UNCHANGED <<answer, conn, lock, outages>>
     \/ /\ outages < MaxOutages /\ outages' = outages + 1
        /\ Proceed(r, "spawn") /\ UNCHANGED <<answer, conn, lock>>
  /\ UNCHANGED <<service, kept, mine, waited, spawned, running, ready>>

\* The socket file of the last process is removed, so its successor can be the
\* only one found there.
Spawn(r) ==
  /\ place[r] = "spawn"
  /\ \/ /\ spawned < MaxSpawns /\ spawned' = spawned + 1 /\ running' = running \cup {spawned + 1}
        /\ mine' = [mine EXCEPT ![r] = spawned + 1] /\ Proceed(r, "ready")
        /\ UNCHANGED <<answer, lock>>
     \/ Finish(r, "unavailable") /\ Unlock(r) /\ UNCHANGED <<mine, spawned, running>>
  /\ UNCHANGED <<service, kept, conn, waited, ready, outages>>

\* Faulty: the process that was kept is not dropped.
Keep_LeavesOld(r) ==
  /\ kept' = IF service[r] = Cli THEN kept ELSE [kept EXCEPT ![service[r]] = mine[r]]
  /\ mine' = IF service[r] = Cli THEN mine ELSE [mine EXCEPT ![r] = 0]
  /\ UNCHANGED <<running, ready>>

\* The new process replaces the one in the state, whose supervisor is dropped;
\* a command keeps its own.
Keep(r) ==
  IF service[r] = Cli THEN UNCHANGED <<kept, mine, running, ready>>
  ELSE /\ kept' = [kept EXCEPT ![service[r]] = mine[r]]
       /\ mine' = [mine EXCEPT ![r] = 0]
       /\ DropSupervisor(kept[service[r]])

GivesUp(r) == mine[r] \notin running \/ waited[r] >= MaxRounds

\* One round of wait_ready: exit and deadline are errors, which drop the new
\* process and leave the state as it was; an answer hands it over.
WaitReady(r) ==
  /\ place[r] = "ready"
  /\ \/ /\ mine[r] \in ready /\ Proceed(r, "call") /\ conn' = [conn EXCEPT ![r] = mine[r]]
        /\ Keep(r) /\ UNCHANGED <<answer, waited>> /\ Unlock(r)
     \/ /\ mine[r] \notin ready /\ GivesUp(r)
        /\ Finish(r, "unavailable") /\ Unlock(r)
        /\ DropSupervisor(mine[r]) /\ mine' = [mine EXCEPT ![r] = 0]
        /\ UNCHANGED <<kept, conn, waited>>
     \/ /\ mine[r] \notin ready /\ ~GivesUp(r)
        /\ waited' = [waited EXCEPT ![r] = @ + 1]
        /\ UNCHANGED <<place, answer, lock, kept, mine, conn, running, ready>>
  /\ UNCHANGED <<service, spawned, outages>>

\* The response of a call: what the service says, or 502 once it is dead.
Respond(r) == Finish(r, IF conn[r] \in ready THEN "ok" ELSE "rpc_error")

\* render, list_generators of a service; the lint of a command, after which its
\* supervisor is dropped.
CallSidecar(r) ==
  /\ place[r] = "call" /\ Respond(r)
  /\ IF mine[r] # 0 THEN DropSupervisor(mine[r]) ELSE UNCHANGED <<running, ready>>
  /\ mine' = [mine EXCEPT ![r] = 0]
  /\ UNCHANGED <<service, lock, kept, conn, waited, spawned, outages>>

\* The caller's connection ends and its handler is dropped where it stands.
Cancel(r) ==
  /\ place[r] \notin {"idle", "done"} /\ Finish(r, "cancelled") /\ Unlock(r)
  /\ DropSupervisor(mine[r]) /\ mine' = [mine EXCEPT ![r] = 0]
  /\ UNCHANGED <<service, kept, conn, waited, spawned, outages>>

Boot(p) ==
  /\ p \in running /\ ready' = ready \cup {p}
  /\ UNCHANGED <<place, service, answer, lock, kept, mine, conn, waited, spawned, running, outages>>

\* A crash, or kill_current, which leaves the state as it is.
Die(p) ==
  /\ p \in running /\ outages < MaxOutages /\ outages' = outages + 1
  /\ DropSupervisor(p)
  /\ UNCHANGED <<place, service, answer, lock, kept, mine, conn, waited, spawned>>

HandlerStep(r) == TryStart(r) \/ Arrive(r) \/ Lock(r) \/ CheckHealth(r) \/ Spawn(r)
                  \/ WaitReady(r) \/ CallSidecar(r)

SidecarNext ==
  \/ \E r \in Handler : HandlerStep(r) \/ Cancel(r)
  \/ \E p \in Pid : Boot(p) \/ Die(p)

SidecarSpec == SidecarInit /\ [][SidecarNext]_sidecarVars

\* Handlers run.  Nothing makes a process boot or survive; the mutex is fair.
SidecarFairSpec == SidecarSpec /\ \A r \in Handler : SF_sidecarVars(HandlerStep(r))

-----------------------------------------------------------------------------
\* No Python process runs that nobody would kill: each is the kept one of a
\* service or of a request that is starting it, whichever way others ended.
NoOrphans == \A p \in running : \/ \E s \in Service : kept[s] = p
                                \/ \E r \in Handler : mine[r] = p

\* However many ask, fail or go away, a service starts one process at a time
\* and, when nobody is starting one, has at most one.
OneProcess ==
  \A s \in Service :
    Cardinality({r \in Handler : service[r] = s /\ mine[r] # 0}) <= (IF lock[s] = Nobody THEN 0 ELSE 1)

\* A call that succeeds was made to the process the service keeps, or to the
\* command's own.
ClientsAreCurrent ==
  \A r \in Handler : place[r] = "call" /\ conn[r] \in running =>
                       conn[r] = mine[r] \/ \E s \in Service : conn[r] = kept[s]

\* SidecarService::client with requests that cancel, crash it or time out: one process,
\* none left behind, and a client of the process that is there.
ServiceIsSingle == SidecarTypeOK /\ NoOrphans /\ OneProcess /\ ClientsAreCurrent

\* The inductive invariant it follows from: only requests to a service queue for its
\* lock, one that looks at the kept process or starts another holds it, only a request
\* that waits for a process or calls its own has one, and no process is known before it
\* is spawned.
ServicesAreQueuedFor == \A r \in Handler :
  place[r] \in {"queue", "health"} => service[r] \in Service

StarterHoldsLock == \A r \in Handler :
  service[r] \in Service /\ place[r] \in {"health", "spawn", "ready"} => lock[service[r]] = r

StarterHasOne == \A r \in Handler :
  mine[r] # 0 => place[r] = "ready" \/ (service[r] = Cli /\ place[r] = "call")

PidsWereSpawned ==
  /\ \A r \in Handler : mine[r] <= spawned /\ conn[r] <= spawned
  /\ \A s \in Service : kept[s] <= spawned

SidecarInv ==
  /\ SidecarTypeOK /\ NoOrphans /\ ClientsAreCurrent
  /\ ServicesAreQueuedFor /\ StarterHoldsLock /\ StarterHasOne /\ PidsWereSpawned

\* Every request is answered, whatever happens to processes and other callers.
EveryRequestEnds == \A r \in Handler : place[r] # "idle" ~> place[r] = "done"
=============================================================================
