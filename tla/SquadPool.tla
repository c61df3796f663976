------------------------------ MODULE SquadPool ------------------------------
(***************************************************************************)
(* The pool of long-lived squad processes (forge-sidecar/src/service.rs).  *)
(*                                                                         *)
(* A caller takes a permit of a fair semaphore, pops a free slot, locks    *)
(* the slot, and reuses its process or starts a new one; the lease returns *)
(* slot and permit.  The code counts on permits and free slots being in    *)
(* step: a caller that gets a permit pops a slot without looking.          *)
(*                                                                         *)
(* Processes die, or hang: a hung one keeps its connection and answers no  *)
(* call, and no call has a deadline.  Starting one may fail, and a caller  *)
(* may be dropped (the kill switch aborts its task) wherever it awaits.    *)
(***************************************************************************)
EXTENDS Naturals, Sequences, FiniteSets

CONSTANTS
  Caller,   \* tasks that lease a process
  Slot,     \* 0..capacity-1
  None      \* no slot, no caller

ASSUME PoolAssumption ==
  /\ IsFiniteSet(Caller) /\ None \notin Caller
  /\ IsFiniteSet(Slot) /\ Slot # {} /\ None \notin Slot

VARIABLES
  permits,    \* permits left in the semaphore
  queue,      \* callers waiting for one, in order
  free,       \* slots in the free list
  lock,       \* holder of each slot's mutex
  process,    \* process registered in each slot
  starting,   \* slots whose next process is being started
  pc, slot    \* each caller's step and slot

vars == <<permits, queue, free, lock, process, starting, pc, slot>>

\* A caller with a slot, and one with a permit.
Holding   == {"popped", "checking", "spawning", "starting", "leased"}
Permitted == Holding \cup {"permitted", "returning"}
Settled   == {"leased", "failed", "panicked"}
Steps     == Permitted \cup Settled \cup {"idle", "queued"}

Holders == {c \in Caller : pc[c] \in Holding}
Held    == {slot[c] : c \in Holders}
Lost    == Slot \ (free \cup Held)

Init ==
  /\ permits = Cardinality(Slot)
  /\ queue = <<>>
  /\ free = Slot
  /\ lock = [s \in Slot |-> None]
  /\ process = [s \in Slot |-> "none"]
  /\ starting = {}
  /\ pc = [c \in Caller |-> "idle"]
  /\ slot = [c \in Caller |-> None]

Goto(c, from, to) ==
  /\ pc[c] = from
  /\ pc' = [pc EXCEPT ![c] = to]

\* The future of acquire is dropped with what it holds: the mutex guard, the
\* supervisor of a process that is not registered yet (killed by its Drop), and
\* the permit.  The popped slot is a number: it is not pushed back.
Abandon(c) ==
  /\ permits' = permits + 1
  /\ lock' = [s \in Slot |-> IF lock[s] = c THEN None ELSE lock[s]]
  /\ starting' = starting \ {s \in Slot : lock[s] = c}
  /\ slot' = [slot EXCEPT ![c] = None]

-----------------------------------------------------------------------------
(* Faulty variants, one plausible slip each; no specification uses them.      *)

\* The slot is read, not popped.
PopSlot_Peeks(c) ==
  /\ pc[c] = "permitted"
  /\ \/ \E s \in free :
          /\ Goto(c, "permitted", "popped")
          /\ slot' = [slot EXCEPT ![c] = s]
          /\ UNCHANGED <<permits, free>>
     \/ /\ free = {}
        /\ Goto(c, "permitted", "panicked")
        /\ permits' = permits + 1
        /\ UNCHANGED <<free, slot>>
  /\ UNCHANGED <<queue, lock, process, starting>>

\* The lease returns its permit and adds one.
ReturnSlot_AddsPermit(c) ==
  /\ Goto(c, "leased", "returning")
  /\ permits' = permits + 1
  /\ free' = free \cup {slot[c]}
  /\ slot' = [slot EXCEPT ![c] = None]
  /\ UNCHANGED <<queue, lock, process, starting>>

\* The lease's permit is forgotten.
ReturnPermit_Forgotten(c) ==
  /\ Goto(c, "returning", "idle")
  /\ UNCHANGED <<permits, queue, free, lock, process, starting, slot>>

\* The guard is dropped before the dead process is replaced.
CheckHealth_DropsGuard(c) ==
  /\ pc[c] = "checking" /\ process[slot[c]] # "hung"
  /\ Goto(c, "checking", IF process[slot[c]] = "up" THEN "leased" ELSE "spawning")
  /\ lock' = [lock EXCEPT ![slot[c]] = None]
  /\ UNCHANGED <<permits, queue, free, process, starting, slot>>

\* A health check that gives up on a hung process, without killing it.
CheckHealth_TimesOut(c) ==
  /\ pc[c] = "checking"
  /\ Goto(c, "checking", IF process[slot[c]] = "up" THEN "leased" ELSE "spawning")
  /\ lock' = IF process[slot[c]] = "up" THEN [lock EXCEPT ![slot[c]] = None] ELSE lock
  /\ UNCHANGED <<permits, queue, free, process, starting, slot>>

\* A waiter is let through without a permit.
Grant_Unchecked(c) ==
  /\ queue # <<>> /\ Head(queue) = c
  /\ Goto(c, "queued", "permitted")
  /\ permits' = permits - 1
  /\ queue' = Tail(queue)
  /\ UNCHANGED <<free, lock, process, starting, slot>>

-----------------------------------------------------------------------------
(* acquire *)

\* acquire_owned().await
Enqueue(c) ==
  /\ Goto(c, "idle", "queued")
  /\ queue' = Append(queue, c)
  /\ UNCHANGED <<permits, free, lock, process, starting, slot>>

\* The semaphore serves its waiters in order.
Grant(c) ==
  /\ permits > 0 /\ queue # <<>> /\ Head(queue) = c
  /\ Goto(c, "queued", "permitted")
  /\ permits' = permits - 1
  /\ queue' = Tail(queue)
  /\ UNCHANGED <<free, lock, process, starting, slot>>

\* free.pop().expect(...): no free slot is a panic, which unwinds the permit.
PopSlot(c) ==
  /\ \/ \E s \in free :
          /\ Goto(c, "permitted", "popped")
          /\ slot' = [slot EXCEPT ![c] = s]
          /\ free' = free \ {s}
          /\ UNCHANGED permits
     \/ /\ free = {}
        /\ Goto(c, "permitted", "panicked")
        /\ permits' = permits + 1
        /\ UNCHANGED <<free, slot>>
  /\ UNCHANGED <<queue, lock, process, starting>>

LockSlot(c) ==
  /\ pc[c] = "popped"
  /\ lock[slot[c]] = None
  /\ Goto(c, "popped", IF process[slot[c]] = "none" THEN "spawning" ELSE "checking")
  /\ lock' = [lock EXCEPT ![slot[c]] = c]
  /\ UNCHANGED <<permits, queue, free, process, starting, slot>>

\* health().await: a process that answers is leased again, a broken connection
\* means a new process, and a hung process is waited for.
CheckHealth(c) ==
  /\ pc[c] = "checking"
  /\ \/ /\ process[slot[c]] = "up"
        /\ Goto(c, "checking", "leased")
        /\ lock' = [lock EXCEPT ![slot[c]] = None]
     \/ /\ process[slot[c]] = "dead"
        /\ Goto(c, "checking", "spawning")
        /\ UNCHANGED lock
  /\ UNCHANGED <<permits, queue, free, process, starting, slot>>

\* SquadSupervisor::spawn; the dead process stays registered until the new one
\* is ready.
Spawn(c) ==
  /\ Goto(c, "spawning", "starting")
  /\ starting' = starting \cup {slot[c]}
  /\ UNCHANGED <<permits, queue, free, lock, process, slot>>

\* wait_ready succeeded: the new process replaces the old one, whose Drop kills it.
BecomeReady(c) ==
  /\ Goto(c, "starting", "leased")
  /\ process' = [process EXCEPT ![slot[c]] = "up"]
  /\ starting' = starting \ {slot[c]}
  /\ lock' = [lock EXCEPT ![slot[c]] = None]
  /\ UNCHANGED <<permits, queue, free, slot>>

\* The `?` of spawn and of wait_ready.
Fail(c) ==
  /\ pc[c] \in {"spawning", "starting"}
  /\ pc' = [pc EXCEPT ![c] = "failed"]
  /\ Abandon(c)
  /\ UNCHANGED <<queue, free, process>>

\* The caller's task is aborted at one of the awaits of acquire.
Cancel(c) ==
  /\ pc' = [pc EXCEPT ![c] = "idle"]
  /\ \/ /\ pc[c] = "queued"
        /\ \E i \in DOMAIN queue :
             /\ queue[i] = c
             /\ queue' = SubSeq(queue, 1, i - 1) \o SubSeq(queue, i + 1, Len(queue))
        /\ UNCHANGED <<permits, lock, starting, slot>>
     \/ /\ pc[c] \in {"permitted", "popped", "checking", "starting"}
        /\ Abandon(c)
        /\ UNCHANGED queue
  /\ UNCHANGED <<free, process>>

-----------------------------------------------------------------------------
(* Drop of a lease: first SquadLease::drop, then its permit field *)

ReturnSlot(c) ==
  /\ Goto(c, "leased", "returning")
  /\ free' = free \cup {slot[c]}
  /\ slot' = [slot EXCEPT ![c] = None]
  /\ UNCHANGED <<permits, queue, lock, process, starting>>

ReturnPermit(c) ==
  /\ Goto(c, "returning", "idle")
  /\ permits' = permits + 1
  /\ UNCHANGED <<queue, free, lock, process, starting, slot>>

\* The next task of a caller whose acquire ended in an error or a panic.
TryAgain(c) ==
  /\ pc[c] \in {"failed", "panicked"}
  /\ pc' = [pc EXCEPT ![c] = "idle"]
  /\ UNCHANGED <<permits, queue, free, lock, process, starting, slot>>

-----------------------------------------------------------------------------
(* Processes *)

KillSlot(s) ==
  /\ lock[s] = None
  /\ process[s] \in {"up", "hung"}
  /\ process' = [process EXCEPT ![s] = "dead"]
  /\ UNCHANGED <<permits, queue, free, lock, starting, pc, slot>>

\* External: a process stops answering, or dies.
Crash(s) ==
  /\ \/ process[s] = "up" /\ \E how \in {"dead", "hung"} : process' = [process EXCEPT ![s] = how]
     \/ process[s] = "hung" /\ process' = [process EXCEPT ![s] = "dead"]
  /\ UNCHANGED <<permits, queue, free, lock, starting, pc, slot>>

-----------------------------------------------------------------------------
\* What the runtime drives: acquire, and the end of a lease's Drop.
CallerStep(c) ==
  \/ Grant(c) \/ PopSlot(c) \/ LockSlot(c) \/ CheckHealth(c) \/ Spawn(c)
  \/ BecomeReady(c) \/ Fail(c) \/ ReturnPermit(c)

Next ==
  \/ \E c \in Caller :
       Enqueue(c) \/ CallerStep(c) \/ ReturnSlot(c) \/ Cancel(c) \/ TryAgain(c)
  \/ \E s \in Slot : KillSlot(s) \/ Crash(s)

Spec == Init /\ [][Next]_vars

\* Spawned tasks are scheduled, wait_ready has a deadline, and a run on a process
\* that answers ends (its gates time out, its steps are bounded).
FairSpec ==
  /\ Spec
  /\ \A c \in Caller :
       /\ WF_vars(CallerStep(c))
       /\ WF_vars(ReturnSlot(c) /\ process[slot[c]] # "hung")

-----------------------------------------------------------------------------
TypeOK ==
  /\ permits \in Nat
  /\ queue \in Seq(Caller)
  /\ free \subseteq Slot
  /\ lock \in [Slot -> Caller \cup {None}]
  /\ process \in [Slot -> {"none", "up", "hung", "dead"}]
  /\ starting \subseteq Slot
  /\ pc \in [Caller -> Steps]
  /\ slot \in [Caller -> Slot \cup {None}]

\* ADR 0019: concurrent squads run in distinct processes.  No slot is handed out
\* twice, whatever callers fail, panic or are dropped half way.
SlotExclusive ==
  /\ \A c, d \in Holders : slot[c] = slot[d] => c = d
  /\ free \cap Held = {}

\* A slot's mutex is held by the caller that holds the slot, so a process is
\* only ever started or judged by the slot's one owner.
LockedByHolder ==
  /\ \A s \in Slot : lock[s] # None =>
       pc[lock[s]] \in {"checking", "spawning", "starting"} /\ slot[lock[s]] = s
  /\ \A s \in starting : lock[s] # None /\ pc[lock[s]] = "starting"

\* The expect of acquire fails only if an earlier acquire failed or was dropped
\* after it popped its slot.
PanicsOnlyAfterLoss == \A c \in Caller : pc[c] = "panicked" => Lost # {}

\* acquire never has more than capacity processes alive, those being started
\* included: a slot's next process is only started over a dead one.
ProcessesCapped ==
  Cardinality({s \in Slot : process[s] \in {"up", "hung"}}) + Cardinality(starting)
    <= Cardinality(Slot)

\* Both: a squad runs in a process that no other has, and no process is left beside them.
ProcessesAreDistinct == SlotExclusive /\ ProcessesCapped

\* No acquire waits for ever, unless a process hangs.
EveryAcquireSettles == \A c \in Caller :
  pc[c] = "queued" ~>
    pc[c] \in Settled \cup {"idle"} \/ \E s \in Slot : process[s] = "hung"

\* ADR 0019: a hung squad does not affect the other slots.  While one slot's
\* process answers, whoever waits gets a permit.
HungSlotsAreIsolated == \A c \in Caller :
  pc[c] = "queued" ~> pc[c] # "queued" \/ \A s \in Slot : process[s] = "hung"

\* Both: what a hung process may hold up, and what it may not.
AcquiresSettle == EveryAcquireSettles /\ HungSlotsAreIsolated

-----------------------------------------------------------------------------
(* The inductive strengthening. *)

\* Exactly the callers past PopSlot and before the end of their lease have a slot,
\* and those that judge or start its process hold its mutex.
SlotState == \A c \in Caller : slot[c] # None <=> pc[c] \in Holding
OwnerLocks == \A c \in Caller :
  pc[c] \in {"checking", "spawning", "starting"} => lock[slot[c]] = c

\* A permit is in the semaphore or with a caller.
PermitsKept ==
  permits + Cardinality({c \in Caller : pc[c] \in Permitted}) = Cardinality(Slot)

\* Whatever fails or is dropped on the way: a lost slot costs later acquires a panic, and
\* nothing ever costs a permit.
LossIsBounded == PermitsKept /\ PanicsOnlyAfterLoss

\* A process is only started over none or a dead one.
StartsOverDead == \A c \in Caller :
  pc[c] \in {"spawning", "starting"} => process[slot[c]] \in {"none", "dead"}

PoolInv == TypeOK /\ SlotState /\ SlotExclusive /\ OwnerLocks /\ LockedByHolder /\ PermitsKept
             /\ PanicsOnlyAfterLoss /\ StartsOverDead /\ ProcessesCapped

-----------------------------------------------------------------------------
(* Refinement: the pool leases processes as ADR 0019 promises. *)

Leases    == [c \in Caller |-> IF pc[c] = "leased" THEN {slot[c]} ELSE {}]
Answering == {s \in Slot : process[s] = "up"}

Lease == INSTANCE ProcessLease
  WITH Client <- Caller, Process <- Slot, lease <- Leases, answering <- Answering

\* A caller that acquire lets through has a process that answers and that nobody else
\* has, until its lease is dropped; a new one is started for it alone.
ImplementsLease == Lease!Spec
=============================================================================
