--------------------------- MODULE SquadPool_proofs ---------------------------
(***************************************************************************)
(* Proofs about SquadPool for any finite sets of callers and slots.        *)
(***************************************************************************)
EXTENDS SquadPool, FiniteSetTheorems, TLAPS

Typed == TypeOK /\ SlotState

LEMMA StepsAre ==
  /\ Holding = {"popped", "checking", "spawning", "starting", "leased"}
  /\ Permitted = Holding \cup {"permitted", "returning"}
  /\ Steps = {"idle", "queued", "permitted", "popped", "checking", "spawning", "starting",
              "leased", "returning", "failed", "panicked"}
BY DEF Holding, Permitted, Settled, Steps

-----------------------------------------------------------------------------
(* Types, and who has a slot. *)

LEMMA TypeInitially == Init => Typed
BY PoolAssumption, StepsAre, FS_CardinalityType DEF Init, Typed, TypeOK, SlotState

\* The mutex of a slot that a holder names is one of the typed ones.
LEMMA HoldersHaveSlots ==
  ASSUME Typed, NEW c \in Caller, pc[c] \in Holding
  PROVE  slot[c] \in Slot
BY PoolAssumption DEF Typed, TypeOK, SlotState

LEMMA AbandonTypes ==
  ASSUME TypeOK, NEW c \in Caller, Abandon(c)
  PROVE  /\ permits' \in Nat /\ starting' \subseteq Slot
         /\ lock' \in [Slot -> Caller \cup {None}]
         /\ slot' \in [Caller -> Slot \cup {None}]
         /\ slot'[c] = None /\ \A d \in Caller \ {c} : slot'[d] = slot[d]
BY DEF TypeOK, Abandon

LEMMA TypeStep == Typed /\ [Next]_vars => Typed'
<1> SUFFICES ASSUME Typed, [Next]_vars PROVE Typed'
  OBVIOUS
<1> USE PoolAssumption, StepsAre DEF Typed, TypeOK, SlotState, Goto
<1>1. ASSUME NEW c \in Caller, Enqueue(c) \/ Grant(c) PROVE Typed'
  <2>1. queue' \in Seq(Caller)
    <3>1. queue \in Seq(Caller)
      OBVIOUS
    <3>2. Append(queue, c) \in Seq(Caller) /\ (queue # <<>> => Tail(queue) \in Seq(Caller))
      BY <3>1
    <3>. QED
      BY <1>1, <3>2 DEF Enqueue, Grant
  <2>2. permits' \in Nat
    BY <1>1 DEF Enqueue, Grant
  <2>. QED
    BY <1>1, <2>1, <2>2 DEF Enqueue, Grant
<1>2. ASSUME NEW c \in Caller, PopSlot(c) PROVE Typed'
  BY <1>2 DEF PopSlot
<1>3. ASSUME NEW c \in Caller, LockSlot(c) PROVE Typed'
  BY <1>3, HoldersHaveSlots DEF LockSlot
<1>4. ASSUME NEW c \in Caller, CheckHealth(c) PROVE Typed'
  BY <1>4, HoldersHaveSlots DEF CheckHealth
<1>5. ASSUME NEW c \in Caller, Spawn(c) PROVE Typed'
  BY <1>5, HoldersHaveSlots DEF Spawn
<1>6. ASSUME NEW c \in Caller, BecomeReady(c) PROVE Typed'
  BY <1>6, HoldersHaveSlots DEF BecomeReady
<1>7. ASSUME NEW c \in Caller, Fail(c) PROVE Typed'
  BY <1>7, AbandonTypes DEF Fail
<1>8. ASSUME NEW c \in Caller, Cancel(c) PROVE Typed'
  <2>1. CASE pc[c] = "queued" /\ \E i \in DOMAIN queue :
               queue' = SubSeq(queue, 1, i - 1) \o SubSeq(queue, i + 1, Len(queue))
    <3>1. PICK i \in DOMAIN queue :
            queue' = SubSeq(queue, 1, i - 1) \o SubSeq(queue, i + 1, Len(queue))
      BY <2>1
    <3>2. queue \in Seq(Caller) /\ i \in 1 .. Len(queue) /\ Len(queue) \in Nat
      BY <3>1
    <3>3. SubSeq(queue, 1, i - 1) \in Seq(Caller)
      BY <3>2
    <3>4. SubSeq(queue, i + 1, Len(queue)) \in Seq(Caller)
      BY <3>2
    <3>5. queue' \in Seq(Caller)
      BY <3>1, <3>3, <3>4
    <3>. QED
      BY <1>8, <2>1, <3>5, AbandonTypes DEF Cancel
  <2>2. CASE pc[c] \in {"permitted", "popped", "checking", "starting"}
    BY <1>8, <2>2, AbandonTypes DEF Cancel
  <2>. QED
    BY <1>8, <2>1, <2>2 DEF Cancel
<1>9. ASSUME NEW c \in Caller, ReturnSlot(c) \/ ReturnPermit(c) \/ TryAgain(c) PROVE Typed'
  BY <1>9, HoldersHaveSlots DEF ReturnSlot, ReturnPermit, TryAgain
<1>10. ASSUME NEW s \in Slot, KillSlot(s) \/ Crash(s) PROVE Typed'
  BY <1>10 DEF KillSlot, Crash
<1>11. CASE UNCHANGED vars
  BY <1>11 DEF vars
<1>. QED
  BY <1>1, <1>2, <1>3, <1>4, <1>5, <1>6, <1>7, <1>8, <1>9, <1>10, <1>11 DEF Next, CallerStep

\* Type correctness of the pool, for any number of callers and slots.
THEOREM TypeCorrect == Spec => []TypeOK
<1>1. Typed => TypeOK
  BY DEF Typed
<1>. QED
  BY <1>1, TypeInitially, TypeStep, PTL DEF Spec

-----------------------------------------------------------------------------
(* Slots: who holds which, and what is free. *)

\* What a caller's step does to slots: nothing, or it pops one, or it lets its
\* own go, back to the free list or for good.
Keeps(c) == slot' = slot /\ free' = free
Pops(c) ==
  /\ pc[c] \notin Holding
  /\ \E s \in free :
       /\ pc' = [pc EXCEPT ![c] = "popped"]
       /\ slot' = [slot EXCEPT ![c] = s] /\ free' = free \ {s}
LetsGo(c) ==
  /\ \E p \in Steps \ Holding : pc' = [pc EXCEPT ![c] = p]
  /\ slot' = [slot EXCEPT ![c] = None]
  /\ free' = free \/ (pc[c] \in Holding /\ free' = free \cup {slot[c]})

Acts(c) ==
  CallerStep(c) \/ Enqueue(c) \/ ReturnSlot(c) \/ Cancel(c) \/ TryAgain(c)

LEMMA SlotSteps ==
  ASSUME Typed, NEW c \in Caller,
         Acts(c)
  PROVE  \/ Keeps(c) /\ \E p \in Steps : /\ p \in Holding <=> pc[c] \in Holding
                                         /\ pc' = [pc EXCEPT ![c] = p]
         \/ Pops(c)
         \/ LetsGo(c)
<1> USE StepsAre DEF Keeps, Pops, LetsGo, Goto
<1>1. CASE Enqueue(c) \/ Grant(c) \/ TryAgain(c) \/ ReturnPermit(c)
  BY <1>1 DEF Enqueue, Grant, TryAgain, ReturnPermit
<1>2. CASE PopSlot(c)
  BY <1>2 DEF PopSlot
<1>3. CASE LockSlot(c) \/ CheckHealth(c) \/ Spawn(c) \/ BecomeReady(c)
  BY <1>3 DEF LockSlot, CheckHealth, Spawn, BecomeReady
<1>4. CASE Fail(c) \/ ReturnSlot(c)
  BY <1>4 DEF Fail, ReturnSlot, Abandon
<1>5. CASE Cancel(c)
  BY <1>5 DEF Cancel, Abandon
<1>. QED
  BY <1>1, <1>2, <1>3, <1>4, <1>5 DEF Acts, CallerStep

\* No slot comes back that was not handed out, and none appears from nowhere: what
\* was lost stays lost.
LEMMA SlotsStep ==
  ASSUME Typed, SlotExclusive, [Next]_vars
  PROVE  SlotExclusive' /\ Lost \subseteq Lost'
<1> USE PoolAssumption DEF Typed, TypeOK, SlotState, SlotExclusive, Lost, Held, Holders
<1>1. ASSUME NEW c \in Caller, Acts(c)
      PROVE  SlotExclusive' /\ Lost \subseteq Lost'
  <2>1. CASE Keeps(c) /\ \E p \in Steps : /\ p \in Holding <=> pc[c] \in Holding
                                          /\ pc' = [pc EXCEPT ![c] = p]
    <3>1. \A d \in Caller : pc'[d] \in Holding <=> pc[d] \in Holding
      BY <2>1
    <3>2. Holders' = Holders
      BY <3>1
    <3>. QED
      BY <2>1, <3>2 DEF Keeps
  <2>2. CASE Pops(c)
    <3>1. PICK s \in free : /\ pc' = [pc EXCEPT ![c] = "popped"]
                            /\ slot' = [slot EXCEPT ![c] = s] /\ free' = free \ {s}
      BY <2>2 DEF Pops
    <3>2. c \notin Holders /\ Holders' = Holders \cup {c}
      BY <2>2, <3>1, StepsAre DEF Pops
    <3>3. slot'[c] = s /\ \A d \in Holders : slot'[d] = slot[d] /\ slot[d] # s
      BY <3>1, <3>2
    <3>4. Held' = Held \cup {s}
      BY <3>2, <3>3
    <3>. QED
      BY <3>1, <3>2, <3>3, <3>4
  <2>3. CASE LetsGo(c)
    <3>1. Holders' = Holders \ {c} /\ \A d \in Holders \ {c} : slot'[d] = slot[d]
      BY <2>3 DEF LetsGo
    <3>2. Held' = {slot[d] : d \in Holders \ {c}}
      BY <3>1
    <3>3. c \in Holders => slot[c] \notin Held' /\ slot[c] \in Held
      <4>1. c \in Holders => \A d \in Holders \ {c} : slot[d] # slot[c]
        OBVIOUS
      <4>. QED
        BY <3>1, <4>1
    <3>. QED
      BY <2>3, <3>1, <3>2, <3>3 DEF LetsGo
  <2>. QED
    BY <1>1, <2>1, <2>2, <2>3, SlotSteps
<1>2. ASSUME NEW s \in Slot, KillSlot(s) \/ Crash(s)
      PROVE  SlotExclusive' /\ Lost \subseteq Lost'
  BY <1>2 DEF KillSlot, Crash
<1>3. CASE UNCHANGED vars
  BY <1>3 DEF vars
<1>. QED
  BY <1>1, <1>2, <1>3 DEF Next, Acts

LEMMA SlotsInitially == Init => SlotExclusive
BY StepsAre DEF Init, SlotExclusive, Held, Holders

\* A slot, and so a process, belongs to one caller at most, and never to a caller
\* and to the free list, whatever acquires fail, panic or are dropped.
THEOREM SlotsAreExclusive == Spec => []SlotExclusive
<1>1. Typed /\ SlotExclusive /\ [Next]_vars => (Typed /\ SlotExclusive)'
  BY TypeStep, SlotsStep
<1>. QED
  BY <1>1, TypeInitially, SlotsInitially, PTL DEF Spec

-----------------------------------------------------------------------------
(* Mutexes. *)

Locked == OwnerLocks /\ LockedByHolder

LEMMA LocksInitially == Init => Locked
BY StepsAre DEF Init, Locked, OwnerLocks, LockedByHolder

LEMMA LocksStep ==
  ASSUME Typed, SlotExclusive, Locked, [Next]_vars
  PROVE  Locked'
<1> USE PoolAssumption, StepsAre DEF Locked, OwnerLocks, LockedByHolder, Goto
<1>0. TypeOK /\ SlotState
  BY DEF Typed
<1>1. /\ pc \in [Caller -> Steps] /\ lock \in [Slot -> Caller \cup {None}]
      /\ slot \in [Caller -> Slot \cup {None}] /\ starting \subseteq Slot
  BY <1>0 DEF TypeOK
<1>2. \A c \in Caller : pc[c] \in Holding => slot[c] \in Slot
  BY HoldersHaveSlots
<1>3. \A c, d \in Caller :
        pc[c] \in Holding /\ pc[d] \in Holding /\ slot[c] = slot[d] => c = d
  BY DEF SlotExclusive, Holders
<1>4. ASSUME NEW c \in Caller,
             \/ Enqueue(c) \/ Grant(c) \/ PopSlot(c) \/ TryAgain(c)
             \/ ReturnSlot(c) \/ ReturnPermit(c)
      PROVE  Locked'
  <2>1. /\ pc[c] \in {"idle", "queued", "permitted", "failed", "panicked", "leased", "returning"}
        /\ \E p \in {"idle", "queued", "permitted", "popped", "panicked", "returning"} :
             pc' = [pc EXCEPT ![c] = p]
        /\ lock' = lock /\ starting' = starting
        /\ \A d \in Caller \ {c} : slot'[d] = slot[d]
    BY <1>1, <1>4 DEF Enqueue, Grant, PopSlot, TryAgain, ReturnSlot, ReturnPermit
  <2>2. /\ pc'[c] \notin {"checking", "spawning", "starting"}
        /\ \A d \in Caller \ {c} : pc'[d] = pc[d]
    BY <1>1, <2>1
  <2>. QED
    BY <1>1, <2>1, <2>2
<1>5. ASSUME NEW c \in Caller, LockSlot(c) PROVE Locked'
  <2>1. /\ slot[c] \in Slot /\ lock[slot[c]] = None
        /\ pc'[c] \in {"checking", "spawning"} /\ \A d \in Caller \ {c} : pc'[d] = pc[d]
        /\ lock'[slot[c]] = c /\ \A s \in Slot \ {slot[c]} : lock'[s] = lock[s]
        /\ starting' = starting /\ slot' = slot
    BY <1>1, <1>2, <1>5 DEF LockSlot
  <2>. QED
    BY <1>1, <2>1, <1>5 DEF LockSlot
<1>6. ASSUME NEW c \in Caller, CheckHealth(c) PROVE Locked'
  <2>1. /\ pc[c] = "checking" /\ slot[c] \in Slot /\ lock[slot[c]] = c
        /\ \A d \in Caller \ {c} : pc'[d] = pc[d]
        /\ starting' = starting /\ slot' = slot
        /\ \/ pc'[c] = "leased" /\ lock'[slot[c]] = None
           \/ pc'[c] = "spawning" /\ lock'[slot[c]] = c
        /\ \A s \in Slot \ {slot[c]} : lock'[s] = lock[s]
    BY <1>1, <1>2, <1>6 DEF CheckHealth
  <2>2. slot[c] \notin starting
    BY <2>1
  <2>3. \A d \in Caller \ {c} : pc[d] \in Holding => slot[d] # slot[c]
    BY <1>3, <2>1
  <2>4. OwnerLocks'
    BY <1>1, <1>2, <2>1, <2>3
  <2>5. LockedByHolder'
    BY <1>1, <2>1, <2>2
  <2>. QED
    BY <2>4, <2>5
<1>7. ASSUME NEW c \in Caller, Spawn(c) PROVE Locked'
  <2>1. /\ slot[c] \in Slot /\ lock[slot[c]] = c
        /\ pc'[c] = "starting" /\ \A d \in Caller \ {c} : pc'[d] = pc[d]
        /\ starting' = starting \cup {slot[c]} /\ slot' = slot /\ lock' = lock
    BY <1>1, <1>2, <1>7 DEF Spawn
  <2>. QED
    BY <1>1, <2>1, <1>7 DEF Spawn
<1>8. ASSUME NEW c \in Caller, BecomeReady(c) PROVE Locked'
  <2>1. /\ pc[c] = "starting" /\ slot[c] \in Slot /\ lock[slot[c]] = c
        /\ pc'[c] = "leased" /\ \A d \in Caller \ {c} : pc'[d] = pc[d]
        /\ starting' = starting \ {slot[c]} /\ slot' = slot
        /\ lock'[slot[c]] = None /\ \A s \in Slot \ {slot[c]} : lock'[s] = lock[s]
    BY <1>1, <1>2, <1>8 DEF BecomeReady
  <2>3. \A d \in Caller \ {c} : pc[d] \in Holding => slot[d] # slot[c]
    BY <1>3, <2>1
  <2>4. OwnerLocks'
    BY <1>1, <1>2, <2>1, <2>3
  <2>5. LockedByHolder'
    BY <1>1, <2>1
  <2>. QED
    BY <2>4, <2>5
<1>9. ASSUME NEW c \in Caller, Fail(c) \/ Cancel(c) PROVE Locked'
  <2>1. /\ pc'[c] \in {"idle", "failed"} /\ \A d \in Caller \ {c} : pc'[d] = pc[d]
        /\ \/ pc[c] = "queued" /\ lock' = lock /\ starting' = starting /\ slot' = slot
           \/ Abandon(c)
    BY <1>1, <1>9 DEF Fail, Cancel
  <2>2. CASE Abandon(c)
    <3>1. /\ \A s \in Slot : lock'[s] = IF lock[s] = c THEN None ELSE lock[s]
          /\ starting' = starting \ {s \in Slot : lock[s] = c}
          /\ \A d \in Caller \ {c} : slot'[d] = slot[d]
      BY <1>1, <2>2 DEF Abandon
    <3>. QED
      BY <1>1, <1>2, <2>1, <3>1
  <2>3. CASE pc[c] = "queued" /\ lock' = lock /\ starting' = starting /\ slot' = slot
    BY <1>1, <2>1, <2>3
  <2>. QED
    BY <2>1, <2>2, <2>3
<1>10. ASSUME NEW s \in Slot, KillSlot(s) \/ Crash(s) PROVE Locked'
  BY <1>10 DEF KillSlot, Crash
<1>11. CASE UNCHANGED vars
  BY <1>11 DEF vars
<1>. QED
  BY <1>4, <1>5, <1>6, <1>7, <1>8, <1>9, <1>10, <1>11 DEF Next, CallerStep

\* The mutex of a slot is only ever held by the slot's owner.
THEOREM LocksFollowSlots == Spec => []LockedByHolder
<1>1. /\ Typed /\ SlotExclusive /\ Locked /\ [Next]_vars
      => (Typed /\ SlotExclusive /\ Locked)'
  BY TypeStep, SlotsStep, LocksStep
<1>2. Locked => LockedByHolder
  BY DEF Locked
<1>. QED
  BY <1>1, <1>2, TypeInitially, SlotsInitially, LocksInitially, PTL DEF Spec

-----------------------------------------------------------------------------
(* Permits: counted in the semaphore and with the callers. *)

Owners == {c \in Caller : pc[c] \in Permitted}

\* What a caller's step does to permits.
Takes(c) ==
  /\ c \notin Owners /\ permits > 0 /\ permits' = permits - 1
  /\ pc' = [pc EXCEPT ![c] = "permitted"]
Gives(c) ==
  /\ c \in Owners /\ permits' = permits + 1
  /\ \E p \in Steps \ Permitted : pc' = [pc EXCEPT ![c] = p]

LEMMA PermitSteps ==
  ASSUME Typed, NEW c \in Caller,
         Acts(c)
  PROVE  \/ Takes(c)
         \/ Gives(c)
         \/ /\ permits' = permits
            /\ \E p \in Steps : /\ p \in Permitted <=> pc[c] \in Permitted
                                /\ pc' = [pc EXCEPT ![c] = p]
<1> USE StepsAre DEF Takes, Gives, Owners, Goto
<1>1. CASE Enqueue(c) \/ Grant(c) \/ TryAgain(c) \/ ReturnPermit(c)
  BY <1>1 DEF Enqueue, Grant, TryAgain, ReturnPermit
<1>2. CASE PopSlot(c)
  BY <1>2 DEF PopSlot
<1>3. CASE LockSlot(c) \/ CheckHealth(c) \/ Spawn(c) \/ BecomeReady(c)
  BY <1>3 DEF LockSlot, CheckHealth, Spawn, BecomeReady
<1>4. CASE Fail(c) \/ ReturnSlot(c)
  BY <1>4 DEF Fail, ReturnSlot, Abandon
<1>5. CASE Cancel(c)
  BY <1>5 DEF Cancel, Abandon
<1>. QED
  BY <1>1, <1>2, <1>3, <1>4, <1>5 DEF Acts, CallerStep

LEMMA PermitsStep ==
  ASSUME Typed, PermitsKept, [Next]_vars
  PROVE  PermitsKept'
<1>1. IsFiniteSet(Owners) /\ Cardinality(Owners) \in Nat
  BY PoolAssumption, FS_Subset, FS_CardinalityType DEF Owners
<1>2. permits \in Nat /\ pc \in [Caller -> Steps]
  BY DEF Typed, TypeOK
<1>3. permits + Cardinality(Owners) = Cardinality(Slot)
  BY DEF PermitsKept, Owners
<1>4. SUFFICES permits' + Cardinality(Owners') = Cardinality(Slot)
  BY DEF PermitsKept, Owners
<1>5. ASSUME NEW c \in Caller, Acts(c)
      PROVE  permits' + Cardinality(Owners') = Cardinality(Slot)
  <2>1. CASE Takes(c)
    <3>1. Owners' = Owners \cup {c}
      BY <1>2, <2>1, StepsAre DEF Takes, Owners
    <3>2. Cardinality(Owners') = Cardinality(Owners) + 1
      BY <1>1, <2>1, <3>1, FS_AddElement DEF Takes
    <3>. QED
      BY <1>1, <1>2, <1>3, <2>1, <3>2 DEF Takes
  <2>2. CASE Gives(c)
    <3>1. Owners' = Owners \ {c}
      BY <1>2, <2>2 DEF Gives, Owners
    <3>2. Cardinality(Owners') = Cardinality(Owners) - 1
      BY <1>1, <2>2, <3>1, FS_RemoveElement DEF Gives
    <3>. QED
      BY <1>1, <1>2, <1>3, <2>2, <3>2 DEF Gives
  <2>3. CASE /\ permits' = permits
             /\ \E p \in Steps : /\ p \in Permitted <=> pc[c] \in Permitted
                                 /\ pc' = [pc EXCEPT ![c] = p]
    <3>1. Owners' = Owners
      BY <1>2, <2>3 DEF Owners
    <3>. QED
      BY <1>3, <2>3, <3>1
  <2>. QED
    BY <1>5, <2>1, <2>2, <2>3, PermitSteps
<1>6. ASSUME NEW s \in Slot, KillSlot(s) \/ Crash(s)
      PROVE  permits' + Cardinality(Owners') = Cardinality(Slot)
  BY <1>3, <1>6 DEF KillSlot, Crash, Owners
<1>7. CASE UNCHANGED vars
  BY <1>3, <1>7 DEF vars, Owners
<1>. QED
  BY <1>5, <1>6, <1>7 DEF Next, Acts

LEMMA PermitsInitially == Init => PermitsKept
<1> SUFFICES ASSUME Init PROVE PermitsKept
  OBVIOUS
<1>1. {c \in Caller : pc[c] \in Permitted} = {}
  BY StepsAre DEF Init
<1>2. permits = Cardinality(Slot) /\ Cardinality(Slot) \in Nat
  BY PoolAssumption, FS_CardinalityType DEF Init
<1>3. Cardinality({c \in Caller : pc[c] \in Permitted}) = 0
  BY <1>1, FS_EmptySet
<1>. QED
  BY <1>2, <1>3 DEF PermitsKept

\* The semaphore never hands out more than capacity permits, and none is lost:
\* neither a failed nor a panicked nor a dropped acquire keeps its own.
THEOREM PermitsAreKept == Spec => []PermitsKept
<1>1. Typed /\ PermitsKept /\ [Next]_vars => (Typed /\ PermitsKept)'
  BY TypeStep, PermitsStep
<1>. QED
  BY <1>1, TypeInitially, PermitsInitially, PTL DEF Spec

-----------------------------------------------------------------------------
(* The panic of acquire. *)

\* A caller with a permit that finds no free slot is not the fault of the others
\* that hold one: there are fewer of them than slots.
LEMMA EmptyListMeansLoss ==
  ASSUME Typed, PermitsKept, NEW c \in Caller, pc[c] = "permitted", free = {}
  PROVE  Lost # {}
<1> DEFINE holderSlot == [h \in Holders |-> slot[h]]
<1>1. IsFiniteSet(Owners) /\ Cardinality(Owners) \in Nat /\ c \in Owners
  BY PoolAssumption, StepsAre, FS_Subset, FS_CardinalityType DEF Owners
<1>2. Cardinality(Owners) <= Cardinality(Slot) /\ Cardinality(Slot) \in Nat
  BY <1>1, PoolAssumption, FS_CardinalityType DEF Typed, TypeOK, PermitsKept, Owners
<1>3. Holders \subseteq Owners \ {c}
  BY StepsAre DEF Holders, Owners
<1>4. IsFiniteSet(Owners \ {c}) /\ Cardinality(Owners \ {c}) = Cardinality(Owners) - 1
  BY <1>1, FS_RemoveElement
<1>5. IsFiniteSet(Holders) /\ Cardinality(Holders) <= Cardinality(Owners) - 1
  BY <1>3, <1>4, FS_Subset
<1>6. holderSlot \in Surjection(Holders, Held)
  BY DEF Surjection, Held
<1>7. IsFiniteSet(Held) /\ Cardinality(Held) <= Cardinality(Holders)
  BY <1>5, <1>6, FS_Surjection
<1>8. Cardinality(Held) < Cardinality(Slot)
  <2>1. Cardinality(Held) \in Nat /\ Cardinality(Holders) \in Nat
    BY <1>5, <1>7, FS_CardinalityType
  <2>. QED
    BY <1>1, <1>2, <1>5, <1>7, <2>1
<1>9. Held \subseteq Slot
  BY HoldersHaveSlots DEF Held, Holders
<1>10. Held # Slot
  BY <1>2, <1>8
<1>. QED
  BY <1>9, <1>10 DEF Lost

LEMMA PanicsStep ==
  ASSUME Typed, SlotExclusive, PermitsKept, PanicsOnlyAfterLoss, [Next]_vars
  PROVE  PanicsOnlyAfterLoss'
<1>1. Lost \subseteq Lost'
  BY SlotsStep
<1>2. SUFFICES ASSUME NEW c \in Caller, pc'[c] = "panicked" PROVE Lost # {}
  BY <1>1 DEF PanicsOnlyAfterLoss
<1>3. CASE pc[c] = "panicked"
  BY <1>3 DEF PanicsOnlyAfterLoss
<1>4. CASE pc[c] # "panicked"
  <2>1. pc \in [Caller -> Steps]
    BY DEF Typed, TypeOK
  <2>2. ASSUME NEW d \in Caller, PopSlot(d) PROVE Lost # {}
    <3>1. pc[c] = "permitted" /\ free = {}
      BY <1>2, <1>4, <2>1, <2>2 DEF PopSlot, Goto
    <3>. QED
      BY <3>1, EmptyListMeansLoss
  <2>3. ASSUME NEW d \in Caller,
               Enqueue(d) \/ Grant(d) \/ LockSlot(d) \/ CheckHealth(d) \/ Spawn(d)
        PROVE  FALSE
    BY <1>2, <1>4, <2>1, <2>3 DEF Enqueue, Grant, LockSlot, CheckHealth, Spawn, Goto
  <2>4. ASSUME NEW d \in Caller,
               \/ BecomeReady(d) \/ Fail(d) \/ Cancel(d)
               \/ ReturnSlot(d) \/ ReturnPermit(d) \/ TryAgain(d)
        PROVE  FALSE
    BY <1>2, <1>4, <2>1, <2>4
    DEF BecomeReady, Fail, Cancel, ReturnSlot, ReturnPermit, TryAgain, Goto
  <2>5. ASSUME NEW s \in Slot, KillSlot(s) \/ Crash(s) PROVE FALSE
    BY <1>2, <1>4, <2>5 DEF KillSlot, Crash
  <2>6. vars' # vars
    BY <1>2, <1>4 DEF vars
  <2>. QED
    BY <2>2, <2>3, <2>4, <2>5, <2>6 DEF Next, CallerStep
<1>. QED
  BY <1>3, <1>4

LEMMA PanicsInitially == Init => PanicsOnlyAfterLoss
BY DEF Init, PanicsOnlyAfterLoss

\* The expect of acquire, "permit obtido implica slot livre disponivel", can fail
\* only after an earlier acquire lost a slot: leases alone never break it.
THEOREM PanicsNeedALoss == Spec => []PanicsOnlyAfterLoss
<1>1. /\ Typed /\ SlotExclusive /\ PermitsKept /\ PanicsOnlyAfterLoss /\ [Next]_vars
      => (Typed /\ SlotExclusive /\ PermitsKept /\ PanicsOnlyAfterLoss)'
  BY TypeStep, SlotsStep, PermitsStep, PanicsStep
<1>. QED
  BY <1>1, TypeInitially, SlotsInitially, PermitsInitially, PanicsInitially, PTL DEF Spec

\* A failed or dropped acquire may lose its slot, never its permit, and only such a loss
\* makes a later acquire panic.
THEOREM LossIsAlwaysBounded == Spec => []LossIsBounded
BY PermitsAreKept, PanicsNeedALoss, PTL DEF LossIsBounded

-----------------------------------------------------------------------------
(* Processes. *)

LEMMA StartsInitially == Init => StartsOverDead
BY StepsAre DEF Init, StartsOverDead

LEMMA StartsStep ==
  ASSUME Typed, SlotExclusive, Locked, StartsOverDead, [Next]_vars
  PROVE  StartsOverDead'
<1> USE PoolAssumption, StepsAre DEF StartsOverDead, Goto
<1>1. /\ pc \in [Caller -> Steps] /\ slot \in [Caller -> Slot \cup {None}]
      /\ process \in [Slot -> {"none", "up", "hung", "dead"}]
  BY DEF Typed, TypeOK
<1>2. \A c \in Caller : pc[c] \in Holding => slot[c] \in Slot
  BY HoldersHaveSlots
<1>3. \A c, d \in Caller :
        pc[c] \in Holding /\ pc[d] \in Holding /\ slot[c] = slot[d] => c = d
  BY DEF SlotExclusive, Holders
<1>4. ASSUME NEW c \in Caller,
             \/ Enqueue(c) \/ Grant(c) \/ PopSlot(c) \/ TryAgain(c)
             \/ ReturnSlot(c) \/ ReturnPermit(c)
      PROVE  StartsOverDead'
  <2>1. /\ pc'[c] \notin {"spawning", "starting"} /\ process' = process
        /\ \A d \in Caller \ {c} : pc'[d] = pc[d] /\ slot'[d] = slot[d]
    BY <1>1, <1>4 DEF Enqueue, Grant, PopSlot, TryAgain, ReturnSlot, ReturnPermit
  <2>. QED
    BY <1>1, <2>1
<1>5. ASSUME NEW c \in Caller, LockSlot(c) \/ CheckHealth(c) \/ Spawn(c)
      PROVE  StartsOverDead'
  <2>1. /\ pc'[c] \in {"spawning", "starting"} => process[slot[c]] \in {"none", "dead"}
        /\ process' = process /\ slot' = slot
        /\ \A d \in Caller \ {c} : pc'[d] = pc[d]
    BY <1>1, <1>2, <1>5 DEF LockSlot, CheckHealth, Spawn
  <2>. QED
    BY <1>1, <2>1
<1>6. ASSUME NEW c \in Caller, BecomeReady(c) PROVE StartsOverDead'
  <2>1. /\ pc[c] = "starting" /\ slot[c] \in Slot /\ slot' = slot
        /\ pc'[c] = "leased" /\ \A d \in Caller \ {c} : pc'[d] = pc[d]
        /\ \A s \in Slot \ {slot[c]} : process'[s] = process[s]
    BY <1>1, <1>2, <1>6 DEF BecomeReady
  <2>2. \A d \in Caller \ {c} : pc[d] \in Holding => slot[d] # slot[c]
    BY <1>3, <2>1
  <2>. QED
    BY <1>1, <1>2, <2>1, <2>2
<1>7. ASSUME NEW c \in Caller, Fail(c) \/ Cancel(c) PROVE StartsOverDead'
  <2>1. /\ pc'[c] \notin {"spawning", "starting"} /\ process' = process
        /\ \A d \in Caller \ {c} : pc'[d] = pc[d] /\ slot'[d] = slot[d]
    BY <1>1, <1>7 DEF Fail, Cancel, Abandon
  <2>. QED
    BY <1>1, <2>1
<1>8. ASSUME NEW s \in Slot, KillSlot(s) \/ Crash(s) PROVE StartsOverDead'
  <2>1. /\ pc' = pc /\ slot' = slot /\ process[s] \in {"up", "hung"}
        /\ \A r \in Slot \ {s} : process'[r] = process[r]
    BY <1>1, <1>8 DEF KillSlot, Crash
  <2>. QED
    BY <1>1, <1>2, <2>1
<1>9. CASE UNCHANGED vars
  BY <1>9 DEF vars
<1>. QED
  BY <1>4, <1>5, <1>6, <1>7, <1>8, <1>9 DEF Next, CallerStep

LEMMA CapFollows ==
  ASSUME Typed, Locked, StartsOverDead
  PROVE  ProcessesCapped
<1> DEFINE alive == {s \in Slot : process[s] \in {"up", "hung"}}
<1>1. starting \subseteq Slot /\ lock \in [Slot -> Caller \cup {None}]
  BY DEF Typed, TypeOK
<1>2. ASSUME NEW s \in starting PROVE process[s] \in {"none", "dead"}
  <2>1. s \in Slot /\ lock[s] \in Caller /\ pc[lock[s]] = "starting" /\ slot[lock[s]] = s
    BY <1>1 DEF Locked, LockedByHolder
  <2>. QED
    BY <2>1 DEF StartsOverDead
<1>3. alive \cap starting = {}
  BY <1>2
<1>4. IsFiniteSet(alive) /\ IsFiniteSet(starting)
  BY <1>1, PoolAssumption, FS_Subset
<1>5. /\ Cardinality(alive) + Cardinality(starting) = Cardinality(alive \cup starting)
      /\ Cardinality(alive \cup starting) <= Cardinality(Slot)
  <2>1. Cardinality(alive \cup starting) =
          Cardinality(alive) + Cardinality(starting) - Cardinality(alive \cap starting)
    BY <1>4, FS_Union
  <2>2. Cardinality(alive \cap starting) = 0
    BY <1>3, FS_EmptySet
  <2>3. Cardinality(alive) \in Nat /\ Cardinality(starting) \in Nat
    BY <1>4, FS_CardinalityType
  <2>4. Cardinality(alive \cup starting) <= Cardinality(Slot)
    BY <1>1, PoolAssumption, FS_Subset
  <2>. QED
    BY <2>1, <2>2, <2>3, <2>4
<1>. QED
  BY <1>5 DEF ProcessesCapped

\* No more processes than capacity, alive or on their way up.
THEOREM ProcessesAreCapped == Spec => []ProcessesCapped
<1>1. /\ Typed /\ SlotExclusive /\ Locked /\ StartsOverDead /\ [Next]_vars
      => (Typed /\ SlotExclusive /\ Locked /\ StartsOverDead)'
  BY TypeStep, SlotsStep, LocksStep, StartsStep
<1>2. Typed /\ Locked /\ StartsOverDead => ProcessesCapped
  BY CapFollows
<1>. QED
  BY <1>1, <1>2, TypeInitially, SlotsInitially, LocksInitially, StartsInitially, PTL DEF Spec

\* A squad has a process of its own, and there are no more processes than slots.
THEOREM ProcessesStayDistinct == Spec => []ProcessesAreDistinct
BY SlotsAreExclusive, ProcessesAreCapped, PTL DEF ProcessesAreDistinct

-----------------------------------------------------------------------------
(* The pool leases processes as ProcessLease promises. *)

\* A caller's step that ends where it started from, leased or not, changes no lease.
LEMMA LeasesStay ==
  ASSUME Typed, NEW c \in Caller, NEW p \in Steps, pc' = [pc EXCEPT ![c] = p],
         pc[c] # "leased", p # "leased", \A d \in Caller \ {c} : slot'[d] = slot[d]
  PROVE  Leases' = Leases
<1>1. \A d \in Caller : IF d = c THEN pc'[d] = p ELSE pc'[d] = pc[d] /\ slot'[d] = slot[d]
  BY DEF Typed, TypeOK
<1>2. \A d \in Caller : (IF pc'[d] = "leased" THEN {slot'[d]} ELSE {})
                        = (IF pc[d] = "leased" THEN {slot[d]} ELSE {})
  BY <1>1
<1>. QED
  BY <1>2 DEF Leases

LEMMA LeaseStep ==
  ASSUME Typed, SlotExclusive, [Next]_vars
  PROVE  [Lease!Next]_(Lease!vars)
<1>. USE DEF Lease!vars
<1>1. pc \in [Caller -> Steps] /\ process \in [Slot -> {"none", "up", "hung", "dead"}]
      /\ slot \in [Caller -> Slot \cup {None}]
  BY DEF Typed, TypeOK
\* Most steps are on the way to a lease or beside it.
<1>2. ASSUME NEW c \in Caller, \/ Enqueue(c) \/ Grant(c) \/ PopSlot(c) \/ LockSlot(c) \/ Spawn(c)
                               \/ Fail(c) \/ ReturnPermit(c) \/ Cancel(c) \/ TryAgain(c)
      PROVE  UNCHANGED <<Leases, Answering>>
  <2>1. process' = process
    BY <1>2 DEF Enqueue, Grant, PopSlot, LockSlot, Spawn, Fail, ReturnPermit, Cancel, TryAgain, Abandon
  <2>2. pc[c] # "leased" /\ (\A d \in Caller \ {c} : slot'[d] = slot[d])
        /\ \E p \in Steps \ {"leased"} : pc' = [pc EXCEPT ![c] = p]
    <3>1. CASE Enqueue(c) \/ Grant(c) \/ ReturnPermit(c) \/ TryAgain(c) \/ Spawn(c) \/ LockSlot(c)
      BY <3>1, StepsAre DEF Enqueue, Grant, ReturnPermit, TryAgain, Spawn, LockSlot, Goto
    <3>2. CASE PopSlot(c) \/ Fail(c) \/ Cancel(c)
      BY <1>1, <3>2, StepsAre DEF PopSlot, Fail, Cancel, Abandon, Goto
    <3>. QED
      BY <1>2, <3>1, <3>2
  <2>3. Leases' = Leases
    BY <2>2, LeasesStay
  <2>4. Answering' = Answering
    BY <2>1 DEF Answering
  <2>. QED
    BY <2>3, <2>4
\* A process that answers is leased, or a new one that has come up.
<1>3. ASSUME NEW c \in Caller, pc[c] \in {"checking", "starting"}, pc' = [pc EXCEPT ![c] = "leased"],
             slot' = slot, Answering' = Answering \cup {slot[c]}
      PROVE  Lease!Take(c, slot[c]) /\ slot[c] \in Slot
  <2>. DEFINE s == slot[c]
  <2>1. s \in Slot /\ c \in Holders
    BY <1>3, HoldersHaveSlots, StepsAre DEF Holders
  <2>2. \A d \in Caller : Leases[d] = IF pc[d] = "leased" THEN {slot[d]} ELSE {}
    BY DEF Leases
  <2>3. Leases[c] = {}
    BY <1>3, <2>2
  <2>4. \A d \in Caller : s \notin Leases[d]
    <3>1. ASSUME NEW d \in Caller, s \in Leases[d] PROVE FALSE
      <4>1. pc[d] = "leased" /\ slot[d] = s
        BY <2>2, <3>1
      <4>2. d \in Holders
        BY <4>1, StepsAre DEF Holders
      <4>. QED
        BY <1>3, <2>1, <4>1, <4>2 DEF SlotExclusive
    <3>. QED
      BY <3>1
  <2>5. Leases' = [Leases EXCEPT ![c] = {s}]
    <3>1. \A d \in Caller : pc'[d] = IF d = c THEN "leased" ELSE pc[d]
      BY <1>1, <1>3
    <3>2. \A d \in Caller : (IF pc'[d] = "leased" THEN {slot'[d]} ELSE {})
                            = IF d = c THEN {s} ELSE Leases[d]
      BY <1>3, <2>2, <3>1
    <3>. QED
      BY <3>2 DEF Leases
  <2>. QED
    BY <1>3, <2>1, <2>3, <2>4, <2>5 DEF Lease!Take
<1>4. ASSUME NEW c \in Caller, CheckHealth(c) PROVE [Lease!Next]_(Lease!vars)
  <2>1. pc[c] = "checking" /\ slot' = slot /\ process' = process
    BY <1>4 DEF CheckHealth
  <2>2. slot[c] \in Slot
    BY <2>1, HoldersHaveSlots, StepsAre
  <2>3. CASE process[slot[c]] = "up" /\ Goto(c, "checking", "leased")
    <3>1. Answering' = Answering /\ slot[c] \in Answering
      BY <2>1, <2>2, <2>3 DEF Answering
    <3>2. Lease!Take(c, slot[c])
      BY <1>3, <2>1, <2>3, <3>1 DEF Goto
    <3>. QED
      BY <2>2, <3>2 DEF Lease!Next
  <2>4. CASE Goto(c, "checking", "spawning")
    <3>1. Leases' = Leases
      BY <2>1, <2>4, LeasesStay, StepsAre DEF Goto
    <3>2. Answering' = Answering
      BY <2>1 DEF Answering
    <3>. QED
      BY <3>1, <3>2
  <2>. QED
    BY <1>4, <2>3, <2>4 DEF CheckHealth
<1>5. ASSUME NEW c \in Caller, BecomeReady(c) PROVE [Lease!Next]_(Lease!vars)
  <2>1. /\ pc[c] = "starting" /\ pc' = [pc EXCEPT ![c] = "leased"] /\ slot' = slot
        /\ process' = [process EXCEPT ![slot[c]] = "up"]
    BY <1>5 DEF BecomeReady, Goto
  <2>2. slot[c] \in Slot
    BY <2>1, HoldersHaveSlots, StepsAre
  <2>3. Answering' = Answering \cup {slot[c]}
    BY <1>1, <2>1, <2>2 DEF Answering
  <2>4. Lease!Take(c, slot[c])
    BY <1>3, <2>1, <2>3
  <2>. QED
    BY <2>2, <2>4 DEF Lease!Next
<1>6. ASSUME NEW c \in Caller, ReturnSlot(c) PROVE [Lease!Next]_(Lease!vars)
  <2>1. /\ pc[c] = "leased" /\ pc' = [pc EXCEPT ![c] = "returning"]
        /\ slot' = [slot EXCEPT ![c] = None] /\ process' = process
    BY <1>6 DEF ReturnSlot, Goto
  <2>2. \A d \in Caller : Leases[d] = IF pc[d] = "leased" THEN {slot[d]} ELSE {}
    BY DEF Leases
  <2>3. \A d \in Caller : (IF pc'[d] = "leased" THEN {slot'[d]} ELSE {})
                          = IF d = c THEN {} ELSE Leases[d]
    BY <1>1, <2>1, <2>2
  <2>4. Leases' = [Leases EXCEPT ![c] = {}]
    BY <2>3 DEF Leases
  <2>5. Leases[c] # {}
    BY <2>1, <2>2
  <2>6. Answering' = Answering
    BY <2>1 DEF Answering
  <2>. QED
    BY <2>4, <2>5, <2>6 DEF Lease!Give, Lease!Next
<1>7. ASSUME NEW s \in Slot, KillSlot(s) \/ Crash(s) PROVE [Lease!Next]_(Lease!vars)
  <2>1. pc' = pc /\ slot' = slot
    BY <1>7 DEF KillSlot, Crash
  <2>2. Leases' = Leases
    BY <2>1 DEF Leases
  <2>3. \E how \in {"dead", "hung"} : process' = [process EXCEPT ![s] = how]
    BY <1>7 DEF KillSlot, Crash
  <2>4. Answering' = Answering \ {s}
    BY <1>1, <2>3 DEF Answering
  <2>5. CASE s \in Answering
    BY <2>2, <2>4, <2>5 DEF Lease!Die, Lease!Next
  <2>6. CASE s \notin Answering
    BY <2>2, <2>4, <2>6
  <2>. QED
    BY <2>5, <2>6
<1>8. CASE UNCHANGED vars
  BY <1>8 DEF vars, Leases, Answering
<1>. QED
  BY <1>2, <1>4, <1>5, <1>6, <1>7, <1>8 DEF Next, CallerStep

\* Whatever acquires fail or are dropped and whichever processes die: who is let through
\* has a process that answers and that nobody else has, and that is started over for
\* nobody else until the lease is dropped (SquadPool::acquire, SquadLease::drop).
THEOREM PoolImplementsLease == Spec => ImplementsLease
<1>1. Init => Lease!Init
  <2>1. Init => Leases = [c \in Caller |-> {}]
    BY DEF Init, Leases
  <2>2. Answering \subseteq Slot
    BY DEF Answering
  <2>. QED
    BY <2>1, <2>2 DEF Lease!Init
<1>2. Typed /\ SlotExclusive /\ [Next]_vars => (Typed /\ SlotExclusive)'
  BY TypeStep, SlotsStep
<1>3. Typed /\ SlotExclusive /\ [Next]_vars => [Lease!Next]_(Lease!vars)
  BY LeaseStep
<1>. QED
  BY <1>1, <1>2, <1>3, TypeInitially, SlotsInitially, PTL DEF Spec, ImplementsLease, Lease!Spec
=============================================================================
