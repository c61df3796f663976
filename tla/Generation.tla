----------------------------- MODULE Generation -----------------------------
(***************************************************************************)
(* Generation of turns: the prompt cache over the rate limiter over the     *)
(* gateway (forge-cli's cache.rs and rate_limit_gen.rs, forge-llm's         *)
(* rate_limit.rs).                                                          *)
(*                                                                         *)
(* The calls of a process run concurrently and share the limiter and the    *)
(* cache.  With --no-cache that is a cache in memory, which behaves the     *)
(* same within a process.  Time is kept as ages and waits, so that the      *)
(* model needs no bound on it.  What the gateway does inside one call is    *)
(* Gateway's.                                                              *)
(***************************************************************************)
EXTENDS Naturals, Sequences, FiniteSets

CONSTANTS Call,         \* calls of CachedGenerator::generate
          Chat, Model,  \* contents of a request
          MaxRequests, Window,
          MaxWait,      \* longest sleeps a limiter may allow (for_tier: the window)
          MaxFaults,    \* bound: statements of the cache that fail
          None

ASSUME GenerationAssumption ==
  /\ MaxRequests \in Nat \ {0} /\ Window \in Nat \ {0} /\ MaxWait \subseteq Nat
  /\ MaxFaults \in Nat /\ None \notin Call

Request == [model : Model, chat : Chat]

VARIABLES pc,       \* step of a call
          request,  \* the request of a call
          wait,     \* what is left of a call's sleep
          result,   \* AssistantTurn of a call, or its error
          ages,     \* timestamps of the limiter, as ages, oldest first
          maxWait,  \* max_wait of the limiter
          cache,    \* the call whose turn is stored under a key
          faults,
          sent      \* ghost: ages of all calls that were let through, oldest first
vars == <<pc, request, wait, result, ages, maxWait, cache, faults, sent>>

Pc == {"new", "acquire", "sleep", "fetch", "store", "done"}

\* What a call has: nothing yet, a turn (whose, and whether its provider is
\* marked "+cache"), RateLimited or AllFailed.
Result == [kind : {"turn"}, by : Call, cached : BOOLEAN]
          \cup [kind : {"none", "refused", "failed"}, by : {None}, cached : {FALSE}]

NoTurn(kind)     == [kind |-> kind, by |-> None, cached |-> FALSE]
Turn(by, cached) == [kind |-> "turn", by |-> by, cached |-> cached]

TypeOK ==
  /\ pc \in [Call -> Pc]
  /\ request \in [Call -> Request]
  /\ wait \in [Call -> 0..Window]
  /\ result \in [Call -> Result]
  /\ ages \in Seq(0..Window) /\ Len(ages) <= MaxRequests
  /\ maxWait \in MaxWait
  /\ cache \in [Request -> Call \cup {None}]
  /\ faults \in 0..MaxFaults
  /\ sent \in Seq(0..Window)

Init ==
  /\ pc = [c \in Call |-> "new"] /\ request \in [Call -> Request]
  /\ wait = [c \in Call |-> 0] /\ result = [c \in Call |-> NoTurn("none")]
  /\ ages = <<>> /\ maxWait \in MaxWait
  /\ cache = [r \in Request |-> None] /\ faults = 0
  /\ sent = <<>>

Goto(c, step) == pc' = [pc EXCEPT ![c] = step]
Return(c, r)  == result' = [result EXCEPT ![c] = r]

-----------------------------------------------------------------------------
(* CachedGenerator *)

\* Faulty: the key leaves out the model.
CacheKey_ChatOnly(r) == [r EXCEPT !.model = CHOOSE m \in Model : TRUE]

\* The canonical envelope of a request, which is hashed.
CacheKey(r) == r

\* A stored turn is returned at once, and touches neither limiter nor network.
Hit(c) ==
  LET row == cache[CacheKey(request[c])] IN
  /\ pc[c] = "new" /\ row # None
  /\ Return(c, Turn(row, TRUE))
  /\ Goto(c, "done")
  /\ UNCHANGED <<request, wait, ages, maxWait, cache, faults, sent>>

\* No row, or one that cannot be read.
Miss(c) ==
  LET row == cache[CacheKey(request[c])] IN
  /\ pc[c] = "new"
  /\ \/ row = None /\ UNCHANGED faults
     \/ faults < MaxFaults /\ faults' = faults + 1
  /\ Goto(c, "acquire")
  /\ UNCHANGED <<request, wait, result, ages, maxWait, cache, sent>>

\* The row is replaced; a failed write is dropped.
Put(c) ==
  /\ pc[c] = "store"
  /\ \/ /\ cache' = [cache EXCEPT ![CacheKey(request[c])] = c]
        /\ UNCHANGED faults
     \/ faults < MaxFaults /\ faults' = faults + 1 /\ UNCHANGED cache
  /\ Goto(c, "done")
  /\ UNCHANGED <<request, wait, result, ages, maxWait, sent>>

-----------------------------------------------------------------------------
(* RateLimitedGenerator and RateLimiter *)

\* Timestamps that have left the window are popped from the front, up to the first that
\* has not.
IsExpired(ts, n) == /\ \A i \in 1..n : ts[i] >= Window
                    /\ n < Len(ts) => ts[n + 1] < Window
Expired(ts)  == CHOOSE n \in 0..Len(ts) : IsExpired(ts, n)
InWindow(ts) == SubSeq(ts, Expired(ts) + 1, Len(ts))

\* Faulty: one call too many takes a slot.
Full_OneMore(ts) == Len(ts) > MaxRequests

Full(ts) == Len(ts) >= MaxRequests

\* Faulty: a wait of exactly the longest one is refused.
TooLong_Longest(missing) == missing >= maxWait

TooLong(missing) == missing > maxWait

\* A slot is taken, or the call sleeps until the oldest timestamp has left the
\* window, or it would have to sleep for too long.
Poll(c) ==
  LET ts == InWindow(ages)
      missing == Window - Head(ts) IN
  /\ pc[c] = "acquire" \/ (pc[c] = "sleep" /\ wait[c] = 0)
  /\ \/ /\ ~Full(ts)
        /\ ages' = Append(ts, 0)
        /\ sent' = Append(sent, 0)
        /\ Goto(c, "fetch")
        /\ UNCHANGED <<wait, result>>
     \/ /\ Full(ts) /\ TooLong(missing)
        /\ ages' = ts
        /\ Return(c, NoTurn("refused")) /\ Goto(c, "done")
        /\ UNCHANGED <<wait, sent>>
     \/ /\ Full(ts) /\ ~TooLong(missing)
        /\ ages' = ts
        /\ wait' = [wait EXCEPT ![c] = missing] /\ Goto(c, "sleep")
        /\ UNCHANGED <<result, sent>>
  /\ UNCHANGED <<request, maxWait, cache, faults>>

-----------------------------------------------------------------------------
(* Gateway *)

\* A provider of the chain answers, or all of them fail: the error leaves
\* CachedGenerator by `?` and nothing is stored.
Fetch(c) ==
  /\ pc[c] = "fetch"
  /\ \/ Return(c, Turn(c, FALSE)) /\ Goto(c, "store")
     \/ Return(c, NoTurn("failed")) /\ Goto(c, "done")
  /\ UNCHANGED <<request, wait, ages, maxWait, cache, faults, sent>>

-----------------------------------------------------------------------------
(* Time *)

Older(ts) == [i \in 1..Len(ts) |-> IF ts[i] < Window THEN ts[i] + 1 ELSE Window]

Tick ==
  /\ ages' = Older(ages)
  /\ sent' = Older(sent)
  /\ wait' = [c \in Call |-> IF wait[c] > 0 THEN wait[c] - 1 ELSE 0]
  /\ UNCHANGED <<pc, request, result, maxWait, cache, faults>>

Step(c) == Hit(c) \/ Miss(c) \/ Poll(c) \/ Fetch(c) \/ Put(c)
Next == Tick \/ \E c \in Call : Step(c)

Spec == Init /\ [][Next]_vars

\* Time passes and the runtime polls every future that is ready.  That a
\* provider answers is assumed: the HTTP client has no timeout of its own.
FairSpec == Spec /\ WF_vars(Tick) /\ \A c \in Call : WF_vars(Step(c))

-----------------------------------------------------------------------------
(* Properties *)

\* No window holds more calls than the limit, however concurrent calls of a
\* process poll, sleep and wake: one that is let through comes a window after the
\* one MaxRequests before it (RateLimiter::poll under its mutex).
WindowHolds == \A i \in 1..Len(sent) : i + MaxRequests <= Len(sent) => sent[i] >= Window

\* The turn of a call answers that call's own request, is a turn that a
\* provider gave to some call, and is marked if it is another call's
\* (CachedGenerator::cache_key, generate).
AnswersOwnRequest ==
  \A c \in Call : result[c].kind = "turn" =>
    LET by == result[c].by IN
    /\ request[by] = request[c]
    /\ result[by] = Turn(by, FALSE)
    /\ result[c].cached <=> by # c

\* With the limits of a tier, where the longest wait is the window, a call is
\* made to wait but never refused (RateLimiter::for_tier).
NeverRefused ==
  \A c \in Call : maxWait >= Window => result[c].kind # "refused"

\* RateLimitedGenerator over CachedGenerator, under concurrent calls: no window holds
\* more starts than allowed, a wait of the whole window is slept, and what comes from
\* the cache was answered to the same request.
CallsKeepLimits == TypeOK /\ WindowHolds /\ AnswersOwnRequest /\ NeverRefused

\* Its inductive strengthening.  The limiter has the last starts, and those that it
\* forgot are older than the window; a call has no result before it fetches; and what
\* is stored under a key is a turn that a provider gave to a call with that key.
LimiterInv ==
  /\ Len(ages) <= Len(sent)
  /\ \A i \in 1..Len(ages) : ages[i] = sent[Len(sent) - Len(ages) + i]
  /\ \A i \in 1..(Len(sent) - Len(ages)) : sent[i] >= Window

Answered(c) == pc[c] \in {"store", "done"} /\ result[c] = Turn(c, FALSE)

CacheInv ==
  /\ \A c \in Call : pc[c] \notin {"store", "done"} => result[c] = NoTurn("none")
  /\ \A c \in Call : pc[c] = "store" => result[c] = Turn(c, FALSE)
  /\ \A r \in Request : cache[r] # None => request[cache[r]] = r /\ Answered(cache[r])
  /\ \A c \in Call : result[c].kind = "turn" =>
       LET by == result[c].by IN
       request[by] = request[c] /\ Answered(by) /\ (result[c].cached <=> by # c)

GenerationInv == TypeOK /\ NeverRefused /\ LimiterInv /\ CacheInv

\* Every call returns: sleepers that lose their slot to others get one later
\* (RateLimiter::acquire).
EveryCallReturns == \A c \in Call : <>(pc[c] = "done")
=============================================================================
