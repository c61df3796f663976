----------------------------- MODULE Telemetry -----------------------------
(***************************************************************************)
(* The local telemetry: what generations record of themselves (forge-cli's   *)
(* cache.rs and rate_limit_gen.rs over forge-store's telemetry.rs), and the  *)
(* usage of models that the dashboard computes from it.  A record that fails *)
(* is dropped.                                                              *)
(***************************************************************************)
EXTENDS Naturals, Sequences, FiniteSets

CONSTANTS Generation,  \* calls of the generator
          Model,
          MaxDropped   \* bound: records that fail

ASSUME TelemetryAssumption == MaxDropped \in Nat /\ IsFiniteSet(Generation)

RecordName == {"cache.hit", "cache.miss", "llm.call"}
UsageEvent == [name : RecordName, model : Model]

VARIABLES recorded, \* telemetry_event, in order of id
          lost,     \* records that failed
          stage,    \* of a generation
          asks,     \* the model of its request
          cached,   \* whether the cache had it; what it did is in stage
          page      \* what the dashboard was last shown
telemetryVars == <<recorded, lost, stage, asks, cached, page>>

Usage == [calls : Nat, hits : Nat, misses : Nat]

TelemetryTypeOK ==
  /\ recorded \in Seq(UsageEvent) /\ lost \in Seq(UsageEvent) /\ Len(lost) <= MaxDropped
  /\ stage \in [Generation -> {"lookup", "missed", "permit", "sent", "over", "refused"}]
  /\ asks \in [Generation -> Model] /\ cached \in SUBSET Generation
  /\ page \in [Model -> Usage]

Nothing == [m \in Model |-> [calls |-> 0, hits |-> 0, misses |-> 0]]

TelemetryInit ==
  /\ recorded = <<>> /\ lost = <<>> /\ stage = [g \in Generation |-> "lookup"]
  /\ asks \in [Generation -> Model] /\ cached = {} /\ page = Nothing

-----------------------------------------------------------------------------
\* Telemetry::record: a failure is written to stderr, and that is all.
Record(g, name) ==
  LET e == [name |-> name, model |-> asks[g]] IN
  \/ recorded' = Append(recorded, e) /\ UNCHANGED lost
  \/ Len(lost) < MaxDropped /\ lost' = Append(lost, e) /\ UNCHANGED recorded

Proceed(g, s) == stage' = [stage EXCEPT ![g] = s]

\* CachedGenerator::generate up to the inner generator.
Lookup(g) ==
  /\ stage[g] = "lookup"
  /\ \/ Proceed(g, "over") /\ cached' = cached \cup {g} /\ Record(g, "cache.hit")
     \/ Proceed(g, "missed") /\ Record(g, "cache.miss") /\ UNCHANGED cached
  /\ UNCHANGED <<asks, page>>

\* Faulty: the call is recorded before its permit.
Permit_Recorded(g) ==
  \/ Proceed(g, "permit") /\ Record(g, "llm.call")
  \/ Proceed(g, "refused") /\ Record(g, "llm.call")

\* RateLimiter::acquire
Permit(g) == (Proceed(g, "permit") \/ Proceed(g, "refused")) /\ UNCHANGED <<recorded, lost>>

Acquire(g) == stage[g] = "missed" /\ Permit(g) /\ UNCHANGED <<asks, cached, page>>

\* The call goes to the gateway, whatever comes of it.
Send(g) == /\ stage[g] = "permit" /\ Proceed(g, "sent") /\ Record(g, "llm.call")
           /\ UNCHANGED <<asks, cached, page>>

In(s, name, m) == {i \in DOMAIN s : s[i].name = name /\ s[i].model = m}

Count(name, m) == Cardinality(In(recorded, name, m))

\* Faulty: a lookup counts as a call.
UsageOf_Lookups(m) == [calls  |-> Count("llm.call", m) + Count("cache.hit", m),
                       hits   |-> Count("cache.hit", m),
                       misses |-> Count("cache.miss", m)]

\* model_usage: one statement groups the events.
UsageOf(m) == [calls  |-> Count("llm.call", m), hits |-> Count("cache.hit", m),
               misses |-> Count("cache.miss", m)]

\* GET /api/models/usage; a query that fails leaves an empty page.
ShowUsage ==
  /\ page' = [m \in Model |-> UsageOf(m)] \/ page' = Nothing
  /\ UNCHANGED <<recorded, lost, stage, asks, cached>>

TelemetryNext == ShowUsage \/ \E g \in Generation : Lookup(g) \/ Acquire(g) \/ Send(g)

TelemetrySpec == TelemetryInit /\ [][TelemetryNext]_telemetryVars

-----------------------------------------------------------------------------
Those(m, S) == {g \in Generation : asks[g] = m /\ stage[g] \in S}
Of(m, S)    == Cardinality(Those(m, S))
Lost(m)     == Cardinality({i \in DOMAIN lost : lost[i].model = m})
Hits(m)     == Cardinality({g \in cached : asks[g] = m})

\* However generations interleave and queries fail, what is shown never says that more was sent
\* than the limiter let through, nor more hits than the cache had, and what is
\* stored falls short of it only by the records that failed.
UsageIsTrue ==
  \A m \in Model :
    /\ page[m].calls <= Of(m, {"sent"}) /\ page[m].hits <= Hits(m)
    /\ LET u == UsageOf(m) IN
       u.calls + u.hits + u.misses + Lost(m) = Of(m, {"sent"}) + Of(m, {"over", "missed", "permit", "sent", "refused"})

\* Without a record that failed a call has been a miss first, so a page shows
\* no more calls of a model than misses.
CallsWereMisses == lost = <<>> => \A m \in Model : page[m].calls <= page[m].misses

\* The inductive strengthening: each kind of record, stored or lost, by the generations that
\* have got as far.
Records(name, m) == Count(name, m) + Cardinality(In(lost, name, m))

TelemetryInv ==
  /\ TelemetryTypeOK /\ cached = {g \in Generation : stage[g] = "over"}
  /\ \A m \in Model :
       /\ Records("llm.call", m) = Of(m, {"sent"})
       /\ Records("cache.hit", m) = Of(m, {"over"})
       /\ Records("cache.miss", m) = Of(m, {"missed", "permit", "sent", "refused"})
       /\ page[m].calls <= Of(m, {"sent"}) /\ page[m].hits <= Of(m, {"over"})
  /\ CallsWereMisses
=============================================================================
