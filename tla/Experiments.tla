---------------------------- MODULE Experiments ----------------------------
(***************************************************************************)
(* The report on an A/B experiment (forge-schemas' experiment.rs): events    *)
(* that name a variant accumulate in the telemetry, which any process may    *)
(* write, and `forge experiment` or the dashboard compares two variants.    *)
(***************************************************************************)
EXTENDS Integers, Sequences

CONSTANTS MaxEvents,  \* bound, for each variant: its events
          MinSamples  \* MIN_SAMPLES

ASSUME ExperimentsAssumption == MinSamples \in Nat \ {0} /\ MaxEvents \in Seq(Nat)

VARIABLES good, bad,   \* events of a variant, with props.success and without
          oddity       \* an event has a variant that is no string
experimentVars == <<good, bad, oddity>>

\* Variants in the order in which SQLite sorts their names.
Variant == DOMAIN MaxEvents

NoWinner == 0

ExperimentTypeOK == good \in [Variant -> Nat] /\ bad \in [Variant -> Nat] /\ oddity \in BOOLEAN

ExperimentInit == good = [v \in Variant |-> 0] /\ bad = [v \in Variant |-> 0] /\ oddity = FALSE

-----------------------------------------------------------------------------
\* Some program records an event of the experiment.
RecordEvent(v) ==
  /\ good[v] + bad[v] < MaxEvents[v] /\ UNCHANGED oddity
  /\ \/ good' = [good EXCEPT ![v] = @ + 1] /\ UNCHANGED bad
     \/ bad' = [bad EXCEPT ![v] = @ + 1] /\ UNCHANGED good

\* One whose props.variant is a number.
RecordOddity == ~oddity /\ oddity' = TRUE /\ UNCHANGED <<good, bad>>

\* Faulty: only events with a success are counted.
Counted_Successes(v) == good[v]

Counted(v) == good[v] + bad[v]

\* experiment_variants: the variants that have events, with their counts.
Counts(v) == [variant |-> v, n |-> Counted(v), successes |-> good[v]]
Variants  == {v \in Variant : Counted(v) > 0}

\* two_proportion_p_value < ALPHA, for the square of z: more than that of 1.96,
\* 3.841.  Without variance there is no evidence.
Differ(a, b) ==
  LET x == a.successes + b.successes
      n == a.n + b.n
      d == a.successes * b.n - b.successes * a.n
  IN  x # 0 /\ x # n /\ 1000 * d * d * n > 3841 * a.n * b.n * x * (n - x)

\* Faulty: one variant with enough samples will do.
TooFew_Both(a, b) == a.n < MinSamples /\ b.n < MinSamples

TooFew(a, b) == a.n < MinSamples \/ b.n < MinSamples

\* Faulty: the number of successes decides.
Better_BySuccesses(a, b) == IF a.successes >= b.successes THEN a ELSE b

\* The higher rate.
Better(a, b) == IF a.successes * b.n >= b.successes * a.n THEN a ELSE b

\* from_two_variants
Report(a, b) ==
  [status |-> 200, variants |-> <<a, b>>,
   verdict |-> IF TooFew(a, b) THEN "insufficient_data"
               ELSE IF Differ(a, b) THEN "significant" ELSE "inconclusive",
   winner |-> IF ~TooFew(a, b) /\ Differ(a, b) THEN Better(a, b).variant ELSE NoWinner]

Two(p) == p[1] < p[2] /\ Variants = {p[1], p[2]}

Missing == [status |-> 404]

\* What get_experiment makes of the query; `forge experiment` refuses what is answered
\* with 404 or 422.  A variant that is no string fails the whole result, which is then
\* empty.
Answer ==
  CASE oddity \/ Variants = {} -> Missing
    [] ~oddity /\ \E p \in Variant \X Variant : Two(p) ->
         LET p == CHOOSE p \in Variant \X Variant : Two(p) IN Report(Counts(p[1]), Counts(p[2]))
    [] OTHER -> [status |-> 422]

\* What get_experiment may answer: a query that fails leaves the empty result, too
\* (Telemetry::experiment_variants).
Responses == {Answer, Missing}

ExperimentNext == RecordOddity \/ \E v \in Variant : RecordEvent(v)

ExperimentSpec == ExperimentInit /\ [][ExperimentNext]_experimentVars

-----------------------------------------------------------------------------
Twice(s) == [s EXCEPT !.n = 2 * @, !.successes = 2 * @]

\* "nunca inventa vencedor": a winner has the strictly higher rate and both
\* variants have enough samples.  Which of two names sorts first decides nothing,
\* and more of the same evidence takes no winner back.
WinnerIsEarned ==
  \A r \in Responses : r.status = 200 /\ r.winner # NoWinner =>
    LET a == r.variants[1]
        b == r.variants[2]
        w == IF r.winner = a.variant THEN a ELSE b
        l == IF r.winner = a.variant THEN b ELSE a
    IN  /\ w.successes * l.n > l.successes * w.n
        /\ a.n >= MinSamples /\ b.n >= MinSamples
        /\ Report(b, a).winner = r.winner
        /\ Report(Twice(a), Twice(b)).winner = r.winner
=============================================================================
