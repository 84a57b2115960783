------------------------ MODULE SentimentCalibration ------------------------
(***************************************************************************)
(* What SentimentCalibrationService reports of a tenant's sentiment: the   *)
(* calibration analysis, the drift, the recommended offset and whether the *)
(* error converges.  Pure operators on sets of rows:                       *)
(*   analysis row  [job, score, at]                                        *)
(*   sample row    [job, useCase, polarity, model, analyst, delta, at]     *)
(* `at` and `now` are moments of time.  Averages are kept as a sum and a   *)
(* count; a reported average is an integer number of hundredths.  Rows are *)
(* never grouped by engagement type here: no row the service stores has    *)
(* one, so those groups are empty.                                         *)
(***************************************************************************)
EXTENDS Integers, FiniteSets, FiniteSetsExt, Sequences, SequencesExt, SequenceFilters, Totals

CONSTANTS BaselineSpan,   \* baselineDays
          RecentSpan,     \* recentDays
          MinBaseline,    \* analyses a significant drift needs before (10)
          MinRecent,      \* and in the recent span (5)
          AnalysisSpan,   \* windowDays of the calibration analysis
          WindowSpan,     \* windowDays of the convergence
          TotalSpan,      \* totalDays of the convergence
          MinPerWindow,   \* minimumSamplesPerWindow (5)
          AnyUseCase      \* no filter

ASSUME SpanAssumption ==
    /\ {BaselineSpan, RecentSpan, AnalysisSpan, WindowSpan, TotalSpan} \subseteq Nat \ {0}
    /\ {MinBaseline, MinRecent, MinPerWindow} \subseteq Nat \ {0}

Polarities == <<"VERY_NEGATIVE", "NEGATIVE", "NEUTRAL", "POSITIVE", "VERY_POSITIVE">>
Magnitude(x) == IF x < 0 THEN -x ELSE x
Average(sum, n) == (200 * sum + n) \div (2 * n)       \* Math.round(100 x) of sum/n

Signed(samples) == SumOver([s \in samples |-> s.delta], samples)
Absolute(samples) == SumOver([s \in samples |-> Magnitude(s.delta)], samples)
ScoreSum(rows) == SumOver([a \in rows |-> a.score], rows)
-----------------------------------------------------------------------------
(* Confusion pairs: model polarity against the band of the analyst's score.*)

polarityFromScore(score) == CASE score <= 15 -> "VERY_NEGATIVE"
                              [] score <= 35 -> "NEGATIVE"
                              [] score <= 65 -> "NEUTRAL"
                              [] score <= 85 -> "POSITIVE"
                              [] OTHER -> "VERY_POSITIVE"

Misclassified(samples) == {s \in samples : s.polarity # polarityFromScore(s.analyst)}

buildConfusionPairs(samples) ==
    LET wrong == Misclassified(samples)
        Pair(s) == <<s.polarity, polarityFromScore(s.analyst)>>
    IN  {LET count == Cardinality({s \in wrong : Pair(s) = k})
         IN  [predicted |-> k[1], actual |-> k[2], count |-> count,
              percentage |-> Average(100 * count, Cardinality(wrong))]
         : k \in {Pair(s) : s \in wrong}}

(* The causes are named, not phrased.  The two last are what their text    *)
(* says of a delta that is the analyst's score minus the model's.          *)
Rank(polarity) == CHOOSE i \in DOMAIN Polarities : Polarities[i] = polarity
inferRootCauses(pairs, sum, n) ==
    LET Frequent(p, a) == \E k \in pairs : k.predicted = p /\ k.actual = a /\ k.percentage >= 1500
        wide == {k \in pairs : Magnitude(Rank(k.predicted) - Rank(k.actual)) >= 2
                                  /\ k.percentage >= 1000}
    IN  {c \in {<<"sarcasm">>} : Frequent("NEGATIVE", "NEUTRAL")}
        \cup {c \in {<<"baseline">>} : Frequent("NEUTRAL", "POSITIVE")}
        \cup {c \in {<<"understated">>} : Frequent("NEUTRAL", "NEGATIVE")}
        \cup {<<k.predicted, k.actual>> : k \in wide}
        \cup {c \in {<<"model scores higher">>} : sum > 5 * n}
        \cup {c \in {<<"model scores lower">>} : sum < -5 * n}

(* analyzeCalibration, of the samples the store listed. *)
analyzeCalibration(samples) ==
    LET n == Cardinality(samples)
        pairs == buildConfusionPairs(samples)
    IN  IF n = 0
        THEN [sampleSize |-> 0, avgSignedDelta |-> 0, avgAbsoluteDelta |-> 0,
              confusionPairs |-> {}, rootCauses |-> {}]
        ELSE [sampleSize |-> n,
              avgSignedDelta |-> Average(Signed(samples), n),
              avgAbsoluteDelta |-> Average(Absolute(samples), n),
              confusionPairs |-> pairs,
              rootCauses |-> inferRootCauses(pairs, Signed(samples), n)]
-----------------------------------------------------------------------------
(* The recommended offset: the mean delta within 20 points, rounded half up*)

recommendedOffset(samples) ==
    LET n == Cardinality(samples)
        sum == Max({-20 * n, Min({20 * n, Signed(samples)})})
    IN  IF n = 0 THEN 0 ELSE (2 * sum + n) \div (2 * n)

confidenceOf(n) == IF n >= 50 THEN "high" ELSE IF n >= 20 THEN "medium" ELSE "low"

recommendCalibrationOffset(samples) ==
    [recommendedScore100Offset |-> recommendedOffset(samples),
     sampleSize |-> Cardinality(samples), confidence |-> confidenceOf(Cardinality(samples))]
-----------------------------------------------------------------------------
(* Drift of the scores of the analyses listed; an empty span averages 50.  *)

(* Slip: the recent cutoff is in both spans. *)
BaselineClosed(list, now) ==
    {a \in list : a.at >= now - BaselineSpan /\ a.at <= now - RecentSpan}

Baseline(list, now) == {a \in list : a.at >= now - BaselineSpan /\ a.at < now - RecentSpan}
Recent(list, now) == {a \in list : a.at >= now - RecentSpan}

detectDrift(list, now) ==
    LET baseline == Baseline(list, now)
        recent == Recent(list, now)
        SumOf(rows) == IF rows = {} THEN 50 ELSE ScoreSum(rows)
        CountOf(rows) == IF rows = {} THEN 1 ELSE Cardinality(rows)
        \* the drift is moved/scale points
        scale == CountOf(recent) * CountOf(baseline)
        moved == SumOf(recent) * CountOf(baseline) - SumOf(baseline) * CountOf(recent)
    IN  [baseline |-> baseline, recent |-> recent,
         baselineAvg |-> Average(SumOf(baseline), CountOf(baseline)),
         recentAvg |-> Average(SumOf(recent), CountOf(recent)),
         driftSignificant |-> /\ Magnitude(moved) >= 5 * scale
                              /\ Cardinality(baseline) >= MinBaseline
                              /\ Cardinality(recent) >= MinRecent,
         trendDirection |-> IF moved > 3 * scale THEN "improving"
                            ELSE IF moved < -3 * scale THEN "declining" ELSE "stable"]
-----------------------------------------------------------------------------
(* Convergence: the mean absolute error of each window of the span, oldest *)
(* first, windows with too few samples left out.                           *)

WindowCount == (TotalSpan + WindowSpan - 1) \div WindowSpan
Window(samples, now, i) ==
    {s \in samples : s.at >= now - (i + 1) * WindowSpan /\ s.at < now - i * WindowSpan}

(* toFixed(2) of a quotient of hundredths: half away from zero. *)
Fixed(num, den) == IF num < 0 THEN -((den - 2 * num) \div (2 * den))
                              ELSE (2 * num + den) \div (2 * den)

WindowErrors(samples, now) ==
    LET Mae(rows) == Fixed(100 * Absolute(rows), Cardinality(rows))
        windows == [k \in 1..WindowCount |-> Window(samples, now, WindowCount - k)]
        kept == Kept(windows, {w \in ToSet(windows) : Cardinality(w) >= MinPerWindow})
    IN  [k \in DOMAIN kept |-> Mae(kept[k])]

trackCalibrationConvergence(samples, now) ==
    LET mae == WindowErrors(samples, now)
        count == Len(mae)
        steps == [k \in 1..(count - 1) |-> mae[k + 1] - mae[k]]
        falls == {k \in DOMAIN steps : steps[k] < -50}
        rises == {k \in DOMAIN steps : steps[k] > 50}
        turns == {k \in 2..(count - 1) : \/ k \in rises /\ k - 1 \in falls
                                         \/ k \in falls /\ k - 1 \in rises}
        Most(these, those) == /\ Cardinality(these) > Cardinality(those)
                              /\ 2 * Cardinality(these) >= count - 1
    IN  [windowCount |-> count,
         overallMae |-> IF samples = {} THEN 0
                        ELSE Fixed(100 * Absolute(samples), Cardinality(samples)),
         maeChangeRate |-> IF count < 2 THEN 0 ELSE Fixed(mae[count] - mae[1], count - 1),
         trend |-> IF samples = {} \/ count < 2 THEN "insufficient_data"
                   ELSE IF Cardinality(turns) >= 2 THEN "oscillating"
                   ELSE IF Most(falls, rises) THEN "converging"
                   ELSE IF Most(rises, falls) THEN "oscillating" ELSE "stable"]
=============================================================================
