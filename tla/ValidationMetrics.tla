------------------------- MODULE ValidationMetrics -------------------------
(***************************************************************************)
(* What a validation report measures of a tenant's runs and of their       *)
(* reviewed samples, which alerts it raises against the thresholds of the  *)
(* tenant, and which thresholds the service recommends from the same       *)
(* measurements.                                                           *)
(*                                                                         *)
(* Rates and shares are in 1/10000, average score differences in 1/100 and *)
(* average durations in 1/100 ms, as the code rounds them.  A run is a     *)
(* record that carries its own name, so a set of runs has its cardinality. *)
(***************************************************************************)
EXTENDS Integers, FiniteSets, FiniteSetsExt, TLC, Totals

CONSTANTS None,                       \* an absent value
          SampleFloor, SampleCeiling  \* bounds of a recommended sample size;
                                      \* the code has 10 and 25

Scoring == INSTANCE SentimentScoring

(* What runs and samples are broken down by, and what the code calls a     *)
(* part that a run does not name.                                          *)
Dimensions == {"engagement", "queue", "length"}
Unspecified == "UNSPECIFIED"

(* What is summarised of the reviewed samples. *)
ReviewedSummary == [total : Nat, sum100 : Nat, sum5 : Nat, exact : Nat, within : Nat]

ASSUME SampleAssumption ==
    /\ SampleFloor \in Nat /\ SampleCeiling \in Nat
    /\ None \notin Nat \cup Dimensions \cup ReviewedSummary

Rounded(n, d) == (2 * n + d) \div (2 * d)
Share(n, d) == IF d = 0 THEN 0 ELSE Rounded(10000 * n, d)
PartOf(rows, dim, key) == {x \in rows : x[dim] = key}
KeysIn(rows, dim) == {x[dim] : x \in rows}
-----------------------------------------------------------------------------
(* Live metrics: of runs, ended or not.  `schema` is what the last terminal*)
(* event of the run says of its schema, `ms` the duration it says or the   *)
(* one between the run's times.                                            *)

percentile95(ended) ==
    LET wanted == (95 * Cardinality(ended) + 99) \div 100
    IN  Min({x.ms : x \in {y \in ended :
                             Cardinality({z \in ended : z.ms <= y.ms}) >= wanted}})

computeLiveMetrics(runs) ==
    LET completed == {x \in runs : x.status = "COMPLETED"}
        failed == {x \in runs : x.status = "FAILED"}
        InReview(state) == Cardinality({x \in completed : x.review = state})
        valid == Cardinality({x \in completed : x.schema # "INVALID"})
        invalid == Cardinality({x \in failed : x.schema = "INVALID"})
        timed == {x \in completed \cup failed : x.ms # None}
    IN  [runCount        |-> Cardinality(runs),
         failureRate     |-> Share(Cardinality(failed), Cardinality(runs)),
         reviewRate      |-> Share(InReview("NEEDS_REVIEW"), Cardinality(completed)),
         uncertainRate   |-> Share(InReview("UNCERTAIN"), Cardinality(completed)),
         schemaValidRate |-> IF valid + invalid = 0 THEN None ELSE Share(valid, valid + invalid),
         averageMs |-> IF timed = {} THEN None
                       ELSE Rounded(100 * SumOver([x \in timed |-> x.ms], timed), Cardinality(timed)),
         p95Ms     |-> IF timed = {} THEN None ELSE percentile95(timed)]

computeLiveBreakdown(runs) ==
    [dim \in Dimensions |-> [key \in KeysIn(runs, dim) |->
        computeLiveMetrics(PartOf(runs, dim, key))]]
-----------------------------------------------------------------------------
(* Reviewed metrics: of the samples whose model and whose analyst have a   *)
(* score.  Averages stay fractions, as they are compared unrounded.        *)

Difference(a, b) == IF a < b THEN b - a ELSE a - b
delta100(x) == Difference(x.model100, x.analyst100)
delta5(x) == Difference(Scoring!deriveScore5FromScore100(x.model100),
                        Scoring!deriveScore5FromScore100(x.analyst100))

summarizeReviewed(samples) ==
    [total  |-> Cardinality(samples),
     sum100 |-> SumOver([x \in samples |-> delta100(x)], samples),
     sum5   |-> SumOver([x \in samples |-> delta5(x)], samples),
     exact  |-> Cardinality({x \in samples : delta5(x) = 0}),
     within |-> Cardinality({x \in samples : delta100(x) <= 5})]

(* Without a sample there is no summary at all. *)
computeReviewedValidation(samples) ==
    IF samples = {} THEN None ELSE summarizeReviewed(samples)
summarizeReviewedResultsBy(samples) ==
    [dim \in Dimensions |-> [key \in KeysIn(samples, dim) |->
        summarizeReviewed(PartOf(samples, dim, key))]]

Measurements(runs, samples) ==
    [live |-> computeLiveMetrics(runs), liveBy |-> computeLiveBreakdown(runs),
     reviewed |-> computeReviewedValidation(samples),
     reviewedBy |-> summarizeReviewedResultsBy(samples)]
-----------------------------------------------------------------------------
(* Thresholds: limits for all runs, and for some keys of a dimension the   *)
(* limits that differ.                                                     *)

LimitNames == {"sampleSize", "failureRate", "reviewRate", "uncertainRate", "schemaValidRate",
               "delta100", "delta5", "exactRate", "withinRate", "averageMs", "p95Ms"}
NoOverrides == [dim \in Dimensions |-> << >>]

(* The code's defaults; durations in ms. *)
DefaultLimits ==
    [sampleSize |-> 10, failureRate |-> 1000, reviewRate |-> 3500, uncertainRate |-> 1500,
     schemaValidRate |-> 9800, delta100 |-> 500, delta5 |-> 50, exactRate |-> 7500,
     withinRate |-> 9500, averageMs |-> 900000, p95Ms |-> 1800000]

(* All limits are given, and are natural numbers, as are the overrides.    *)
ThresholdsFit(thresholds) ==
    /\ thresholds.limits \in [LimitNames -> Nat]
    /\ \A dim \in Dimensions : \A key \in DOMAIN thresholds.by[dim] :
          /\ DOMAIN thresholds.by[dim][key] \subseteq LimitNames
          /\ \A name \in DOMAIN thresholds.by[dim][key] : thresholds.by[dim][key][name] \in Nat

Overlay(own, base) ==
    [x \in DOMAIN own \cup DOMAIN base |-> IF x \in DOMAIN own THEN own[x] ELSE base[x]]
thresholdsForScope(thresholds, dim, key) ==
    IF key \in DOMAIN thresholds.by[dim] THEN Overlay(thresholds.by[dim][key], thresholds.limits)
    ELSE thresholds.limits
-----------------------------------------------------------------------------
(* Alerts. *)

severity(kind) ==
    IF kind = "REVIEWED_SAMPLE_SIZE_LOW" THEN "INFO"
    ELSE IF kind \in {"FAILURE_RATE_HIGH", "SCHEMA_VALID_RATE_LOW", "SCORE_DRIFT_HIGH",
                      "CANARY_REJECTED"} THEN "CRITICAL"
    ELSE "WARNING"

LiveAlerts(limits, live) ==
    {kind \in {"FAILURE_RATE_HIGH", "REVIEW_RATE_HIGH", "UNCERTAIN_RATE_HIGH",
               "SCHEMA_VALID_RATE_LOW", "LATENCY_HIGH"} :
       \/ kind = "FAILURE_RATE_HIGH" /\ live.failureRate > limits.failureRate
       \/ kind = "REVIEW_RATE_HIGH" /\ live.reviewRate > limits.reviewRate
       \/ kind = "UNCERTAIN_RATE_HIGH" /\ live.uncertainRate > limits.uncertainRate
       \/ /\ kind = "SCHEMA_VALID_RATE_LOW" /\ live.schemaValidRate # None
          /\ live.schemaValidRate < limits.schemaValidRate
       \/ /\ kind = "LATENCY_HIGH" /\ live.averageMs # None
          /\ live.averageMs > 100 * limits.averageMs \/ live.p95Ms > limits.p95Ms}

(* A sample that is too small raises that alert and no other. *)
ReviewedAlerts(limits, reviewed) ==
    LET n == reviewed.total
    IN  IF n < limits.sampleSize THEN {"REVIEWED_SAMPLE_SIZE_LOW"}
        ELSE {kind \in {"SCORE_DRIFT_HIGH", "SCORE_BUCKET_MATCH_LOW"} :
                \/ kind = "SCORE_DRIFT_HIGH" /\ 100 * reviewed.sum100 > limits.delta100 * n
                \/ /\ kind = "SCORE_BUCKET_MATCH_LOW"
                   /\ \/ 100 * reviewed.sum5 > limits.delta5 * n
                      \/ 10000 * reviewed.exact < limits.exactRate * n
                      \/ 10000 * reviewed.within < limits.withinRate * n}

(* An engagement type is looked at only where it has limits of its own.    *)
AlertedKeys(thresholds, m, dim) ==
    DOMAIN thresholds.by[dim] \cup
    (IF dim = "engagement" THEN {} ELSE DOMAIN m.liveBy[dim] \cup DOMAIN m.reviewedBy[dim])

appendScopedAlerts(thresholds, m, dim) ==
    UNION {LET limits == thresholdsForScope(thresholds, dim, key)
               isLive == key \in DOMAIN m.liveBy[dim]
               kinds == (IF isLive THEN LiveAlerts(limits, m.liveBy[dim][key]) ELSE {}) \cup
                        (IF key \in DOMAIN m.reviewedBy[dim]
                         THEN ReviewedAlerts(limits, m.reviewedBy[dim][key])
                         ELSE IF isLive THEN {"REVIEWED_SAMPLE_SIZE_LOW"} ELSE {})
           IN  {[kind |-> kind, dim |-> dim, key |-> key] : kind \in kinds}
           : key \in AlertedKeys(thresholds, m, dim)}

(* isRejected: the release of the report's version is rejected, or its last*)
(* canary evaluation failed.                                               *)
buildAlerts(thresholds, m, isRejected) ==
    {[kind |-> kind, dim |-> None, key |-> None] : kind \in
         LiveAlerts(thresholds.limits, m.live) \cup
         (IF isRejected THEN {"CANARY_REJECTED"} ELSE {}) \cup
         (IF m.reviewed = None THEN {} ELSE ReviewedAlerts(thresholds.limits, m.reviewed))}
    \cup UNION {appendScopedAlerts(thresholds, m, dim) : dim \in Dimensions}
-----------------------------------------------------------------------------
(* Recommended thresholds. *)

(* Of the observed num/den: a margin above it or a percentage of it,       *)
(* whichever is more, but never above the cap.                             *)
headroom(num, den, margin, percent, cap) ==
    Min({cap, Max({margin, Rounded(num, den) + margin, Rounded(num * percent, 100 * den)})})

floorRate(num, den, margin, minimum) ==
    IF den = 0 THEN minimum ELSE Max({minimum, Rounded(num, den) - margin})

AtLeastWithRoom(current, observed, unit) ==
    IF observed = None THEN Max({current, (115 * current + 99) \div 100})
    ELSE Max({current, (115 * observed + 100 * unit - 1) \div (100 * unit)})

recommendScalarThresholds(limits, live, reviewed) ==
    LET n == IF reviewed = None THEN 0 ELSE reviewed.total
        seen == IF reviewed # None THEN reviewed
                ELSE [sum100 |-> limits.delta100, sum5 |-> limits.delta5, exact |-> 0, within |-> 0]
        \* the differences in 1/100: observed, or the present limits
        scale == IF reviewed = None THEN 1 ELSE 100
    IN  [sampleSize |-> Max({limits.sampleSize, SampleFloor,
                             Min({IF reviewed = None THEN SampleFloor ELSE n, SampleCeiling})}),
         failureRate     |-> headroom(live.failureRate, 1, 200, 125, 5000),
         reviewRate      |-> headroom(live.reviewRate, 1, 300, 120, 7500),
         uncertainRate   |-> headroom(live.uncertainRate, 1, 200, 120, 5000),
         schemaValidRate |-> IF live.schemaValidRate = None THEN 9000
                             ELSE floorRate(live.schemaValidRate, 1, 100, 9000),
         delta100 |-> headroom(scale * seen.sum100, Max({n, 1}), 100, 115, 10000),
         delta5   |-> headroom(scale * seen.sum5, Max({n, 1}), 10, 115, 400),
         exactRate  |-> floorRate(10000 * seen.exact, n, 300, 5000),
         withinRate |-> floorRate(10000 * seen.within, n, 100, 8000),
         averageMs  |-> AtLeastWithRoom(limits.averageMs, live.averageMs, 100),
         p95Ms      |-> AtLeastWithRoom(limits.p95Ms, live.p95Ms, 1)]

compactThresholdOverride(base, limits) ==
    [name \in {x \in LimitNames : limits[x] # base[x]} |-> limits[name]]

(* Slip: a key keeps what differs from the limits in force, not from the   *)
(* ones that are recommended for all runs.                                 *)
OverridesOfCurrent(thresholds, base, m, dim, minimum) ==
    LET enough == {key \in DOMAIN m.liveBy[dim] \cap DOMAIN m.reviewedBy[dim] :
                     /\ m.liveBy[dim][key].runCount >= minimum.runs
                     /\ m.reviewedBy[dim][key].total >= minimum.reviewed}
    IN  [key \in enough |->
            compactThresholdOverride(thresholds.limits,
                recommendScalarThresholds(thresholdsForScope(thresholds, dim, key),
                                          m.liveBy[dim][key], m.reviewedBy[dim][key]))]

(* Only a key with enough runs and enough samples gets limits of its own;  *)
(* the overrides there are now are not kept.                               *)
deriveScopedThresholdOverrides(thresholds, base, m, dim, minimum) ==
    LET enough == {key \in DOMAIN m.liveBy[dim] \cap DOMAIN m.reviewedBy[dim] :
                     /\ m.liveBy[dim][key].runCount >= minimum.runs
                     /\ m.reviewedBy[dim][key].total >= minimum.reviewed}
        OwnLimits(key) ==
            compactThresholdOverride(base,
                recommendScalarThresholds(thresholdsForScope(thresholds, dim, key),
                                          m.liveBy[dim][key], m.reviewedBy[dim][key]))
    IN  [key \in {x \in enough : DOMAIN OwnLimits(x) # {}} |-> OwnLimits(key)]

deriveRecommendedThresholds(thresholds, m, minima) ==
    LET base == recommendScalarThresholds(thresholds.limits, m.live, m.reviewed)
    IN  [limits |-> base,
         by |-> [dim \in Dimensions |->
                    deriveScopedThresholdOverrides(thresholds, base, m, dim, minima[dim])]]
=============================================================================
