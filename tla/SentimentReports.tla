-------------------------- MODULE SentimentReports --------------------------
(***************************************************************************)
(* The sentiment tables of one tenant while runs complete, analysts label  *)
(* them, time passes and the /v1/sentiment reports are read.  A completed  *)
(* run is written to three tables in turn (persistSentimentData), by the   *)
(* SQLite store with one transaction per table, by the Postgres store with *)
(* one query per row; any call may throw, applied or not, and the error is *)
(* swallowed.  A reviewed run adds one calibration sample.  A report reads  *)
(* the tables and the clock one after the other, while rows are saved and  *)
(* time passes; what it read of them earlier may be stale.                 *)
(***************************************************************************)
EXTENDS SentimentCalibration

CONSTANTS Jobs,         \* completed runs
          Analysed,     \* Analysed[j]: [polarity, score, useCase], or Nothing
          Turns,        \* number of turns of a transcript
          Moments,      \* number of key moments of a result
          Labels,       \* scores an analyst may give
          Nothing,      \* an absent value
          AnalysisLimit,  \* rows listSentimentAnalyses answers at most (500)
          SampleLimit,    \* rows listCalibrationSamples answers at most (500)
          MaxTime,      \* bound: how far the clock runs
          MaxWriting,   \* bound: runs persisted at the same time
          MaxFaults     \* bound: calls that throw

UseCases == {Analysed[j].useCase : j \in {k \in Jobs : Analysed[k] # Nothing}}

ASSUME ReportsAssumption ==
    /\ \A j \in Jobs : Analysed[j] # Nothing =>
          /\ Analysed[j].polarity \in ToSet(Polarities)
          /\ Analysed[j].score \in 0..100 \cup {Nothing}
    /\ Labels \subseteq 0..100 /\ AnyUseCase \notin UseCases
    /\ {Turns, AnalysisLimit, SampleLimit} \subseteq Nat \ {0}
    /\ {Moments, MaxTime, MaxWriting, MaxFaults} \subseteq Nat

VARIABLES kind,      \* which store is configured: "sqlite" or "postgres"
          now,       \* the clock
          run,       \* run[j]: where persisting j is, and when it was analysed
          analyses, segments, moments, samples,   \* the tables
          fullText,  \* tsvectorSupported of the Postgres store
          sparkline, \* what a drift report in progress read first, or Nothing
          faults

tables == <<kind, now, run, analyses, segments, moments, samples, fullText, sparkline,
            faults>>

Scores(j) == IF Analysed[j].score = Nothing THEN 50 ELSE Analysed[j].score
AnalysisRow == [job : Jobs, score : 0..100, at : 0..MaxTime]
SampleRow == [job : Jobs, useCase : UseCases, polarity : ToSet(Polarities), model : 0..100,
              analyst : 0..100, delta : -100..100, at : 0..MaxTime]

TypeOK ==
    /\ kind \in {"sqlite", "postgres"} /\ now \in 0..MaxTime
    /\ run \in [Jobs -> [pc : {"running", "analysis", "segments", "moments", "done"},
                         at : 0..MaxTime, row : Nat]]
    /\ analyses \subseteq AnalysisRow /\ samples \subseteq SampleRow
    /\ segments \subseteq Jobs \X (1..Turns) /\ moments \subseteq Jobs \X (1..Moments)
    /\ fullText \in BOOLEAN /\ faults \in 0..MaxFaults
    /\ sparkline # Nothing => DOMAIN sparkline \subseteq 0..MaxTime

TablesInit ==
    /\ kind \in {"sqlite", "postgres"}
    /\ now = 0 /\ faults = 0 /\ fullText = TRUE /\ sparkline = Nothing
    /\ run = [j \in Jobs |-> [pc |-> "running", at |-> 0, row |-> 1]]
    /\ analyses = {} /\ segments = {} /\ moments = {} /\ samples = {}
-----------------------------------------------------------------------------
(* Writing a run. *)

Fault == faults < MaxFaults /\ faults' = faults + 1
Goto(j, pc) == run' = [run EXCEPT ![j].pc = pc, ![j].row = 1]
Writing == {j \in Jobs : run[j].pc \notin {"running", "done"}}

(* The engine answers (trace.generatedAt), COMPLETED is saved, and         *)
(* processClaimedJob calls persistSentimentData.                           *)
Complete(j) ==
    /\ run[j].pc = "running" /\ Cardinality(Writing) < MaxWriting
    /\ run' = [run EXCEPT ![j] = [pc |-> IF Analysed[j] = Nothing THEN "segments"
                                         ELSE "analysis", at |-> now, row |-> 1]]
    /\ UNCHANGED <<sparkline, kind, now, analyses, segments, moments, samples, fullText,
                   faults>>

(* Slip: each table swallows its own error, and the next one is written.   *)
SaveAnalysisOrGoOn(j) ==
    LET rows == analyses \cup {[job |-> j, score |-> Scores(j), at |-> run[j].at]}
    IN  /\ run[j].pc = "analysis" /\ Goto(j, "segments")
        /\ \/ analyses' = rows /\ UNCHANGED faults
           \/ Fault /\ analyses' \in {analyses, rows}
        /\ UNCHANGED <<sparkline, kind, now, segments, moments, samples, fullText>>

(* saveSentimentAnalysis: one row per run, inserted unless it is there.    *)
SaveAnalysis(j) ==
    LET rows == analyses \cup {[job |-> j, score |-> Scores(j), at |-> run[j].at]}
    IN  /\ run[j].pc = "analysis"
        /\ \/ analyses' = rows /\ Goto(j, "segments") /\ UNCHANGED faults
           \/ Fault /\ analyses' \in {analyses, rows} /\ Goto(j, "done")
        /\ UNCHANGED <<sparkline, kind, now, segments, moments, samples, fullText>>

(* The rows one call of a save writes: all of them in the transaction of   *)
(* SQLite, the next one in the loop of Postgres.                           *)
Batch(j, n) == IF kind = "sqlite" THEN 1..n ELSE {run[j].row} \cap 1..n
LastBatch(j, n) == kind = "sqlite" \/ run[j].row >= n
Advance(j, n, pc) == IF LastBatch(j, n) THEN Goto(j, pc)
                     ELSE run' = [run EXCEPT ![j].row = @ + 1]

SaveSegments(j) ==
    LET rows == segments \cup ({j} \X Batch(j, Turns))
    IN  /\ run[j].pc = "segments"
        /\ \/ /\ segments' = rows /\ UNCHANGED faults
              /\ Advance(j, Turns, IF Moments = 0 THEN "done" ELSE "moments")
           \/ Fault /\ segments' \in {segments, rows} /\ Goto(j, "done")
        /\ UNCHANGED <<sparkline, kind, now, analyses, moments, samples, fullText>>

SaveMoments(j) ==
    LET rows == moments \cup ({j} \X Batch(j, Moments))
    IN  /\ run[j].pc = "moments"
        /\ \/ moments' = rows /\ Advance(j, Moments, "done") /\ UNCHANGED faults
           \/ Fault /\ moments' \in {moments, rows} /\ Goto(j, "done")
        /\ UNCHANGED <<sparkline, kind, now, analyses, segments, samples, fullText>>
-----------------------------------------------------------------------------
(* Labelling, searching, and time. *)

(* Slip: the delta is the model's score minus the analyst's. *)
SampleTurned(j, label) ==
    [job |-> j, useCase |-> Analysed[j].useCase, polarity |-> Analysed[j].polarity,
     model |-> Scores(j), analyst |-> label, delta |-> Scores(j) - label, at |-> now]

Sample(j, label) ==
    [job |-> j, useCase |-> Analysed[j].useCase, polarity |-> Analysed[j].polarity,
     model |-> Scores(j), analyst |-> label, delta |-> label - Scores(j), at |-> now]

(* A review decision with a label on a COMPLETED run: its sample has the   *)
(* id of the run and is inserted unless it is there.                       *)
Label(j, label) ==
    /\ run[j].pc # "running" /\ Analysed[j] # Nothing
    /\ \A s \in samples : s.job # j
    /\ \/ samples' = samples \cup {Sample(j, label)} /\ UNCHANGED faults
       \/ Fault /\ samples' \in {samples, samples \cup {Sample(j, label)}}
    /\ UNCHANGED <<sparkline, kind, now, run, analyses, segments, moments, fullText>>

(* searchSegmentsByPhrase: a full-text query that fails, for whatever      *)
(* reason, turns the full-text search of the process off for good.         *)
Search ==
    /\ kind = "postgres" /\ fullText
    /\ Fault /\ fullText' = FALSE
    /\ UNCHANGED <<sparkline, kind, now, run, analyses, segments, moments, samples>>

Tick ==
    /\ now < MaxTime /\ now' = now + 1
    /\ UNCHANGED <<sparkline, kind, run, analyses, segments, moments, samples, fullText, faults>>
-----------------------------------------------------------------------------
(* Reading the tables. *)

(* Slip: the oldest rows come first. *)
ListedOldest(rows, limit) ==
    {list \in SUBSET rows : /\ Cardinality(list) = Min({Cardinality(rows), limit})
                            /\ \A in \in list, out \in rows \ list : in.at <= out.at}

(* ORDER BY time DESC LIMIT: the newest rows; rows of one moment that the  *)
(* limit parts come in no order.  A set of the possible answers.           *)
Listed(rows, limit) ==
    {list \in SUBSET rows : /\ Cardinality(list) = Min({Cardinality(rows), limit})
                            /\ \A in \in list, out \in rows \ list : in.at >= out.at}

listSentimentAnalyses == Listed(analyses, AnalysisLimit)
listCalibrationSamples(useCase, since) ==
    Listed({s \in samples : s.useCase \in {useCase} \cup {u \in UseCases : useCase = AnyUseCase}
                               /\ s.at >= since}, SampleLimit)

(* getSentimentTrend by the SQLite store, a bucket per moment. *)
getSentimentTrend(span) ==
    LET rows == {a \in analyses : a.at >= now - span}
        At(t) == {a \in rows : a.at = t}
    IN  [t \in {a.at : a \in rows} |->
            [count |-> Cardinality(At(t)), sum |-> ScoreSum(At(t))]]

(* A drift report reads the sparkline, then (EndReport) the analyses and   *)
(* the clock, and answers; a read that throws ends it as well.             *)
ReadSparkline ==
    /\ sparkline = Nothing /\ sparkline' = getSentimentTrend(BaselineSpan)
    /\ UNCHANGED <<kind, now, run, analyses, segments, moments, samples, fullText, faults>>

EndReport ==
    /\ sparkline # Nothing /\ sparkline' = Nothing
    /\ UNCHANGED <<kind, now, run, analyses, segments, moments, samples, fullText, faults>>

TablesNext == \/ \E j \in Jobs : \/ Complete(j) \/ SaveAnalysis(j) \/ SaveSegments(j) \/ SaveMoments(j)
                           \/ \E label \in Labels : Label(j, label)
        \/ Search \/ Tick \/ ReadSparkline \/ EndReport

TablesSpec == TablesInit /\ [][TablesNext]_tables
-----------------------------------------------------------------------------
(* Properties. *)

(* Whatever call fails, and whichever store it is: what is found of a run  *)
(* in a later table is found in the earlier ones, complete, and of a table *)
(* SQLite shows all the rows of a run or none.                             *)
PartsFollowTheAnalysis ==
    \A j \in Jobs :
        LET written == {i \in 1..Turns : <<j, i>> \in segments}
            told == {i \in 1..Moments : <<j, i>> \in moments}
        IN  /\ written # {} /\ Analysed[j] # Nothing => \E a \in analyses : a.job = j
            /\ told # {} => written = 1..Turns
            /\ kind = "sqlite" => written \in {{}, 1..Turns} /\ told \in {{}, 1..Moments}

(* Following a recommendation never hurts: over the samples it was made    *)
(* from, of all use cases or of one, scores moved by the offset are in the *)
(* mean square no farther from the analysts' than they were, and the       *)
(* calibration analysis of the same samples sees the error on that side.   *)
RecommendationNeverHurts ==
    \A useCase \in UseCases \cup {AnyUseCase} : \A list \in listCalibrationSamples(useCase, 0) :
        LET offset == recommendCalibrationOffset(list).recommendedScore100Offset
            Error(s, by) == (s.model + by - s.analyst) * (s.model + by - s.analyst)
            Errors(by) == SumOver([s \in list |-> Error(s, by)], list)
        IN  /\ offset \in -20..20
            /\ Errors(offset) <= Errors(0)
            /\ list = {} => offset = 0
            /\ Magnitude(analyzeCalibration(list).avgSignedDelta - 100 * offset) <= 50
               \/ Magnitude(offset) = 20

(* A drift is called significant only on complete evidence: although only  *)
(* the newest analyses are listed and the clock is read after them, none   *)
(* stored at the listing is missing from the recent span, and an empty     *)
(* span with its average of 50 never makes one.                            *)
SignificantDriftIsComplete ==
    \A list \in listSentimentAnalyses, later \in now..MaxTime :
        LET drift == detectDrift(list, later)
        IN  drift.driftSignificant =>
                /\ drift.recent = {a \in analyses : a.at >= later - RecentSpan}
                /\ drift.trendDirection # "stable"
                /\ drift.baseline # {}

(* The books of the reports balance, whatever is saved and however late    *)
(* the clock is read between the reads of one report.  While the limit     *)
(* cuts nothing off and the recent span is the shorter one, which nothing  *)
(* in a query ensures: a bar of a drift's sparkline that is not too old    *)
(* for its spans is made of analyses they count, once each, and where they *)
(* count no more it has their sum.  The windows of a convergence part the  *)
(* samples of their span, and when that is all of them the overall error   *)
(* lies between theirs.  The confusion pairs count every misclassified     *)
(* sample once.                                                            *)
ReportsBalance ==
    /\ sparkline # Nothing =>
       \A list \in listSentimentAnalyses, later \in now..MaxTime :
           RecentSpan <= BaselineSpan /\ list = analyses =>
             \A t \in {u \in DOMAIN sparkline : u >= later - BaselineSpan} :
               LET drift == detectDrift(list, later)
                   Dated(part) == {a \in part : a.at = t}
                   told == Cardinality(Dated(drift.baseline)) + Cardinality(Dated(drift.recent))
               IN  /\ sparkline[t].count <= told
                   /\ told <= Cardinality(Dated(analyses))
                   /\ sparkline[t].count = told =>
                        sparkline[t].sum = ScoreSum(Dated(drift.baseline \cup drift.recent))
    /\ \A asked \in 0..now, later \in now..MaxTime :
       \A list \in listCalibrationSamples(AnyUseCase, asked - TotalSpan) :
           LET windows == {Window(list, later, i) : i \in 0..(WindowCount - 1)}
               errors == ToSet(WindowErrors(list, later))
               overall == trackCalibrationConvergence(list, later).overallMae
           IN  /\ UNION windows = {s \in list : /\ s.at < later
                                                /\ s.at >= later - WindowCount * WindowSpan}
               /\ \A w1, w2 \in windows : w1 = w2 \/ w1 \cap w2 = {}
               /\ MinPerWindow = 1 /\ UNION windows = list /\ list # {} =>
                     Min(errors) <= overall /\ overall <= Max(errors)
    /\ \A asked \in 0..now :
       \A list \in listCalibrationSamples(AnyUseCase, asked - AnalysisSpan) :
           LET report == analyzeCalibration(list)
           IN  SumOver([k \in report.confusionPairs |-> k.count], report.confusionPairs)
                  = Cardinality(Misclassified(list))
=============================================================================
