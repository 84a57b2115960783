------------------------ MODULE ValidationMonitoring ------------------------
(***************************************************************************)
(* ModelValidationWorker and ModelValidationService: the tick refreshes    *)
(* the reviewed exports, applies recommended thresholds to the             *)
(* configuration and writes validation reports; HTTP handlers ask for the  *)
(* same of the same files, or rewrite the configuration.                   *)
(*                                                                         *)
(* An operation is cut where it awaits: what it reads at the start (the    *)
(* configuration, the runs and the list of dataset files), the contents of *)
(* these files, and the two halves of what it writes.  Delivering alerts   *)
(* is left out: a failed delivery is swallowed and nothing reads of it.    *)
(***************************************************************************)
EXTENDS ReviewedExports

CONSTANTS All,               \* the key of a report on runs of any pack version
          RejectedPacks,     \* versions with a rejected release or failed canary
          Installed, Configs,\* configurations: found at first; that callers may PUT
          ApplyRequests,     \* how callers may ask to apply recommendations
          Tasks,             \* what else they may ask for: <<task, force>>
          Outcomes           \* review states that a decision leads to

ASSUME MonitoringAssumption ==
    /\ \A config \in Installed \cup Configs : ThresholdsFit(config.thresholds)
    /\ Outcomes \subseteq STRING
    /\ RejectedPacks \subseteq Nat \ {0}
    /\ All = 0
    /\ Tasks \subseteq {"refresh", "validate"} \X BOOLEAN

VARIABLES reports,     \* reports[v]: the newest report on pack version v
          unfinished   \* how many report files are opened and not written

monitoringVars == <<reports, unfinished>>
validation == <<exportVars, reports, unfinished>>

Versions == {run[r].version : r \in Runs}

(* Nothing has been exported, reported or asked for. *)
InitFiles ==
    /\ writer = [p \in Processes |-> None]
    /\ snapshots = << >>
    /\ call = [p \in Processes |-> Idle] /\ up = FALSE
    /\ promised = [r \in Runs |-> 0]
    /\ reports = [v \in Versions \cup {All} |-> None] /\ unfinished = 0

(* Runs may have been reviewed before.                                     *)
Absent == [now |-> None, tmp |-> None]
MonitoringInit ==
    /\ run \in [Runs -> RunRecord]
    /\ clock \in 0..MaxClock /\ \A r \in Runs : Timely(run[r])
    /\ events \in [decisions : 0..MaxDecisions, others : 0..MaxEvents]
    /\ file \in {[latest |-> Absent, manifest |-> Absent, config |-> [Absent EXCEPT !.now = config]]
                 : config \in Installed \cup {None}}
    /\ InitFiles
-----------------------------------------------------------------------------
(* What is read of runs and of records. *)

(* A run was created in the evaluation window. *)
InWindow(r) == clock - run[r].created <= Window
LiveView(r) == Overlay([run |-> r], run[r])
SampleView(r) == [run |-> r, version |-> run[r].version,
                  model100 |-> run[r].model100, analyst100 |-> run[r].analyst100,
                  engagement |-> run[r].engagement, queue |-> run[r].queue,
                  length |-> run[r].derived]

windowedRuns == {LiveView(r) : r \in {q \in Runs : InWindow(q)}}
SamplesOf(records) == {SampleView(r) : r \in {q \in DOMAIN records : records[q].label # None}}
Windowed(records) == [r \in {q \in DOMAIN records : InWindow(q)} |-> records[r]]
-----------------------------------------------------------------------------
(* applyConfiguredThresholdRecommendations, applyRecommendedThresholds and *)
(* recommendThresholds.                                                    *)

StartApplyAll(p) ==
    LET config == file.config.now
        policy == [force |-> FALSE, enable |-> config.enabled, interval |-> config.interval,
                   minima |-> config.minima, autoApply |-> config.autoApply]
        tooSoon == /\ config.appliedAt # None
                   /\ clock - config.appliedAt < config.autoInterval
    IN  /\ call[p].pc = "applyAll"
        /\ IF ListThrows THEN Throw(p)
           ELSE /\ Proceed(p, IF config = None THEN NextTask(p)
                              ELSE IF ~config.autoApply \/ tooSoon THEN NextTask(p)
                              ELSE [call[p] EXCEPT !.pc = "apply", !.ask = policy])
                /\ UNCHANGED <<writer, up>>
        /\ UNCHANGED <<run, file, snapshots, clock, promised, events, monitoringVars>>

(* The configuration that will be written back is read here... *)
applyRecommendedThresholds(p) ==
    /\ call[p].pc = "apply"
    /\ Proceed(p, [call[p] EXCEPT !.pc = "recommend", !.base = GetConfig, !.started = clock])
    /\ UNCHANGED <<run, file, writer, snapshots, up, clock, promised, events, monitoringVars>>

(* ...and the one whose thresholds and minima the recommendation starts    *)
(* from is read again.                                                     *)
recommendThresholds(p) ==
    /\ call[p].pc = "recommend"
    /\ Proceed(p, [call[p] EXCEPT !.pc = "loadRecommend", !.found = GetConfig,
                                  !.runs = windowedRuns, !.seen = resolveReviewedDatasetFiles])
    /\ UNCHANGED <<run, file, writer, snapshots, up, clock, promised, events, monitoringVars>>

(* An interval, the policy and its minima are always written; thresholds   *)
(* only with enough runs and samples, or by force; monitoring is never     *)
(* turned off.                                                             *)
ConfigToApply(base, ask, started, applied, recommended) ==
    [enabled |-> ask.enable \/ base.enabled, interval |-> ask.interval,
     autoApply |-> ask.autoApply, autoInterval |-> ask.interval,
     appliedAt |-> IF applied THEN started ELSE base.appliedAt,
     minima |-> ask.minima,
     thresholds |-> IF applied THEN recommended ELSE base.thresholds]

LoadRecommendation(p) ==
    LET c == call[p]
        records == loadReviewedExportRecords(c.seen)
    IN  /\ c.pc = "loadRecommend"
        /\ IF LoadThrows(c.seen) THEN Throw(p)
           ELSE /\ Proceed(p, [c EXCEPT !.pc = "measure", !.seen = {},
                                        !.dataset = SamplesOf(Windowed(records))])
                /\ UNCHANGED <<writer, up>>
        /\ UNCHANGED <<run, file, snapshots, clock, promised, events, monitoringVars>>

Measure(p) ==
    LET c == call[p]
    IN  /\ c.pc = "measure"
        /\ Proceed(p, [c EXCEPT !.pc = "openConfig", !.runs = None, !.dataset = None,
                                !.found = [config |-> c.found,
                                           measured |-> Measurements(c.runs, c.dataset)]])
        /\ UNCHANGED <<run, file, writer, snapshots, up, clock, promised, events, monitoringVars>>

OpenConfig(p) ==
    LET c == call[p]
        m == c.found.measured
        reviewed == IF m.reviewed = None THEN 0 ELSE m.reviewed.total
        applied == \/ c.ask.force
                   \/ /\ m.live.runCount >= c.ask.minima["ALL"].runs
                      /\ reviewed >= c.ask.minima["ALL"].reviewed
        recommended == deriveRecommendedThresholds(c.found.config.thresholds, m,
                                                   c.found.config.minima)
    IN  /\ c.pc = "openConfig"
        /\ Open(p, "config", "now",
                ConfigToApply(c.base, c.ask, c.started, applied, recommended))
        /\ Proceed(p, [c EXCEPT !.pc = "writeConfig", !.found = IF applied THEN m ELSE None])
        /\ UNCHANGED <<run, snapshots, up, clock, promised, events, monitoringVars>>

WriteConfig(p) ==
    /\ call[p].pc = "writeConfig"
    /\ Write(p) /\ Proceed(p, NextTask(p))
    /\ UNCHANGED <<run, snapshots, up, clock, promised, events, monitoringVars>>
-----------------------------------------------------------------------------
(* runConfiguredValidations and runScope. *)

(* A list of reports reads every report file there is. *)
ReportsThrow == unfinished > 0
Reported == {reports[v].at : v \in {w \in DOMAIN reports : reports[w] # None}}
RecentlyReported(config) ==
    Reported # {} /\ clock - Max(Reported) < config.interval

runConfiguredValidations(p) ==
    LET config == file.config.now
    IN  /\ call[p].pc = "validate"
        /\ IF ListThrows THEN Throw(p)
           ELSE IF config = None THEN Proceed(p, NextTask(p)) /\ UNCHANGED <<writer, up>>
           ELSE IF ~config.enabled /\ ~call[p].force
                THEN Proceed(p, NextTask(p)) /\ UNCHANGED <<writer, up>>
           ELSE IF ReportsThrow THEN Throw(p)
           ELSE /\ Proceed(p, IF ~call[p].force /\ RecentlyReported(config) THEN NextTask(p)
                              ELSE [call[p] EXCEPT !.pc = "readiness",
                                                   !.seen = resolveReviewedDatasetFiles])
                /\ UNCHANGED <<writer, up>>
        /\ UNCHANGED <<run, file, snapshots, clock, promised, events, monitoringVars>>

buildReviewedDatasetSummary(p) ==
    LET seen == call[p].seen
        ready == seen # {} /\ coverageFailures(loadReviewedExportRecords(seen)) = {}
    IN  /\ call[p].pc = "readiness"
        /\ IF LoadThrows(seen) \/ (seen # {} /\ file.manifest.now \in {Empty, Torn})
           THEN Throw(p)
           ELSE /\ Proceed(p, IF ~ready /\ ~call[p].force THEN NextTask(p)
                              ELSE [call[p] EXCEPT !.pc = "scope", !.seen = {}])
                /\ UNCHANGED <<writer, up>>
        /\ UNCHANGED <<run, file, snapshots, clock, promised, events, monitoringVars>>

runScope(p) ==
    /\ call[p].pc = "scope"
    /\ Proceed(p, [call[p] EXCEPT !.pc = "loadScope", !.base = GetConfig.thresholds,
                                  !.runs = windowedRuns, !.seen = resolveReviewedDatasetFiles])
    /\ UNCHANGED <<run, file, writer, snapshots, up, clock, promised, events, monitoringVars>>

(* A version has a report if a run in the window has it, or a record of    *)
(* any age.                                                                *)
LoadScope(p) ==
    LET c == call[p]
        records == loadReviewedExportRecords(c.seen)
        versions == {x.version : x \in c.runs} \cup {run[r].version : r \in DOMAIN records}
    IN  /\ c.pc = "loadScope"
        /\ IF LoadThrows(c.seen) THEN Throw(p)
           ELSE /\ Proceed(p, [c EXCEPT !.pc = "report", !.seen = {},
                                        !.dataset = SamplesOf(Windowed(records)),
                                        !.todo = IF versions = {} THEN {All} ELSE versions])
                /\ UNCHANGED <<writer, up>>
        /\ UNCHANGED <<run, file, snapshots, clock, promised, events, monitoringVars>>

(* The registry has rejected the version, or its last canary failed. *)
canaryAlertForPack(version) == version \in RejectedPacks

(* The previous report of the version is looked for among all files. *)
buildReport(p) ==
    LET c == call[p]
        version == Min(c.todo)
        Of(rows) == IF version = All THEN rows ELSE {x \in rows : x.version = version}
        alerts == buildAlerts(c.base, Measurements(Of(c.runs), Of(c.dataset)),
                              canaryAlertForPack(version))
        report == [at |-> clock, severities |-> {severity(a.kind) : a \in alerts}]
    IN  /\ c.pc = "report"
        /\ IF ReportsThrow THEN Throw(p) /\ UNCHANGED unfinished
           ELSE /\ unfinished' = unfinished + 1
                /\ Proceed(p, [c EXCEPT !.pc = "saveReport", !.found = report])
                /\ UNCHANGED <<writer, up>>
        /\ UNCHANGED <<run, file, snapshots, clock, promised, events, reports>>

saveReport(p) ==
    LET c == call[p]
        version == Min(c.todo)
    IN  /\ c.pc = "saveReport"
        /\ reports' = [reports EXCEPT ![version] =
                          IF @ = None THEN c.found
                          ELSE IF @.at <= c.found.at THEN c.found ELSE @]
        /\ unfinished' = unfinished - 1
        /\ Proceed(p, IF c.todo = {version} THEN NextTask(p)
                      ELSE [c EXCEPT !.pc = "report", !.todo = @ \ {version}, !.found = None])
        /\ UNCHANGED <<run, file, writer, snapshots, up, clock, promised, events>>
-----------------------------------------------------------------------------
(* The tick, the handlers and the process.                                 *)

(* Slip: the exports are left to the handlers. *)
WorkerPlanWithoutRefresh == <<"applyAll", "validate">>

WorkerPlan == <<"refresh", "applyAll", "validate">>
AtTick == [Idle EXCEPT !.pc = Head(WorkerPlan), !.plan = WorkerPlan]

(* The process starts with a tick. *)
Boot ==
    /\ ~up /\ up' = TRUE
    /\ Proceed(Worker, AtTick)
    /\ UNCHANGED <<run, file, writer, snapshots, clock, promised, events, monitoringVars>>

(* The interval fires; a tick that is under way is left alone. *)
Tick ==
    /\ up /\ call[Worker].pc = "idle"
    /\ Proceed(Worker, AtTick)
    /\ UNCHANGED <<run, file, writer, snapshots, up, clock, promised, events, monitoringVars>>

Ask(p, task, force, request) ==
    /\ up /\ call[p].pc = "idle" /\ Event
    /\ Proceed(p, [Idle EXCEPT !.pc = task, !.plan = <<task>>, !.force = force, !.ask = request])
    /\ UNCHANGED <<run, file, writer, snapshots, up, clock, promised, monitoringVars>>

Crash ==
    /\ up /\ Event /\ Exit
    /\ UNCHANGED <<run, file, snapshots, clock, promised, monitoringVars>>

Step(p) ==
    \/ RefreshStep(p) /\ UNCHANGED monitoringVars
    \/ FinishPut(p) /\ UNCHANGED monitoringVars
    \/ StartApplyAll(p) \/ applyRecommendedThresholds(p) \/ recommendThresholds(p)
    \/ LoadRecommendation(p) \/ Measure(p) \/ OpenConfig(p) \/ WriteConfig(p)
    \/ runConfiguredValidations(p) \/ buildReviewedDatasetSummary(p)
    \/ runScope(p) \/ LoadScope(p) \/ buildReport(p) \/ saveReport(p)

MonitoringNext ==
    \/ Boot \/ Tick \/ Crash
    \/ Hour /\ UNCHANGED monitoringVars
    \/ \E p \in Processes : Step(p)
    \/ \E p \in Callers :
          \/ \E task \in Tasks : Ask(p, task[1], task[2], None)
          \/ \E request \in ApplyRequests : Ask(p, "apply", FALSE, request)
          \/ \E config \in Configs : PutConfig(p, config) /\ UNCHANGED monitoringVars
    \/ \E r \in Runs, state \in Outcomes, labels \in BOOLEAN :
          Decide(r, state, labels) /\ UNCHANGED monitoringVars

(* The interval fires, the event loop goes on with every call whose await  *)
(* has come back, and a supervisor restarts the process.  A step of p is   *)
(* enabled exactly while p has a task, so that this is its weak fairness:  *)
(* TLC is much slower at finding ENABLED Step(p).                          *)
WeaklyFairStep(p) == []<>(call[p].pc = "idle") \/ []<><<Step(p)>>_validation
Fairness == WF_validation(Boot) /\ WF_validation(Tick) /\ \A p \in Processes : WeaklyFairStep(p)

MonitoringSpec == MonitoringInit /\ [][MonitoringNext]_validation /\ Fairness
-----------------------------------------------------------------------------
(* Properties. *)

(* Limits that no recommendation leaves, in 1/10000. *)
BeyondLimits(live, reviewed) ==
    {kind \in {"FAILURE_RATE_HIGH", "REVIEW_RATE_HIGH", "UNCERTAIN_RATE_HIGH",
               "SCHEMA_VALID_RATE_LOW", "SCORE_BUCKET_MATCH_LOW"} :
       \/ kind = "FAILURE_RATE_HIGH" /\ live.failureRate > 5000
       \/ kind = "REVIEW_RATE_HIGH" /\ live.reviewRate > 7500
       \/ kind = "UNCERTAIN_RATE_HIGH" /\ live.uncertainRate > 5000
       \/ kind = "SCHEMA_VALID_RATE_LOW" /\ live.schemaValidRate # None
                                         /\ live.schemaValidRate < 9000
       \/ /\ kind = "SCORE_BUCKET_MATCH_LOW" /\ reviewed # None
          /\ \/ 2 * reviewed.exact < reviewed.total
             \/ 5 * reviewed.within < 4 * reviewed.total}

MayAlert(thresholds, m, alert) ==
    \/ alert.kind = "REVIEWED_SAMPLE_SIZE_LOW"
    \/ alert.dim = None /\ alert.kind \in BeyondLimits(m.live, m.reviewed)
    \/ /\ alert.dim # None
       /\ \/ alert.key \notin DOMAIN thresholds.by[alert.dim]
          \/ alert.kind \in BeyondLimits(m.liveBy[alert.dim][alert.key],
                                         m.reviewedBy[alert.dim][alert.key])

(* Thresholds that are applied do not alert about the data they were       *)
(* recommended from: not about all runs, and not about a queue, engagement *)
(* type or length that is given limits of its own; unless a rate is beyond *)
(* what may be recommended at all.  (model-validation-service.ts:1616-1797 *)
(* against 769-1253: two translations of the same eleven limits, and       *)
(* overrides that are compacted against one base and expanded on another.) *)
RecommendedThresholdsAreQuiet ==
    \A p \in Processes :
        call[p].pc = "writeConfig" /\ call[p].found # None =>
            LET thresholds == writer[p].data.thresholds
            IN  \A alert \in buildAlerts(thresholds, call[p].found, FALSE) :
                   MayAlert(thresholds, call[p].found, alert)

(* A validation is due, and the configuration, the reviewed runs and the   *)
(* report files are such that the tick can make it.                        *)
Due ==
    LET config == file.config.now
    IN  IF ~Readable(config) THEN FALSE
        ELSE config.enabled /\ ~RecentlyReported(config)
Hindered ==
    LET exported == {r \in Runs : Exported(r)}
    IN  \/ unfinished > 0
        \/ coverageFailures([r \in exported |-> RecordOf(r)]) # {}
        \/ \E r \in exported : Unexportable(r)

(* A validation that is due is made, unless monitoring is turned off, its  *)
(* files cannot be read or the reviewed runs do not suffice: whatever      *)
(* crashed, and whatever a crash or a second refresh left of the exports   *)
(* and of their manifest, which the tick's own refresh replaces.           *)
(* (model-validation-worker.ts:30-43, standalone.ts:302-306.)              *)
DueScopeIsReported == Due ~> (~Due \/ Hindered)
=============================================================================
