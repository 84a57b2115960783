-------------------------- MODULE ReviewedExports --------------------------
(***************************************************************************)
(* ReviewedRunExportRefreshService: the reviewed runs of a tenant and use  *)
(* case, written to a file that is replaced, to a snapshot beside the      *)
(* older ones and to a manifest; the reader that merges these files; the   *)
(* tenant's configuration file; and the processes they share: the tick of  *)
(* the validation worker and the HTTP handlers.                            *)
(*                                                                         *)
(* A file is opened (which truncates it) and written in two steps.  An     *)
(* atomic write does this to `<path>.tmp` and renames it; as that name is  *)
(* the same for every refresh, a rename may move a file that another       *)
(* refresh still writes to.  A snapshot has the time of its refresh in its *)
(* name, so nobody else writes to it: it appears in one step.              *)
(*                                                                         *)
(* The model has one tenant and use case.                                  *)
(***************************************************************************)
EXTENDS ValidationMetrics, Sequences

CONSTANTS Runs,
          Worker, Callers,        \* the worker's tick; HTTP handlers
          Empty, Torn,            \* a truncated file; one that does not parse
          RetentionTime, MaximumSnapshots,   \* of the export policy
          SentimentRequired,      \* requireAnalystSentiment
          Readiness,              \* what the dataset must have: [records,
                                  \* sentiments : Nat, age : Nat or None,
                                  \* by : minimum counts per dimension and key]
          Window,                 \* evaluationWindowHours
          MaxClock,               \* bounds: time; decisions; other requests
          MaxDecisions, MaxEvents \* and faults

ASSUME ExportAssumption ==
    /\ Worker \notin Callers /\ IsFiniteSet(Callers) /\ IsFiniteSet(Runs)
    /\ MaximumSnapshots \in Nat \ {0}
    /\ {RetentionTime, Window, MaxClock, MaxDecisions, MaxEvents} \subseteq Nat
    /\ SentimentRequired \in BOOLEAN

Processes == Callers \cup {Worker}

VARIABLES run,        \* the analysed runs and what analysts decided of them
          file,       \* latest, manifest and config, each with its .tmp
          writer,     \* writer[p]: the file p has open
          snapshots,  \* by the number of the refresh that wrote them
          call,       \* call[p]: where p is in what it does, and its locals
          up, clock,
          promised,   \* promised[r]: the newest decision that had been made on
                      \* an exportable r when a refresh started that has ended
          events      \* how many decisions, and how many requests and faults,
                      \* have been made

exportVars == <<run, file, writer, snapshots, call, up, clock, promised, events>>

(* What is read of a run.  Decisions are made on completed runs, and every *)
(* one moves updatedAt.                                                    *)
RunRecord ==
    [status : {"QUEUED", "RUNNING", "COMPLETED", "FAILED"}, review : STRING, schema : STRING,
     ms : Nat \cup {None}, created : Nat, version : Nat \ {0},
     engagement : STRING, queue : STRING, length : STRING, derived : STRING,
     model100 : 0..100, analyst100 : 0..100,
     decisions : Nat, updatedAt : Nat, label : Nat \cup {None}]
Timely(x) ==
    /\ x.decisions > 0 => x.status = "COMPLETED"
    /\ x.label # None => x.label <= x.updatedAt
    /\ x.updatedAt <= clock

Event == events.others < MaxEvents /\ events' = [events EXCEPT !.others = @ + 1]
-----------------------------------------------------------------------------
(* Processes. *)

Idle == [pc |-> "idle", plan |-> << >>, force |-> FALSE, number |-> 0, started |-> 0,
         decided |-> << >>, export |-> None,
         seen |-> {}, base |-> None, ask |-> None, runs |-> None,
         found |-> None, dataset |-> None, todo |-> {}]

Proceed(p, local) == call' = [call EXCEPT ![p] = local]
NextTask(p) == IF Len(call[p].plan) <= 1 THEN Idle
            ELSE [Idle EXCEPT !.plan = Tail(call[p].plan), !.force = call[p].force,
                              !.pc = Head(Tail(call[p].plan))]

(* A rejected call fails the request of a caller.  The tick catches nothing*)
(* and nothing awaits it: the unhandled rejection ends the process, its    *)
(* handlers with it; the files stay as they are.                           *)
Exit == /\ up' = FALSE
        /\ call' = [p \in Processes |-> Idle]
        /\ writer' = [p \in Processes |-> None]
Throw(p) == IF p = Worker THEN Exit
            ELSE Proceed(p, Idle) /\ writer' = [writer EXCEPT ![p] = None] /\ UNCHANGED up
-----------------------------------------------------------------------------
(* Files. *)

Readable(content) == content \notin {None, Empty, Torn}

(* writeFile writes from the start of a file that it truncated when it     *)
(* opened it.  What another has written since is overwritten, up to a rest *)
(* if that was longer.                                                     *)
Overwritten(old, data) == IF old \in {Empty, data} THEN {data} ELSE {data, Torn}

Open(p, name, place, data) ==
    /\ file' = [file EXCEPT ![name][place] = Empty]
    /\ writer' = [writer EXCEPT ![p] = [name |-> name, place |-> place, data |-> data]]

Write(p) ==
    LET w == writer[p]
    IN  /\ IF w.place = "gone" THEN UNCHANGED file
           ELSE \E content \in Overwritten(file[w.name][w.place], w.data) :
                   file' = [file EXCEPT ![w.name][w.place] = content]
        /\ writer' = [writer EXCEPT ![p] = None]

(* Whoever has the renamed file open has it open under its new name. *)
Moved(w, name) == IF w = None THEN w
                  ELSE IF w.name # name THEN w
                  ELSE [w EXCEPT !.place = IF @ = "tmp" THEN "now" ELSE "gone"]
Rename(name) ==
    /\ file' = [file EXCEPT ![name] = [now |-> file[name].tmp, tmp |-> None]]
    /\ writer' = [p \in Processes |-> Moved(writer[p], name)]
-----------------------------------------------------------------------------
(* The configuration registry: get() answers the defaults for a file that  *)
(* does not parse, list() throws.                                          *)

DefaultMinima ==
    [x \in Dimensions \cup {"ALL"} |->
        CASE x = "ALL" -> [runs |-> 50, reviewed |-> 20]
          [] x = "engagement" -> [runs |-> 15, reviewed |-> 8]
          [] OTHER -> [runs |-> 10, reviewed |-> 5]]

(* validationMonitoring of a configuration; the default intervals are a day. *)
buildDefaultTenantAdminConfig ==
    [enabled |-> FALSE, interval |-> 1, autoApply |-> FALSE, autoInterval |-> 1,
     appliedAt |-> None, minima |-> DefaultMinima,
     thresholds |-> [limits |-> DefaultLimits, by |-> NoOverrides]]

GetConfig == IF Readable(file.config.now) THEN file.config.now
             ELSE buildDefaultTenantAdminConfig
ListThrows == file.config.now \in {Empty, Torn}
-----------------------------------------------------------------------------
(* Reviewed runs and their records.  A decision keeps the label there is   *)
(* unless it brings one; a label keeps the time it was given.              *)

Reviewed(r) == run[r].status = "COMPLETED" /\ run[r].decisions > 0
Exported(r) == Reviewed(r) /\ (SentimentRequired => run[r].label # None)
RecordOf(r) == [decisions |-> run[r].decisions, updatedAt |-> run[r].updatedAt,
                label |-> run[r].label]

(* The schema of a record knows four engagement types; a run may name any. *)
Unexportable(r) == run[r].engagement \notin Scoring!Engagement \cup {Unspecified}

reviewedRecordTimestamp(record) ==
    IF record.label # None THEN record.label ELSE record.updatedAt

resolveReviewedDatasetFiles == (IF file.latest.now = None THEN {} ELSE {0}) \cup DOMAIN snapshots

(* A file that was listed may have been pruned; a line that does not parse *)
(* throws out of the whole load, and a file without a line is no record.   *)
LoadThrows(seen) == \/ 0 \in seen /\ file.latest.now = Torn
                    \/ \E i \in seen \ {0} : i \notin DOMAIN snapshots

RecordsIn(i) ==
    CASE i > 0 -> snapshots[i].records
      [] i = 0 /\ Readable(file.latest.now) -> file.latest.now
      [] i = 0 /\ file.latest.now \in {None, Empty} -> << >>

(* The reader takes the latest file, then the snapshots by their names, and*)
(* keeps of each run the record with the latest time, the later file's if  *)
(* two have the same.                                                      *)

(* Slip: the first of the records with the latest time is kept. *)
MergedFirst(sources, r) ==
    LET having == {i \in sources : r \in DOMAIN RecordsIn(i)}
        Stamp(i) == reviewedRecordTimestamp(RecordsIn(i)[r])
    IN  RecordsIn(CHOOSE i \in having : \A j \in having :
                     Stamp(i) > Stamp(j) \/ (Stamp(i) = Stamp(j) /\ i <= j))[r]

Merged(sources, r) ==
    LET having == {i \in sources : r \in DOMAIN RecordsIn(i)}
        Stamp(i) == reviewedRecordTimestamp(RecordsIn(i)[r])
    IN  RecordsIn(CHOOSE i \in having : \A j \in having :
                     Stamp(i) > Stamp(j) \/ (Stamp(i) = Stamp(j) /\ i >= j))[r]

loadReviewedExportRecords(sources) ==
    [r \in UNION {DOMAIN RecordsIn(i) : i \in sources} |-> Merged(sources, r)]
-----------------------------------------------------------------------------
(* What a dataset lacks, said by the manifest of one export and, of the    *)
(* merged records, by the service that validates.                          *)

(* A record has the length of the transcript, whatever the metadata say.   *)
RecordPart(r, dim) == IF dim = "length" THEN run[r].derived ELSE run[r][dim]
CountOf(records, dim, key) == Cardinality({r \in DOMAIN records : RecordPart(r, dim) = key})

coverageFailures(records) ==
    LET updates == {records[r].updatedAt : r \in DOMAIN records}
        labelled == {r \in DOMAIN records : records[r].label # None}
    IN  (IF Cardinality(DOMAIN records) < Readiness.records THEN {<<"all", "records">>} ELSE {}) \cup
        (IF Cardinality(labelled) < Readiness.sentiments THEN {<<"all", "sentiments">>} ELSE {}) \cup
        (IF updates # {} /\ Readiness.age # None
         THEN IF clock - Max(updates) > Readiness.age THEN {<<"all", "age">>} ELSE {} ELSE {}) \cup
        UNION {{<<dim, key>> : key \in {k \in DOMAIN Readiness.by[dim] :
                                  CountOf(records, dim, k) < Readiness.by[dim][k]}}
               : dim \in Dimensions}
-----------------------------------------------------------------------------
(* A refresh: refreshConfiguredExports and, for the scope, its steps.      *)

(* Numbers stand for the times in the names of snapshots; they are kept    *)
(* small by closing the gaps whenever one is given.                        *)
NumbersInUse == DOMAIN snapshots \cup {call[p].number : p \in Processes}
                \cup UNION {call[p].seen : p \in Processes}
Renumbered(i) == Cardinality({j \in NumbersInUse \ {0} : j <= i})
Newest == Cardinality(NumbersInUse \ {0}) + 1

StartRefresh(p) ==
    LET config == GetConfig
        starts == file.config.now # None /\ (config.enabled \/ call[p].force)
        renamed == {Renumbered(i) : i \in DOMAIN snapshots}
    IN  /\ call[p].pc = "refresh"
        /\ IF ListThrows THEN Throw(p) /\ UNCHANGED snapshots
           ELSE IF ~starts THEN Proceed(p, NextTask(p)) /\ UNCHANGED <<writer, up, snapshots>>
           ELSE /\ call' = [q \in Processes |->
                       IF q = p THEN [call[p] EXCEPT !.pc = "export", !.number = Newest,
                                        !.started = clock,
                                        !.decided = [r \in Runs |->
                                            IF Exported(r) THEN run[r].decisions ELSE 0]]
                       ELSE [call[q] EXCEPT
                                !.number = Renumbered(call[q].number),
                                !.seen = {Renumbered(i) : i \in call[q].seen}]]
                /\ snapshots' = [j \in renamed |->
                       snapshots[CHOOSE i \in DOMAIN snapshots : Renumbered(i) = j]]
                /\ UNCHANGED <<writer, up>>
        /\ UNCHANGED <<run, file, clock, promised, events>>

(* exportReviewedRuns: a record that its schema refuses fails the export.  *)
ExportRuns(p) ==
    LET exported == {r \in Runs : Exported(r)}
    IN  /\ call[p].pc = "export"
        /\ IF \E r \in exported : Unexportable(r) THEN Throw(p)
           ELSE /\ Proceed(p, [call[p] EXCEPT !.pc = "openLatest",
                                              !.export = [r \in exported |-> RecordOf(r)]])
                /\ UNCHANGED <<writer, up>>
        /\ UNCHANGED <<run, file, snapshots, clock, promised, events>>

OpenTemporary(p, name, pc, next, data) ==
    /\ call[p].pc = pc
    /\ Open(p, name, "tmp", data)
    /\ Proceed(p, [call[p] EXCEPT !.pc = next])
    /\ UNCHANGED <<run, snapshots, up, clock, promised, events>>

WriteTemporary(p, pc, next) ==
    /\ call[p].pc = pc
    /\ Write(p)
    /\ Proceed(p, [call[p] EXCEPT !.pc = next])
    /\ UNCHANGED <<run, snapshots, up, clock, promised, events>>

(* rename fails when another refresh has renamed the file before.          *)
RenameTemporary(p, name, pc, next) ==
    /\ call[p].pc = pc
    /\ IF file[name].tmp = None THEN Throw(p) /\ UNCHANGED file
       ELSE Rename(name) /\ Proceed(p, [call[p] EXCEPT !.pc = next]) /\ UNCHANGED up
    /\ UNCHANGED <<run, snapshots, clock, promised, events>>

WriteSnapshot(p) ==
    /\ call[p].pc = "snapshot"
    /\ snapshots' = [i \in DOMAIN snapshots \cup {call[p].number} |->
                       IF i # call[p].number THEN snapshots[i]
                       ELSE [at |-> call[p].started, records |-> call[p].export]]
    /\ Proceed(p, [call[p] EXCEPT !.pc = "openManifest"])
    /\ UNCHANGED <<run, file, writer, up, clock, promised, events>>

buildManifest(p) == [records |-> call[p].export, failures |-> coverageFailures(call[p].export)]

KeptSnapshots ==
    {i \in DOMAIN snapshots :
        /\ clock - snapshots[i].at <= RetentionTime
        /\ Cardinality({j \in DOMAIN snapshots : j > i}) < MaximumSnapshots}

(* The last step of a refresh. *)
pruneSnapshots(p) ==
    LET export == call[p].export
    IN  /\ call[p].pc = "prune"
        /\ snapshots' = [i \in KeptSnapshots |-> snapshots[i]]
        /\ promised' = [r \in Runs |-> IF r \notin DOMAIN export THEN promised[r]
                                       ELSE Max({promised[r], call[p].decided[r]})]
        /\ Proceed(p, NextTask(p))
        /\ UNCHANGED <<run, file, writer, up, clock, events>>

RefreshStep(p) ==
    \/ StartRefresh(p) \/ ExportRuns(p)
    \/ OpenTemporary(p, "latest", "openLatest", "writeLatest", call[p].export)
    \/ WriteTemporary(p, "writeLatest", "renameLatest")
    \/ RenameTemporary(p, "latest", "renameLatest", "snapshot")
    \/ WriteSnapshot(p)
    \/ OpenTemporary(p, "manifest", "openManifest", "writeManifest", buildManifest(p))
    \/ WriteTemporary(p, "writeManifest", "renameManifest")
    \/ RenameTemporary(p, "manifest", "renameManifest", "prune")
    \/ pruneSnapshots(p)
-----------------------------------------------------------------------------
(* Everyone else. *)

(* A decision on a completed run, with or without a label. *)
Decide(r, state, labels) ==
    /\ up
    /\ events.decisions < MaxDecisions /\ events' = [events EXCEPT !.decisions = @ + 1]
    /\ run[r].status = "COMPLETED"
    /\ run' = [run EXCEPT ![r].decisions = @ + 1, ![r].review = state, ![r].updatedAt = clock,
                          ![r].label = IF labels THEN clock ELSE @]
    /\ UNCHANGED <<file, writer, snapshots, call, up, clock, promised>>

(* PUT /v1/tenant-admin/config rewrites the configuration in place. *)
PutConfig(p, config) ==
    /\ up /\ call[p].pc = "idle" /\ Event
    /\ Open(p, "config", "now", config)
    /\ Proceed(p, [Idle EXCEPT !.pc = "put"])
    /\ UNCHANGED <<run, snapshots, up, clock, promised>>

FinishPut(p) ==
    /\ call[p].pc = "put"
    /\ Write(p) /\ Proceed(p, Idle)
    /\ UNCHANGED <<run, snapshots, up, clock, promised, events>>

(* Snapshots are kept for days: no refresh takes that long. *)
Hour ==
    /\ clock < MaxClock /\ clock' = clock + 1
    /\ \A p \in Processes : call[p].number # 0 => clock' - call[p].started <= RetentionTime
    /\ UNCHANGED <<run, file, writer, snapshots, call, up, promised, events>>
-----------------------------------------------------------------------------
(* Once a refresh has ended, whoever can load the exports finds of every   *)
(* run it exported at least the newest decision it found when it started:  *)
(* whichever of two refreshes renamed its file last, wherever one of them  *)
(* failed or died, whatever was pruned, and although a decision without a  *)
(* label leaves the time by which records are compared as it was.  A load  *)
(* that throws finds nothing: two refreshes that write the same `.tmp` may *)
(* leave a latest file that does not parse until the next one replaces it. *)
(* (reviewed-run-export-refresh-service.ts:133-159 and 421-425,            *)
(* model-validation-service.ts:2134-2153 and 2178.)                        *)
ExportsAreRead ==
    ~LoadThrows(resolveReviewedDatasetFiles) =>
        \A r \in Runs : promised[r] > 0 =>
            LET loaded == loadReviewedExportRecords(resolveReviewedDatasetFiles)
            IN  r \in DOMAIN loaded /\ loaded[r].decisions >= promised[r]
=============================================================================
