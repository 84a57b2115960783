------------------------------ MODULE JobStore ------------------------------
(***************************************************************************)
(* The persisted state of the runtime as SqliteJobStore and                *)
(* PostgresJobStore keep it: one row per run in the table jobs and the     *)
(* rows of run_events of each run, in the order they were inserted.  Every *)
(* operator below is the effect of one call of the JobStore interface,     *)
(* and one call is one SQL statement (one transaction for a claim), so it  *)
(* is atomic.  Row data no property tells apart (tenant, transcript,       *)
(* summaries, metadata) is left out.                                       *)
(***************************************************************************)
EXTENDS Naturals, Sequences

CONSTANTS Jobs,      \* run identifiers (submitJob draws a fresh UUID)
          Workers,   \* worker identifiers, one analysis worker per process
          Results,   \* analysis results, as far as the properties tell them apart
          NoResult,  \* the column result_json is NULL
          Nobody     \* the column worker_id is NULL

ASSUME StoreAssumption == NoResult \notin Results /\ Nobody \notin Workers

VARIABLES job,       \* job[j]: the row of run j
          events     \* events[j]: the run events of run j

(* The statuses of analysisJobStatusSchema; ABSENT stands for "no row". *)
Status == {"ABSENT", "QUEUED", "RUNNING", "COMPLETED", "FAILED"}
Terminal == {"COMPLETED", "FAILED"}

EventType == {"RUN_CREATED", "PII_MASKED", "RUN_CLAIMED", "LLM_STARTED",
              "LLM_COMPLETED", "REVIEW_REQUIRED", "RUN_COMPLETED", "RUN_FAILED",
              "ANALYST_ASSIGNED", "ANALYST_COMMENT_ADDED", "ANALYST_REVIEW_RECORDED"}

JobRecord == [status : Status, createdAt : Nat, result : Results \cup {NoResult},
              error : BOOLEAN, worker : Workers \cup {Nobody}]

NoJob == [status |-> "ABSENT", createdAt |-> 0, result |-> NoResult,
          error |-> FALSE, worker |-> Nobody]

StoreTypeOK == /\ job \in [Jobs -> JobRecord]
               /\ events \in [Jobs -> Seq(EventType)]

StoreInit == /\ job = [j \in Jobs |-> NoJob]
             /\ events = [j \in Jobs |-> << >>]
-----------------------------------------------------------------------------
CreateJob(j, createdAt) ==
    job' = [job EXCEPT ![j] = [NoJob EXCEPT !.status = "QUEUED", !.createdAt = createdAt]]

(* The UPDATE of claimNextQueuedJob, on a row it has locked. *)
ClaimJob(j, w) ==
    job' = [job EXCEPT ![j].status = "RUNNING", ![j].worker = w]

(* Slip: an UPDATE that leaves the column worker_id alone. *)
UpdateJobKeepingWorker(j, record) ==
    job' = [job EXCEPT ![j] = [record EXCEPT !.worker = job[j].worker]]

(* updateJob writes every column from the record it is given.  The record  *)
(* type has no worker id, so the column becomes NULL.                      *)
UpdateJob(j, record) ==
    job' = [job EXCEPT ![j] = [record EXCEPT !.worker = Nobody]]

AppendRunEvent(j, type) ==
    events' = [events EXCEPT ![j] = Append(@, type)]

Logged(j) == {events[j][i] : i \in DOMAIN events[j]}

(* The rows `claimNextQueuedJob` chooses among, given those other          *)
(* transactions have locked (FOR UPDATE SKIP LOCKED): the oldest first.    *)
OldestQueued(locked) ==
    LET free == {j \in Jobs \ locked : job[j].status = "QUEUED"}
    IN  {j \in free : \A k \in free : job[j].createdAt <= job[k].createdAt}
=============================================================================
