---------------------------- MODULE RunLifecycle ----------------------------
(***************************************************************************)
(* The life of an asynchronous run: submitJob (an HTTP handler), the       *)
(* polling loop of AnalysisWorker, claimNextQueuedJob and                  *)
(* processClaimedJob, in several processes that share one job store, and   *)
(* the analysts' requests that write whole records over finished runs.     *)
(* Every `await` on the store is a step of its own, after which any other  *)
(* handler, loop or process may run.  A store call may throw, with its     *)
(* write applied or not, and a process may die at any point.               *)
(***************************************************************************)
EXTENDS JobStore, FiniteSets, SequenceFilters

CONSTANTS Loops,          \* activations of AnalysisWorker.loop()
          WorkerOf,       \* the worker (and process) a loop belongs to
          EngineResults,  \* what analyzeConversation may return
          Flagged,        \* the results whose review.state is NEEDS_REVIEW
          Reviews,        \* analysts' requests: comments, decisions, assignments
          LogOf,          \* LogOf[a]: the run events request a appends
          AnalysisOf,     \* AnalysisOf[r]: r with its review as the engine left it
          Timestamps,     \* what the clocks of the processes may show
          NoRun, NoLoop,  \* "null" for a run and for a loop promise
          MaxFaults,      \* bound: store calls that throw, plus process deaths
          MaxStops        \* bound: calls of AnalysisWorker.stop()

AnalystEvents == {"ANALYST_ASSIGNED", "ANALYST_COMMENT_ADDED", "ANALYST_REVIEW_RECORDED"}

ASSUME LifecycleAssumption ==
    /\ WorkerOf \in [Loops -> Workers]
    /\ EngineResults \subseteq Results
    /\ Timestamps \subseteq Nat
    /\ NoRun \notin Jobs
    /\ NoLoop \notin Loops
    /\ MaxFaults \in Nat
    /\ MaxStops \in Nat

ASSUME AnalystAssumption ==
    /\ AnalysisOf \in [Results -> EngineResults]
    /\ \A r \in EngineResults : AnalysisOf[r] = r
    /\ LogOf \in [Reviews -> Seq(AnalystEvents) \ {<< >>}]

VARIABLES submit,     \* submit[j]: the handler of the request that creates run j
          process,    \* process[w]: the process of worker w, and its AnalysisWorker
          loop,       \* loop[l]: where loop l is and the locals it holds
          review,     \* review[a]: where the handler of request a is, and its copy
          sentiment,  \* runs with rows in the sentiment store
          faults,     \* faults so far
          stops       \* stop() calls so far

vars == <<job, events, submit, process, loop, review, sentiment, faults, stops>>

(* Where processClaimedJob is inside its try block, where it owns the run  *)
(* it claimed, and where it is at all.                                     *)
InTry == {"engine", "llmDone", "flag", "complete", "announce", "persist"}
Owning == InTry \cup {"claimed", "fetch", "start", "fail", "announceFail"}
LoopPc == Owning \cup {"off", "poll", "claiming"}
Submitting == {"create", "logCreated", "logMasked"}

LoopState == [pc : LoopPc, run : Jobs \cup {NoRun}, existing : JobRecord,
              result : Results \cup {NoResult}]
At(pc) == [pc |-> pc, run |-> NoRun, existing |-> NoJob, result |-> NoResult]

ControlTypeOK ==
    /\ submit \in [Jobs -> [pc : Submitting \cup {"unsent", "accepted", "failed"},
                            host : Workers \cup {Nobody}, createdAt : Nat]]
    /\ process \in [Workers -> [up : BOOLEAN, running : BOOLEAN,
                                latest : Loops \cup {NoLoop}]]
    /\ loop \in [Loops -> LoopState]

RunsTypeOK ==
    /\ StoreTypeOK
    /\ ControlTypeOK
    /\ sentiment \subseteq Jobs
    /\ faults \in 0..MaxFaults
    /\ stops \in 0..MaxStops

(* `existing` is the copy of the record a handler writes back, `logged`    *)
(* counts the events it has appended.                                      *)
ReviewState == [pc : {"unsent", "save", "log", "over"}, host : Workers \cup {Nobody},
                run : Jobs \cup {NoRun}, existing : JobRecord, logged : Nat]
Unasked(pc) == [pc |-> pc, host |-> Nobody, run |-> NoRun, existing |-> NoJob, logged |-> 0]

ReviewsTypeOK == review \in [Reviews -> ReviewState]

TypeOK == RunsTypeOK /\ ReviewsTypeOK

(* A handler that is not running has no locals. *)
Answered(pc) == [pc |-> pc, host |-> Nobody, createdAt |-> 0]

Down == [up |-> FALSE, running |-> FALSE, latest |-> NoLoop]

Init ==
    /\ StoreInit
    /\ submit = [j \in Jobs |-> Answered("unsent")]
    /\ process = [w \in Workers |-> Down]
    /\ loop = [l \in Loops |-> At("off")]
    /\ review = [a \in Reviews |-> Unasked("unsent")]
    /\ sentiment = {}
    /\ faults = 0 /\ stops = 0
-----------------------------------------------------------------------------
(* Helpers: faults, a process that ends, the move of a loop or a handler.  *)

Fault == faults < MaxFaults /\ faults' = faults + 1

(* The process of w is gone: its loops, and the handlers it was running.   *)
Exit(w) ==
    /\ process' = [process EXCEPT ![w] = Down]
    /\ loop' = [l \in Loops |-> IF WorkerOf[l] = w THEN At("off") ELSE loop[l]]
    /\ submit' = [j \in Jobs |->
                    IF submit[j].host = w /\ submit[j].pc \in Submitting
                    THEN Answered("failed") ELSE submit[j]]
    /\ review' = [a \in Reviews |-> IF review[a].host = w THEN Unasked("over") ELSE review[a]]

Goto(l, pc) == /\ loop' = [loop EXCEPT ![l].pc = pc]
               /\ UNCHANGED <<submit, process, review>>

(* The run is done with: the loop goes round.                              *)
GoRound(l) == /\ loop' = [loop EXCEPT ![l] = At("poll")]
              /\ UNCHANGED <<submit, process, review>>

(* Slip: the catch block starts the analysis again. *)
ThrowRetrying(l) == IF loop[l].pc \in InTry THEN Goto(l, "start") ELSE Exit(WorkerOf[l])

(* A rejected call inside the try block goes to the catch block.  Anywhere *)
(* else it rejects the promise of loop(), which nothing awaits: the        *)
(* unhandled rejection ends the Node process.                              *)
Throw(l) == IF loop[l].pc \in InTry THEN Goto(l, "fail") ELSE Exit(WorkerOf[l])

(* `await appendRunEvent(...)` at pc `from`. *)
LogStep(l, from, type, to) ==
    /\ loop[l].pc = from
    /\ \/ AppendRunEvent(loop[l].run, type) /\ Goto(l, to) /\ UNCHANGED faults
       \/ /\ Fault
          /\ AppendRunEvent(loop[l].run, type) \/ UNCHANGED events
          /\ Throw(l)
    /\ UNCHANGED <<job, sentiment, stops>>

(* `await store.updateJob(record)` at pc `from`. *)
SaveStep(l, from, record, to) ==
    /\ loop[l].pc = from
    /\ \/ UpdateJob(loop[l].run, record) /\ Goto(l, to) /\ UNCHANGED faults
       \/ /\ Fault
          /\ UpdateJob(loop[l].run, record) \/ UNCHANGED job
          /\ Throw(l)
    /\ UNCHANGED <<events, sentiment, stops>>
-----------------------------------------------------------------------------
(* submitJob, called by POST /v1/runs on the process of worker w.  (The    *)
(* audit event the route appends after it is not part of this module.)     *)

(* The request is masked and stamped with createdAt before the first await, *)
(* by the clock of its process: stamps may be equal or out of order.        *)
Receive(j, w) ==
    /\ process[w].up
    /\ submit[j].pc = "unsent"
    /\ \E t \in Timestamps :
          submit' = [submit EXCEPT ![j] = [pc |-> "create", host |-> w, createdAt |-> t]]
    /\ UNCHANGED <<job, events, process, loop, review, sentiment, faults, stops>>

(* The write of the call the handler is at, and where it goes after it.    *)
SubmitWrite(j) ==
    \/ /\ submit[j].pc = "create"
       /\ CreateJob(j, submit[j].createdAt) /\ UNCHANGED events
    \/ /\ submit[j].pc = "logCreated"
       /\ AppendRunEvent(j, "RUN_CREATED") /\ UNCHANGED job
    \/ /\ submit[j].pc = "logMasked"
       /\ AppendRunEvent(j, "PII_MASKED") /\ UNCHANGED job

SubmitStep(j) ==
    /\ SubmitWrite(j)
    /\ submit' = [submit EXCEPT ![j] =
                     CASE @.pc = "create"     -> [@ EXCEPT !.pc = "logCreated"]
                       [] @.pc = "logCreated" -> [@ EXCEPT !.pc = "logMasked"]
                       [] @.pc = "logMasked"  -> Answered("accepted")]
    /\ UNCHANGED <<process, loop, review, sentiment, faults, stops>>

(* A call of the handler throws: the client gets a 500. *)
SubmitThrows(j) ==
    /\ submit[j].pc \in Submitting
    /\ Fault
    /\ SubmitWrite(j) \/ UNCHANGED <<job, events>>
    /\ submit' = [submit EXCEPT ![j] = Answered("failed")]
    /\ UNCHANGED <<process, loop, review, sentiment, stops>>
-----------------------------------------------------------------------------
(* AnalysisWorker: start(), stop(), the while test of loop(). *)

Activate(w, l) ==
    /\ WorkerOf[l] = w
    /\ loop[l].pc = "off"
    /\ loop' = [loop EXCEPT ![l] = At("poll")]
    /\ process' = [process EXCEPT ![w] = [up |-> TRUE, running |-> TRUE, latest |-> l]]
    /\ UNCHANGED <<job, events, submit, review, sentiment, faults, stops>>

(* The bootstrap starts the worker of the process. *)
Boot(w) == ~process[w].up /\ \E l \in Loops : Activate(w, l)

(* start() only looks at the flag: a loop that stop() has asked to end may *)
(* still be at work when the next one begins.                              *)
Start(w) == /\ process[w].up /\ ~process[w].running
            /\ \E l \in Loops : Activate(w, l)

Stop(w) ==
    /\ process[w].up /\ process[w].running
    /\ stops < MaxStops
    /\ stops' = stops + 1
    /\ process' = [process EXCEPT ![w].running = FALSE]
    /\ UNCHANGED <<job, events, submit, loop, review, sentiment, faults>>

(* Slip: close() does not await the loop. *)
CloseAtOnce(w) ==
    /\ process[w].up /\ ~process[w].running
    /\ Exit(w)
    /\ UNCHANGED <<job, events, sentiment, faults, stops>>

(* close() of the runtime: stop() has awaited the latest loop promise, the *)
(* store is closed and the process ends.                                   *)
Close(w) ==
    /\ process[w].up /\ ~process[w].running
    /\ loop[process[w].latest].pc = "off"
    /\ Exit(w)
    /\ UNCHANGED <<job, events, sentiment, faults, stops>>

LeaveLoop(l) ==
    /\ loop[l].pc = "poll"
    /\ ~process[WorkerOf[l]].running
    /\ loop' = [loop EXCEPT ![l] = At("off")]
    /\ UNCHANGED <<job, events, submit, process, review, sentiment, faults, stops>>

Crash(w) ==
    /\ process[w].up
    /\ Fault
    /\ Exit(w)
    /\ UNCHANGED <<job, events, sentiment, stops>>
-----------------------------------------------------------------------------
(* claimNextQueuedJob: the UPDATE locks a row, the COMMIT publishes it. *)

Locked == {loop[l].run : l \in {k \in Loops : loop[k].pc = "claiming"}}

(* Slip: the subselect without FOR UPDATE SKIP LOCKED. *)
LockQueuedAnyway(l) ==
    /\ loop[l].pc = "poll"
    /\ process[WorkerOf[l]].running
    /\ \E j \in OldestQueued({}) :
          loop' = [loop EXCEPT ![l] = [At("claiming") EXCEPT !.run = j]]
    /\ UNCHANGED <<job, events, submit, process, review, sentiment, faults, stops>>

LockQueued(l) ==
    /\ loop[l].pc = "poll"
    /\ process[WorkerOf[l]].running
    /\ \E j \in OldestQueued(Locked) :
          loop' = [loop EXCEPT ![l] = [At("claiming") EXCEPT !.run = j]]
    /\ UNCHANGED <<job, events, submit, process, review, sentiment, faults, stops>>

(* No row to claim: the loop sleeps for the poll interval and comes back. *)
Idle(l) ==
    /\ loop[l].pc = "poll"
    /\ process[WorkerOf[l]].running
    /\ OldestQueued(Locked) = {}
    /\ UNCHANGED vars

(* A COMMIT that throws may have been applied; the error leaves loop(). *)
CommitClaim(l) ==
    /\ loop[l].pc = "claiming"
    /\ \/ ClaimJob(loop[l].run, WorkerOf[l]) /\ Goto(l, "claimed") /\ UNCHANGED faults
       \/ /\ Fault
          /\ ClaimJob(loop[l].run, WorkerOf[l]) \/ UNCHANGED job
          /\ Throw(l)
    /\ UNCHANGED <<events, sentiment, stops>>

LogClaimed(l) == LogStep(l, "claimed", "RUN_CLAIMED", "fetch")
-----------------------------------------------------------------------------
(* processClaimedJob *)

(* getJob: the copy every later updateJob is built from.  Rows are never   *)
(* deleted, so the early return for a missing row is never taken.          *)
FetchJob(l) ==
    /\ loop[l].pc = "fetch"
    /\ \/ /\ loop' = [loop EXCEPT ![l].pc = "start", ![l].existing = job[loop[l].run]]
          /\ UNCHANGED <<submit, process, review, faults>>
       \/ Fault /\ Throw(l)
    /\ UNCHANGED <<job, events, sentiment, stops>>

LogStarted(l) == LogStep(l, "start", "LLM_STARTED", "engine")

AnalyzeReturns(l) ==
    /\ loop[l].pc = "engine"
    /\ \E r \in EngineResults :
          loop' = [loop EXCEPT ![l].pc = "llmDone", ![l].result = r]
    /\ UNCHANGED <<job, events, submit, process, review, sentiment, faults, stops>>

(* Slip: the engine is called outside the try block. *)
AnalyzeThrowsUncaught(l) ==
    /\ loop[l].pc = "engine"
    /\ Exit(WorkerOf[l])
    /\ UNCHANGED <<job, events, sentiment, faults, stops>>

(* The engine, or a schema check of its output, throws: no fault of ours. *)
AnalyzeThrows(l) ==
    /\ loop[l].pc = "engine"
    /\ Throw(l)
    /\ UNCHANGED <<job, events, sentiment, faults, stops>>

(* Slip: no REVIEW_REQUIRED for a result that needs a review. *)
LogAnalyzedUnflagged(l) == LogStep(l, "llmDone", "LLM_COMPLETED", "complete")

LogAnalyzed(l) ==
    LogStep(l, "llmDone", "LLM_COMPLETED",
            IF loop[l].result \in Flagged THEN "flag" ELSE "complete")

LogReviewRequired(l) == LogStep(l, "flag", "REVIEW_REQUIRED", "complete")

CompletedRecord(l) ==
    [loop[l].existing EXCEPT !.status = "COMPLETED", !.result = loop[l].result]

(* Slip: the sentiment is stored before the completion is announced. *)
SaveCompletedUnannounced(l) == SaveStep(l, "complete", CompletedRecord(l), "persist")

SaveCompleted(l) == SaveStep(l, "complete", CompletedRecord(l), "announce")

LogCompleted(l) == LogStep(l, "announce", "RUN_COMPLETED", "persist")

(* Slip: an error of the sentiment store is not swallowed. *)
PersistSentimentOrThrow(l) ==
    /\ loop[l].pc = "persist"
    /\ \/ sentiment' = sentiment \cup {loop[l].run} /\ GoRound(l)
       \/ UNCHANGED sentiment /\ Throw(l)
    /\ UNCHANGED <<job, events, faults, stops>>

(* persistSentimentData swallows the errors of the sentiment store. *)
PersistSentiment(l) ==
    /\ loop[l].pc = "persist"
    /\ sentiment' \in {sentiment, sentiment \cup {loop[l].run}}
    /\ GoRound(l)
    /\ UNCHANGED <<job, events, faults, stops>>

(* Slip: a failed run goes back to the queue. *)
RequeuedRecord(l) == [loop[l].existing EXCEPT !.status = "QUEUED"]

FailedRecord(l) == [loop[l].existing EXCEPT !.status = "FAILED", !.error = TRUE]

SaveFailed(l) == SaveStep(l, "fail", FailedRecord(l), "announceFail")

(* The last await of the catch block: the loop goes round after it. *)
LogFailed(l) ==
    /\ loop[l].pc = "announceFail"
    /\ \/ AppendRunEvent(loop[l].run, "RUN_FAILED") /\ GoRound(l) /\ UNCHANGED faults
       \/ /\ Fault
          /\ AppendRunEvent(loop[l].run, "RUN_FAILED") \/ UNCHANGED events
          /\ Throw(l)
    /\ UNCHANGED <<job, sentiment, stops>>
-----------------------------------------------------------------------------
(* An analyst's request: recordReviewComment, recordReviewDecision or      *)
(* recordReviewAssignment.  What it makes of the review, and of the sample *)
(* and audit event that follow, is ReviewWorkflow's: here it gives the     *)
(* record it read a result of the same analysis.  A handler that throws    *)
(* is answered 4xx or 500, and its process goes on.                        *)

EndReview(a) == review' = [review EXCEPT ![a] = Unasked("over")]

(* Only a COMPLETED run is read any further than its status. *)
ReadReviewed(a) ==
    /\ review[a].pc = "unsent"
    /\ \E w \in Workers, j \in Jobs :
          /\ process[w].up /\ job[j].status = "COMPLETED" /\ job[j].result # NoResult
          /\ review' = [review EXCEPT ![a] = [pc |-> "save", host |-> w, run |-> j,
                                             existing |-> job[j], logged |-> 0]]
    /\ UNCHANGED <<job, events, submit, process, loop, sentiment, faults, stops>>

(* The body is refused by its schema, or a decision by the policy. *)
RefuseReview(a) ==
    /\ review[a].pc = "save" /\ EndReview(a)
    /\ UNCHANGED <<job, events, submit, process, loop, sentiment, faults, stops>>

Reviewed(a) == {[review[a].existing EXCEPT !.result = r] :
                  r \in {q \in Results : AnalysisOf[q] = AnalysisOf[review[a].existing.result]}}

(* updateJob({...existing, result}): whatever the row has become meanwhile.*)
SaveReview(a) ==
    /\ review[a].pc = "save"
    /\ \/ /\ \E record \in Reviewed(a) : UpdateJob(review[a].run, record)
          /\ review' = [review EXCEPT ![a].pc = "log"] /\ UNCHANGED faults
       \/ /\ Fault /\ EndReview(a)
          /\ UNCHANGED job \/ \E record \in Reviewed(a) : UpdateJob(review[a].run, record)
    /\ UNCHANGED <<events, submit, process, loop, sentiment, stops>>

LogReview(a) ==
    LET next == review[a].logged + 1
        Log == AppendRunEvent(review[a].run, LogOf[a][next])
    IN  /\ review[a].pc = "log"
        /\ \/ /\ Log /\ UNCHANGED faults
              /\ IF next < Len(LogOf[a]) THEN review' = [review EXCEPT ![a].logged = next]
                                         ELSE EndReview(a)
           \/ Fault /\ (Log \/ UNCHANGED events) /\ EndReview(a)
        /\ UNCHANGED <<job, submit, process, loop, sentiment, stops>>
-----------------------------------------------------------------------------
Claim(l) == LockQueued(l) \/ Idle(l) \/ CommitClaim(l) \/ LogClaimed(l)
Process(l) == \/ FetchJob(l) \/ LogStarted(l) \/ AnalyzeReturns(l) \/ AnalyzeThrows(l)
              \/ LogAnalyzed(l) \/ LogReviewRequired(l) \/ SaveCompleted(l)
              \/ LogCompleted(l) \/ PersistSentiment(l) \/ SaveFailed(l) \/ LogFailed(l)
Review(a) == ReadReviewed(a) \/ RefuseReview(a) \/ SaveReview(a) \/ LogReview(a)
LoopStep(l) == Claim(l) \/ Process(l) \/ LeaveLoop(l)

Next ==
    \/ \E j \in Jobs : SubmitStep(j) \/ SubmitThrows(j) \/ \E w \in Workers : Receive(j, w)
    \/ \E l \in Loops : LoopStep(l)
    \/ \E w \in Workers : Boot(w) \/ Start(w) \/ Stop(w) \/ Close(w) \/ Crash(w)
    \/ \E a \in Reviews : Review(a)

Spec == Init /\ [][Next]_vars

(* The event loop of a live process keeps running what is ready, an engine *)
(* call returns or times out, close() follows stop() unless the host calls *)
(* start() again, and a supervisor restarts a process that has ended.      *)
Fairness ==
    /\ \A j \in Jobs : WF_vars(SubmitStep(j))
    /\ \A l \in Loops : WF_vars(LoopStep(l))
    /\ \A w \in Workers : WF_vars(Boot(w)) /\ WF_vars(Close(w))

FairSpec == Spec /\ Fairness
-----------------------------------------------------------------------------
(* Properties. *)

Owns(l, j) == loop[l].run = j /\ loop[l].pc \in Owning
Unowned(j) == \A l \in Loops : ~Owns(l, j)
Orphans == {j \in Jobs : job[j].status = "RUNNING" /\ Unowned(j)}

(* A run is worked on by at most one loop, in whatever process: the claims *)
(* of loops that poll at the same time, retries after a rolled back        *)
(* transaction and restarts included.                                      *)
ExclusiveProcessing ==
    \A j \in Jobs : \A k, l \in Loops : Owns(k, j) /\ Owns(l, j) => k = l

(* The inductive invariant behind ExclusiveProcessing and the refinement:  *)
(* where a loop is tells the status of the row of its run, and the record  *)
(* it will write back was read while the run was its own.                  *)
Holding == Owning \cup {"claiming"}
Working == {"claimed", "fetch", "start", "engine", "llmDone", "flag", "complete"}

RunOfLoop(l) ==
    LET pc == loop[l].pc
        row == job[loop[l].run]
        mine == row.status = "RUNNING" /\ row.worker = WorkerOf[l]
    IN  /\ pc \in Holding => loop[l].run \in Jobs
        /\ pc = "claiming" => row.status = "QUEUED"
        /\ pc \in Working => mine
        /\ pc = "fail" => mine \/ row.status = "COMPLETED"
        /\ pc \in {"announce", "persist"} => row.status = "COMPLETED"
        /\ pc = "announceFail" => row.status \in Terminal
        /\ pc \in Owning \ {"claimed", "fetch"} =>
              /\ loop[l].existing.status = "RUNNING"
              /\ loop[l].existing.result = NoResult /\ ~loop[l].existing.error
        /\ pc \in {"llmDone", "flag", "complete", "announce", "persist"} =>
              loop[l].result \in EngineResults

OneHolder == \A k, l \in Loops :
    k # l /\ loop[k].pc \in Holding /\ loop[l].pc \in Holding => loop[k].run # loop[l].run

NotYetCreated == \A j \in Jobs : submit[j].pc \in {"unsent", "create"} => job[j] = NoJob

RowIsConsistent(row) ==
    /\ row.status = "COMPLETED" <=> row.result # NoResult
    /\ row.status = "FAILED" <=> row.error
    /\ row.status = "RUNNING" <=> row.worker # Nobody

(* The copy of a review is of a completion: the run had settled by then.   *)
ReviewHolds(a) ==
    LET copy == review[a].existing
    IN  /\ review[a].pc \in {"save", "log"} => review[a].run \in Jobs
        /\ review[a].pc = "log" => review[a].logged < Len(LogOf[a])
        /\ review[a].pc = "save" =>
              /\ copy.status = "COMPLETED" /\ copy.result \in Results /\ ~copy.error
              /\ job[review[a].run].status \in Terminal
              /\ review[a].logged = 0

OwnershipInv == /\ \A l \in Loops : RunOfLoop(l)
                /\ OneHolder
                /\ NotYetCreated
                /\ \A j \in Jobs : RowIsConsistent(job[j])

ReviewsInv == \A a \in Reviews : ReviewHolds(a)

(* What the row of a run says about its outcome agrees with its status,    *)
(* and a RUNNING row names the worker whose loop holds it, if one does.    *)
RecordMatchesStatus ==
    \A j \in Jobs :
        /\ RowIsConsistent(job[j])
        /\ \A l \in Loops : Owns(l, j) /\ job[j].status = "RUNNING"
                               => job[j].worker = WorkerOf[l]

WorkerEvents == {"RUN_CLAIMED", "LLM_STARTED", "LLM_COMPLETED", "REVIEW_REQUIRED",
                 "RUN_COMPLETED", "RUN_FAILED"}
WorkerLog(j) == Kept(events[j], WorkerEvents)

SuccessPath(flagged) ==
    <<"RUN_CLAIMED", "LLM_STARTED", "LLM_COMPLETED">>
        \o (IF flagged THEN <<"REVIEW_REQUIRED">> ELSE << >>) \o <<"RUN_COMPLETED">>
Prefixes(s) == {SubSeq(s, 1, n) : n \in 0..Len(s)}

(* Whatever fails or crashes, the events a worker leaves in a run's log    *)
(* are a beginning of one success path, at most followed by RUN_FAILED: no *)
(* event is repeated, none overtakes another and nothing follows a failure.*)
LogIsOnePath ==
    \A j \in Jobs : \E flagged \in BOOLEAN : \E p \in Prefixes(SuccessPath(flagged)) :
        WorkerLog(j) \in {p, Append(p, "RUN_FAILED")}

(* Without a store error or a crash, the log of a run no loop holds tells  *)
(* its status exactly: the whole success path of what the engine answered  *)
(* when it is COMPLETED, however it was reviewed since, RUN_FAILED after   *)
(* LLM_STARTED when FAILED, nothing otherwise.                             *)
QuietLogTellsOutcome ==
    \A j \in Jobs : faults = 0 /\ Unowned(j) =>
        WorkerLog(j) = CASE job[j].status = "COMPLETED" ->
                                SuccessPath(AnalysisOf[job[j].result] \in Flagged)
                         [] job[j].status = "FAILED" ->
                                <<"RUN_CLAIMED", "LLM_STARTED", "RUN_FAILED">>
                         [] OTHER -> << >>

(* start() is called once in the life of a process: the standalone runtime *)
(* never calls it again after stop(), which only close() calls.            *)
OneLoopPerWorker == \A k, l \in Loops : WorkerOf[k] = WorkerOf[l] => k = l

(* A run is left RUNNING with no loop to finish it only by a fault, one at *)
(* most for each: stop() and close() drain the run in progress (with one   *)
(* loop per worker).                                                       *)
OrphansNeedFaults == Cardinality(Orphans) <= faults

(* The sentiment store only has rows of runs that are COMPLETED and were   *)
(* announced as such: no row outlives a completion that was taken back.    *)
SentimentOfCompletedRuns ==
    \A j \in sentiment : job[j].status = "COMPLETED" /\ "RUN_COMPLETED" \in Logged(j)

(* A settled run changes in two ways only.  The loop that completed it may *)
(* turn it into FAILED when announcing it threw; and an analyst's request  *)
(* may write it, COMPLETED, by a copy that was read when it was completed: *)
(* of however many in flight none changes what was analysed, and a FAILED  *)
(* run is brought back only after a fault.                                 *)
Saving(a, j) == review[a].pc = "save" /\ review[a].run = j

SettledIsKept ==
    [][\A j \in Jobs : job[j].status \in Terminal /\ job'[j] # job[j] =>
          \/ /\ job[j].status = "COMPLETED" /\ job'[j].status = "FAILED"
             /\ faults > 0 /\ ~Unowned(j)
          \/ /\ job'[j].status = "COMPLETED" /\ \E a \in Reviews : Saving(a, j)
             /\ IF job[j].status = "FAILED" THEN faults > 0
                ELSE AnalysisOf[job'[j].result] = AnalysisOf[job[j].result]]_vars

(* The lifecycle implements the abstract promise RunOutcome.  A run has    *)
(* been claimed when its row has left QUEUED; it has been seen by the      *)
(* requests that are about to write it back.                               *)
Outcome == INSTANCE RunOutcome
             WITH Runs <- Jobs,
                  status <- [j \in Jobs |-> job[j].status],
                  claimed <- {j \in Jobs : job[j].status \notin {"ABSENT", "QUEUED"}},
                  seen <- {j \in Jobs : \E a \in Reviews : Saving(a, j)}
OutcomeSpec == Outcome!Spec

(* Every run that reached the queue ends, and its log says how, unless a   *)
(* store call throws or a process dies on the way; with such faults no     *)
(* queued run is forgotten: it is claimed in the end, by another process   *)
(* or after a restart; and a claimed run ends, unless the process that     *)
(* held it died.                                                           *)
RunsSettle ==
    \A j \in Jobs :
        /\ job[j].status = "QUEUED" ~>
              \/ /\ job[j].status \in Terminal
                 /\ Logged(j) \cap {"RUN_COMPLETED", "RUN_FAILED"} # {}
              \/ faults > 0
        /\ job[j].status = "QUEUED" ~> job[j].status # "QUEUED"
        /\ job[j].status = "RUNNING" ~> job[j].status \in Terminal \/ j \in Orphans
=============================================================================
