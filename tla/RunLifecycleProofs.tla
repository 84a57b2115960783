------------------------- MODULE RunLifecycleProofs -------------------------
(***************************************************************************)
(* Proofs about RunLifecycle, for every number of runs, workers, loops,    *)
(* requests and faults: its types, the exclusive ownership of a claimed    *)
(* run, and that it implements RunOutcome; then, each by an inductive      *)
(* invariant on top of IInv: the event log of a run is one path (LogInv),  *)
(* a settled run keeps what was analysed (KeptInv), the rows of the        *)
(* sentiment store follow the completion (AnnouncedInv), runs are left     *)
(* behind by faults only (DrainInv), and without a fault the log of a run  *)
(* tells its outcome (QuietInv).                                           *)
(***************************************************************************)
EXTENDS RunLifecycle, SequenceFilterProofs, SequenceTheorems, FiniteSetTheorems

USE StoreAssumption, LifecycleAssumption

(* The moves of the control state keep its type. *)
LEMMA AtType == ASSUME NEW pc \in LoopPc PROVE At(pc) \in LoopState
  BY DEF At, LoopState, NoJob, JobRecord, Status

LEMMA ExitType ==
  ASSUME ControlTypeOK, NEW w \in Workers, Exit(w)
  PROVE  ControlTypeOK'
  <1>1. At("off") \in LoopState
    BY AtType DEF LoopPc
  <1>2. loop' \in [Loops -> LoopState]
    BY <1>1 DEF ControlTypeOK, Exit
  <1>3. process' \in [Workers -> [up : BOOLEAN, running : BOOLEAN, latest : Loops \cup {NoLoop}]]
    BY DEF ControlTypeOK, Exit, Down
  <1>4. submit' \in [Jobs -> [pc : Submitting \cup {"unsent", "accepted", "failed"},
                             host : Workers \cup {Nobody}, createdAt : Nat]]
    BY DEF ControlTypeOK, Exit, Answered
  <1>5. QED
    BY <1>2, <1>3, <1>4 DEF ControlTypeOK

LEMMA GotoType ==
  ASSUME ControlTypeOK, NEW l \in Loops, NEW pc \in LoopPc, Goto(l, pc)
  PROVE  ControlTypeOK'
  <1>1. [loop[l] EXCEPT !.pc = pc] \in LoopState
    BY DEF ControlTypeOK, LoopState
  <1>2. QED
    BY <1>1 DEF ControlTypeOK, Goto

LEMMA GoRoundType ==
  ASSUME ControlTypeOK, NEW l \in Loops, GoRound(l)
  PROVE  ControlTypeOK'
  <1>1. At("poll") \in LoopState
    BY AtType DEF LoopPc
  <1>2. QED
    BY <1>1 DEF ControlTypeOK, GoRound

LEMMA ThrowType ==
  ASSUME ControlTypeOK, NEW l \in Loops, Throw(l)
  PROVE  ControlTypeOK'
  <1>1. CASE loop[l].pc \in InTry
    BY <1>1, GotoType DEF Throw, LoopPc, Owning
  <1>2. CASE loop[l].pc \notin InTry
    BY <1>2, ExitType DEF Throw
  <1>3. QED
    BY <1>1, <1>2

(* The writes of the store keep its type. *)
LEMMA AppendType ==
  ASSUME StoreTypeOK, NEW j \in Jobs, NEW type \in EventType, AppendRunEvent(j, type)
  PROVE  events' \in [Jobs -> Seq(EventType)]
  BY DEF StoreTypeOK, AppendRunEvent

LEMMA UpdateType ==
  ASSUME StoreTypeOK, NEW j \in Jobs, NEW record \in JobRecord, UpdateJob(j, record)
  PROVE  job' \in [Jobs -> JobRecord]
  <1>1. [record EXCEPT !.worker = Nobody] \in JobRecord
    BY DEF JobRecord
  <1>2. QED
    BY <1>1 DEF StoreTypeOK, UpdateJob

LEMMA ClaimType ==
  ASSUME StoreTypeOK, NEW j \in Jobs, NEW w \in Workers, ClaimJob(j, w)
  PROVE  job' \in [Jobs -> JobRecord]
  <1>1. [job[j] EXCEPT !.status = "RUNNING", !.worker = w] \in JobRecord
    BY DEF StoreTypeOK, JobRecord, Status
  <1>2. job' = [job EXCEPT ![j] = [job[j] EXCEPT !.status = "RUNNING", !.worker = w]]
    BY DEF StoreTypeOK, ClaimJob
  <1>3. QED
    BY <1>1, <1>2 DEF StoreTypeOK

LEMMA CreateType ==
  ASSUME StoreTypeOK, NEW j \in Jobs, NEW t \in Nat, CreateJob(j, t)
  PROVE  job' \in [Jobs -> JobRecord]
  <1>1. [NoJob EXCEPT !.status = "QUEUED", !.createdAt = t] \in JobRecord
    BY DEF NoJob, JobRecord, Status
  <1>2. QED
    BY <1>1 DEF StoreTypeOK, CreateJob

LEMMA FaultType ==
  ASSUME faults \in 0..MaxFaults, Fault PROVE faults' \in 0..MaxFaults
  BY DEF Fault

LEMMA EndRecordType ==
  ASSUME ControlTypeOK, NEW l \in Loops
  PROVE  CompletedRecord(l) \in JobRecord /\ FailedRecord(l) \in JobRecord
  <1>1. loop[l].existing \in JobRecord /\ loop[l].result \in Results \cup {NoResult}
    BY DEF ControlTypeOK, LoopState
  <1>2. QED
    BY <1>1 DEF CompletedRecord, FailedRecord, JobRecord, Status
-----------------------------------------------------------------------------
(* The inductive invariant: the types, who owns what, and of which runs    *)
(* the analysts' requests hold a copy.                                     *)
IInv == RunsTypeOK /\ OwnershipInv /\ ReviewsTypeOK /\ ReviewsInv

LEMMA LogStepType ==
  ASSUME IInv, NEW l \in Loops, NEW from \in Owning, NEW type \in EventType,
         NEW to \in LoopPc, LogStep(l, from, type, to)
  PROVE  RunsTypeOK'
  <1>1. loop[l].run \in Jobs
    BY DEF IInv, OwnershipInv, RunOfLoop, Holding, LogStep
  <1>2. events' \in [Jobs -> Seq(EventType)]
    BY <1>1, AppendType DEF IInv, RunsTypeOK, StoreTypeOK, LogStep
  <1>3. ControlTypeOK'
    BY GotoType, ThrowType DEF IInv, RunsTypeOK, LogStep
  <1>4. faults' \in 0..MaxFaults
    BY FaultType DEF IInv, RunsTypeOK, LogStep
  <1>5. QED
    BY <1>2, <1>3, <1>4 DEF IInv, RunsTypeOK, StoreTypeOK, LogStep

LEMMA SaveStepType ==
  ASSUME IInv, NEW l \in Loops, NEW from \in Owning, NEW record \in JobRecord,
         NEW to \in LoopPc, SaveStep(l, from, record, to)
  PROVE  RunsTypeOK'
  <1>1. loop[l].run \in Jobs
    BY DEF IInv, OwnershipInv, RunOfLoop, Holding, SaveStep
  <1>2. job' \in [Jobs -> JobRecord]
    BY <1>1, UpdateType DEF IInv, RunsTypeOK, StoreTypeOK, SaveStep
  <1>3. ControlTypeOK'
    BY GotoType, ThrowType DEF IInv, RunsTypeOK, SaveStep
  <1>4. faults' \in 0..MaxFaults
    BY FaultType DEF IInv, RunsTypeOK, SaveStep
  <1>5. QED
    BY <1>2, <1>3, <1>4 DEF IInv, RunsTypeOK, StoreTypeOK, SaveStep

LEMMA ActivateType ==
  ASSUME RunsTypeOK, NEW w \in Workers, NEW l \in Loops, Activate(w, l)
  PROVE  RunsTypeOK'
  <1>1. At("poll") \in LoopState
    BY AtType DEF LoopPc
  <1>2. ControlTypeOK'
    BY <1>1 DEF RunsTypeOK, ControlTypeOK, Activate
  <1>3. QED
    BY <1>2 DEF RunsTypeOK, StoreTypeOK, Activate

(* Each kind of step of a handler or of a process keeps the types. *)
LEMMA SubmitWriteType ==
  ASSUME RunsTypeOK, NEW j \in Jobs, SubmitWrite(j)
  PROVE  StoreTypeOK'
  <1>1. submit[j].createdAt \in Nat
    BY DEF RunsTypeOK, ControlTypeOK
  <1>2. CASE CreateJob(j, submit[j].createdAt) /\ UNCHANGED events
    BY <1>1, <1>2, CreateType DEF RunsTypeOK, StoreTypeOK
  <1>3. CASE AppendRunEvent(j, "RUN_CREATED") /\ UNCHANGED job
    BY <1>3, AppendType DEF RunsTypeOK, StoreTypeOK, EventType
  <1>4. CASE AppendRunEvent(j, "PII_MASKED") /\ UNCHANGED job
    BY <1>4, AppendType DEF RunsTypeOK, StoreTypeOK, EventType
  <1>5. QED
    BY <1>2, <1>3, <1>4 DEF SubmitWrite

LEMMA SubmitStepType ==
  ASSUME RunsTypeOK, NEW j \in Jobs, SubmitStep(j)
  PROVE  RunsTypeOK'
  <1>1. StoreTypeOK'
    BY SubmitWriteType DEF SubmitStep
  <1>2. ControlTypeOK'
    <2> DEFINE S == [pc : Submitting \cup {"unsent", "accepted", "failed"},
                     host : Workers \cup {Nobody}, createdAt : Nat]
    <2>1. submit \in [Jobs -> S]
      BY DEF RunsTypeOK, ControlTypeOK
    <2>2. PICK s \in {[submit[j] EXCEPT !.pc = "logCreated"],
                      [submit[j] EXCEPT !.pc = "logMasked"], Answered("accepted")} :
              submit' = [submit EXCEPT ![j] = s]
      BY <2>1 DEF SubmitStep, SubmitWrite
    <2>3. s \in S
      BY <2>1, <2>2 DEF Answered, Submitting
    <2>4. submit' \in [Jobs -> S]
      BY <2>1, <2>2, <2>3
    <2> HIDE DEF S
    <2>5. UNCHANGED <<process, loop>>
      BY DEF SubmitStep
    <2>6. QED
      BY <2>4, <2>5 DEF S, RunsTypeOK, ControlTypeOK
  <1>3. QED
    BY <1>1, <1>2 DEF RunsTypeOK, SubmitStep

LEMMA SubmitThrowsType ==
  ASSUME RunsTypeOK, NEW j \in Jobs, SubmitThrows(j)
  PROVE  RunsTypeOK'
  <1>1. StoreTypeOK'
    BY SubmitWriteType DEF SubmitThrows, RunsTypeOK, StoreTypeOK
  <1>2. ControlTypeOK'
    BY DEF RunsTypeOK, ControlTypeOK, SubmitThrows, Answered
  <1>3. QED
    BY <1>1, <1>2, FaultType DEF RunsTypeOK, SubmitThrows

LEMMA ReceiveType ==
  ASSUME RunsTypeOK, NEW j \in Jobs, NEW w \in Workers, Receive(j, w)
  PROVE  RunsTypeOK'
  <1>1. ControlTypeOK'
    BY DEF RunsTypeOK, ControlTypeOK, Receive, Submitting
  <1>2. QED
    BY <1>1 DEF RunsTypeOK, StoreTypeOK, Receive

LEMMA ProcessStepType ==
  ASSUME IInv, NEW w \in Workers, Boot(w) \/ Start(w) \/ Stop(w) \/ Close(w) \/ Crash(w)
  PROVE  RunsTypeOK'
  <1>1. CASE Boot(w) \/ Start(w)
    BY <1>1, ActivateType DEF IInv, Boot, Start
  <1>2. CASE Stop(w)
    <2>1. ControlTypeOK'
      BY <1>2 DEF IInv, RunsTypeOK, ControlTypeOK, Stop
    <2>2. stops' \in 0..MaxStops
      BY <1>2 DEF IInv, RunsTypeOK, Stop
    <2>3. QED
      BY <1>2, <2>1, <2>2 DEF IInv, RunsTypeOK, StoreTypeOK, Stop
  <1>3. CASE Close(w)
    BY <1>3, ExitType DEF IInv, RunsTypeOK, StoreTypeOK, Close
  <1>4. CASE Crash(w)
    BY <1>4, ExitType, FaultType DEF IInv, RunsTypeOK, StoreTypeOK, Crash
  <1>5. QED
    BY <1>1, <1>2, <1>3, <1>4

LEMMA ClaimStepType ==
  ASSUME IInv, NEW l \in Loops, LeaveLoop(l) \/ LockQueued(l) \/ CommitClaim(l)
  PROVE  RunsTypeOK'
  <1>1. CASE LeaveLoop(l)
    <2>1. At("off") \in LoopState
      BY AtType DEF LoopPc
    <2>2. QED
      BY <1>1, <2>1 DEF IInv, RunsTypeOK, StoreTypeOK, ControlTypeOK, LeaveLoop
  <1>2. CASE LockQueued(l)
    <2>1. PICK j \in Jobs : loop' = [loop EXCEPT ![l] = [At("claiming") EXCEPT !.run = j]]
      BY <1>2 DEF LockQueued, OldestQueued
    <2>2. At("claiming") \in LoopState
      BY AtType DEF LoopPc
    <2>3. [At("claiming") EXCEPT !.run = j] \in LoopState
      BY <2>2 DEF LoopState
    <2>4. QED
      BY <1>2, <2>1, <2>3 DEF IInv, RunsTypeOK, StoreTypeOK, ControlTypeOK, LockQueued
  <1>3. CASE CommitClaim(l)
    <2>1. loop[l].run \in Jobs
      BY <1>3 DEF IInv, OwnershipInv, RunOfLoop, Holding, CommitClaim
    <2>2. job' \in [Jobs -> JobRecord]
      BY <1>3, <2>1, ClaimType DEF IInv, RunsTypeOK, StoreTypeOK, CommitClaim
    <2>3. ControlTypeOK'
      BY <1>3, GotoType, ThrowType DEF IInv, RunsTypeOK, CommitClaim, LoopPc, Owning
    <2>4. QED
      BY <1>3, <2>2, <2>3, FaultType DEF IInv, RunsTypeOK, StoreTypeOK, CommitClaim
  <1>4. QED
    BY <1>1, <1>2, <1>3

LEMMA LogType ==
  ASSUME IInv, NEW l \in Loops,
         LogClaimed(l) \/ LogStarted(l) \/ LogAnalyzed(l) \/ LogReviewRequired(l) \/ LogCompleted(l)
  PROVE  RunsTypeOK'
  <1> USE DEF EventType, LoopPc, Owning, InTry
  <1>1. CASE LogClaimed(l)
    BY <1>1, LogStepType DEF LogClaimed
  <1>2. CASE LogStarted(l)
    BY <1>2, LogStepType DEF LogStarted
  <1>3. CASE LogAnalyzed(l)
    BY <1>3, LogStepType DEF LogAnalyzed
  <1>4. CASE LogReviewRequired(l)
    BY <1>4, LogStepType DEF LogReviewRequired
  <1>5. CASE LogCompleted(l)
    BY <1>5, LogStepType DEF LogCompleted
  <1>6. QED
    BY <1>1, <1>2, <1>3, <1>4, <1>5

LEMMA SaveType ==
  ASSUME IInv, NEW l \in Loops, SaveCompleted(l) \/ SaveFailed(l)
  PROVE  RunsTypeOK'
  <1>1. CompletedRecord(l) \in JobRecord /\ FailedRecord(l) \in JobRecord
    BY EndRecordType DEF IInv, RunsTypeOK
  <1>2. CASE SaveCompleted(l)
    BY <1>1, <1>2, SaveStepType DEF SaveCompleted, LoopPc, Owning, InTry
  <1>3. CASE SaveFailed(l)
    BY <1>1, <1>3, SaveStepType DEF SaveFailed, LoopPc, Owning, InTry
  <1>4. QED
    BY <1>2, <1>3

LEMMA ProcessType ==
  ASSUME IInv, NEW l \in Loops,
         FetchJob(l) \/ AnalyzeReturns(l) \/ AnalyzeThrows(l) \/ PersistSentiment(l) \/ LogFailed(l)
  PROVE  RunsTypeOK'
  <1>0. loop[l].pc \in Holding => loop[l].run \in Jobs
    BY DEF IInv, OwnershipInv, RunOfLoop
  <1>1. CASE FetchJob(l)
    <2>1. loop[l] \in LoopState /\ job[loop[l].run] \in JobRecord
      BY <1>0, <1>1 DEF IInv, RunsTypeOK, StoreTypeOK, ControlTypeOK, FetchJob, Holding, Owning
    <2>2. [loop[l] EXCEPT !.pc = "start", !.existing = job[loop[l].run]] \in LoopState
      BY <2>1 DEF LoopState, LoopPc, Owning
    <2>3. CASE loop' = [loop EXCEPT ![l].pc = "start", ![l].existing = job[loop[l].run]]
               /\ UNCHANGED <<submit, process, faults>>
      <3>1. loop' = [loop EXCEPT ![l] = [loop[l] EXCEPT !.pc = "start",
                                                        !.existing = job[loop[l].run]]]
        BY <2>3 DEF IInv, RunsTypeOK, ControlTypeOK
      <3>2. QED
        BY <1>1, <2>2, <2>3, <3>1 DEF IInv, RunsTypeOK, StoreTypeOK, ControlTypeOK, FetchJob
    <2>4. CASE Fault /\ Throw(l)
      BY <1>1, <2>4, FaultType, ThrowType DEF IInv, RunsTypeOK, StoreTypeOK, FetchJob
    <2>5. QED
      BY <1>1, <2>3, <2>4 DEF FetchJob
  <1>2. CASE AnalyzeReturns(l)
    <2>1. PICK r \in EngineResults : loop' = [loop EXCEPT ![l].pc = "llmDone", ![l].result = r]
      BY <1>2 DEF AnalyzeReturns
    <2>2. loop[l] \in LoopState
      BY DEF IInv, RunsTypeOK, ControlTypeOK
    <2>3. [loop[l] EXCEPT !.pc = "llmDone", !.result = r] \in LoopState
      BY <2>2 DEF LoopState, LoopPc, Owning, InTry
    <2>4. loop' = [loop EXCEPT ![l] = [loop[l] EXCEPT !.pc = "llmDone", !.result = r]]
      BY <2>1 DEF IInv, RunsTypeOK, ControlTypeOK
    <2>5. QED
      BY <1>2, <2>3, <2>4 DEF IInv, RunsTypeOK, StoreTypeOK, ControlTypeOK, AnalyzeReturns
  <1>3. CASE AnalyzeThrows(l)
    BY <1>3, ThrowType DEF IInv, RunsTypeOK, StoreTypeOK, AnalyzeThrows
  <1>4. CASE PersistSentiment(l)
    <2>1. loop[l].run \in Jobs
      BY <1>0, <1>4 DEF PersistSentiment, Holding, Owning, InTry
    <2>2. QED
      BY <1>4, <2>1, GoRoundType DEF IInv, RunsTypeOK, StoreTypeOK, PersistSentiment
  <1>5. CASE LogFailed(l)
    <2>1. loop[l].run \in Jobs
      BY <1>0, <1>5 DEF LogFailed, Holding, Owning
    <2>2. events' \in [Jobs -> Seq(EventType)]
      BY <1>5, <2>1, AppendType DEF IInv, RunsTypeOK, StoreTypeOK, LogFailed, EventType
    <2>3. ControlTypeOK'
      BY <1>5, GoRoundType, ThrowType DEF IInv, RunsTypeOK, LogFailed
    <2>4. QED
      BY <1>5, <2>2, <2>3, FaultType DEF IInv, RunsTypeOK, StoreTypeOK, LogFailed
  <1>6. QED
    BY <1>1, <1>2, <1>3, <1>4, <1>5

(* What an analyst's request writes: nothing, one of its own events, or    *)
(* the record it read with another result of the same analysis.            *)
LEMMA ReviewWrites ==
  ASSUME IInv, NEW a \in Reviews, Review(a)
  PROVE  /\ UNCHANGED <<submit, process, loop, sentiment, stops>>
         /\ faults' = faults \/ Fault
         /\ \A b \in Reviews \ {a} : review'[b] = review[b]
         /\ \/ UNCHANGED <<job, events>>
            \/ /\ UNCHANGED job /\ review[a].run \in Jobs
               /\ \E type \in AnalystEvents : AppendRunEvent(review[a].run, type)
            \/ /\ UNCHANGED events /\ review[a].pc = "save"
               /\ \E record \in Reviewed(a) : UpdateJob(review[a].run, record)
  <1>1. /\ review \in [Reviews -> ReviewState] /\ review[a] \in ReviewState /\ ReviewHolds(a)
    BY DEF IInv, ReviewsTypeOK, ReviewsInv
  <1>2. CASE ReadReviewed(a) \/ RefuseReview(a)
    BY <1>1, <1>2 DEF ReadReviewed, RefuseReview, EndReview
  <1>3. CASE SaveReview(a)
    BY <1>1, <1>3 DEF SaveReview, EndReview
  <1>4. CASE LogReview(a)
    <2>1. LogOf[a][review[a].logged + 1] \in AnalystEvents /\ review[a].run \in Jobs
      <3>1. /\ review[a].logged < Len(LogOf[a]) /\ review[a].logged \in Nat
            /\ review[a].run \in Jobs
        BY <1>1, <1>4 DEF LogReview, ReviewHolds, ReviewState
      <3>2. LogOf[a] \in Seq(AnalystEvents)
        BY AnalystAssumption
      <3>3. QED
        BY <3>1, <3>2
    <2>2. \A b \in Reviews \ {a} : review'[b] = review[b]
      BY <1>1, <1>4 DEF LogReview, EndReview
    <2>3. UNCHANGED events \/ AppendRunEvent(review[a].run, LogOf[a][review[a].logged + 1])
      BY <1>4 DEF LogReview
    <2>4. UNCHANGED <<job, submit, process, loop, sentiment, stops>> /\ (faults' = faults \/ Fault)
      BY <1>4 DEF LogReview
    <2>5. QED
      BY <2>1, <2>2, <2>3, <2>4
  <1>5. QED
    BY <1>2, <1>3, <1>4 DEF Review

LEMMA ReviewedType ==
  ASSUME IInv, NEW a \in Reviews, review[a].pc = "save", NEW record \in Reviewed(a)
  PROVE  /\ review[a].run \in Jobs /\ record \in JobRecord
         /\ record.status = "COMPLETED" /\ record.result \in Results /\ ~record.error
         /\ AnalysisOf[record.result] = AnalysisOf[review[a].existing.result]
  <1>1. /\ review[a].existing \in JobRecord /\ review[a].run \in Jobs
        /\ review[a].existing.status = "COMPLETED" /\ ~review[a].existing.error
    BY DEF IInv, ReviewsTypeOK, ReviewState, ReviewsInv, ReviewHolds
  <1>2. PICK r \in Results : /\ record = [review[a].existing EXCEPT !.result = r]
                             /\ AnalysisOf[r] = AnalysisOf[review[a].existing.result]
    BY DEF Reviewed
  <1>3. QED
    BY <1>1, <1>2 DEF JobRecord

LEMMA ReviewType ==
  ASSUME IInv, NEW a \in Reviews, Review(a)
  PROVE  RunsTypeOK'
  <1>1. job' \in [Jobs -> JobRecord]
    BY ReviewWrites, ReviewedType, UpdateType DEF IInv, RunsTypeOK, StoreTypeOK
  <1>2. events' \in [Jobs -> Seq(EventType)]
    <2>1. AnalystEvents \subseteq EventType
      BY DEF AnalystEvents, EventType
    <2>2. QED
      BY <2>1, ReviewWrites, AppendType DEF IInv, RunsTypeOK, StoreTypeOK
  <1>3. ControlTypeOK' /\ sentiment' \subseteq Jobs /\ stops' \in 0..MaxStops
    BY ReviewWrites DEF IInv, RunsTypeOK, ControlTypeOK
  <1>4. faults' \in 0..MaxFaults
    BY ReviewWrites, FaultType DEF IInv, RunsTypeOK
  <1>5. QED
    BY <1>1, <1>2, <1>3, <1>4 DEF RunsTypeOK, StoreTypeOK

LEMMA TypeStep == IInv /\ [Next]_vars => RunsTypeOK'
  <1> SUFFICES ASSUME IInv, [Next]_vars PROVE RunsTypeOK'
    OBVIOUS
  <1>1. ASSUME NEW j \in Jobs, SubmitStep(j) \/ SubmitThrows(j) \/ \E w \in Workers : Receive(j, w)
        PROVE  RunsTypeOK'
    BY <1>1, SubmitStepType, SubmitThrowsType, ReceiveType DEF IInv
  <1>2. ASSUME NEW l \in Loops, LoopStep(l) PROVE RunsTypeOK'
    <2>1. CASE Idle(l)
      BY <2>1 DEF Idle, vars, IInv, RunsTypeOK, StoreTypeOK, ControlTypeOK
    <2>2. CASE ~Idle(l)
      BY <1>2, <2>2, ClaimStepType, LogType, SaveType, ProcessType DEF LoopStep, Claim, Process
    <2>3. QED
      BY <2>1, <2>2
  <1>3. ASSUME NEW w \in Workers, Boot(w) \/ Start(w) \/ Stop(w) \/ Close(w) \/ Crash(w)
        PROVE  RunsTypeOK'
    BY <1>3, ProcessStepType
  <1>4. CASE UNCHANGED vars
    BY <1>4 DEF vars, IInv, RunsTypeOK, StoreTypeOK, ControlTypeOK
  <1>5. QED
    BY <1>1, <1>2, <1>3, <1>4, ReviewType DEF Next
-----------------------------------------------------------------------------
(* Ownership is inductive. *)

(* What a step of loop l leaves alone: the rows of other runs, the other   *)
(* loops (unless their process ends), the requests whose row is missing.   *)
OthersKept(l) ==
    /\ \A j \in Jobs \ {loop[l].run} : job'[j] = job[j]
    /\ \A k \in Loops \ {l} : loop'[k] = loop[k] \/ loop'[k] = At("off")
    /\ \A j \in Jobs : submit'[j].pc \in {"unsent", "create"} => submit'[j] = submit[j]

(* A loop that holds a run and works on that run only keeps the invariant  *)
(* if what it says about the two of them still holds after its step.       *)
LEMMA HolderFrame ==
  ASSUME IInv, NEW l \in Loops, loop[l].pc \in Holding, OthersKept(l),
         RunOfLoop(l)', RowIsConsistent(job'[loop[l].run]),
         loop'[l].pc \in Holding => loop'[l].run = loop[l].run
  PROVE  OwnershipInv'
  <1>1. loop[l].run \in Jobs /\ job[loop[l].run].status # "ABSENT"
    BY DEF Terminal, IInv, OwnershipInv, RunOfLoop, Holding, Owning, InTry, Working
  <1>2. ASSUME NEW k \in Loops PROVE RunOfLoop(k)'
    <2>1. CASE k = l
      BY <2>1
    <2>2. CASE k # l /\ loop'[k] = At("off")
      BY <2>2 DEF RunOfLoop, At, Holding, Owning, InTry, Working
    <2>3. CASE k # l /\ loop'[k] = loop[k] /\ loop[k].pc \in Holding
      <3>1. loop[k].run # loop[l].run /\ loop[k].run \in Jobs /\ RunOfLoop(k)
        BY <2>3 DEF IInv, OwnershipInv, OneHolder, RunOfLoop
      <3>2. job'[loop[k].run] = job[loop[k].run]
        BY <3>1 DEF OthersKept
      <3>3. QED
        BY <2>3, <3>1, <3>2 DEF RunOfLoop
    <2>4. CASE k # l /\ loop'[k] = loop[k] /\ loop[k].pc \notin Holding
      BY <2>4 DEF RunOfLoop, Holding, Owning, InTry, Working
    <2>5. QED
      BY <2>1, <2>2, <2>3, <2>4 DEF OthersKept
  <1>3. OneHolder'
    <2> SUFFICES ASSUME NEW k \in Loops, NEW m \in Loops, k # m,
                        loop'[k].pc \in Holding, loop'[m].pc \in Holding
                 PROVE  loop'[k].run # loop'[m].run
      BY DEF OneHolder
    <2>1. \A n \in {k, m} : loop[n].pc \in Holding /\ loop'[n].run = loop[n].run
      BY DEF OthersKept, At, Holding, Owning, InTry
    <2>2. QED
      BY <2>1 DEF IInv, OwnershipInv, OneHolder
  <1>4. NotYetCreated'
    <2> SUFFICES ASSUME NEW j \in Jobs, submit'[j].pc \in {"unsent", "create"}
                 PROVE  job'[j] = NoJob
      BY DEF NotYetCreated
    <2>1. submit[j].pc \in {"unsent", "create"}
      BY DEF OthersKept
    <2>2. job[j] = NoJob
      BY <2>1 DEF IInv, OwnershipInv, NotYetCreated
    <2>3. j # loop[l].run
      BY <1>1, <2>2 DEF NoJob
    <2>4. QED
      BY <2>2, <2>3 DEF OthersKept
  <1>5. ASSUME NEW j \in Jobs PROVE RowIsConsistent(job'[j])
    BY DEF IInv, OwnershipInv, OthersKept
  <1>6. QED
    BY <1>2, <1>3, <1>4, <1>5 DEF OwnershipInv

(* A process that ends takes its loops and handlers with it, and no row.   *)
LEMMA ExitKeeps ==
  ASSUME IInv, NEW w \in Workers, Exit(w), UNCHANGED job
  PROVE  OwnershipInv'
  <1>1. \A k \in Loops : loop'[k] = loop[k] \/ loop'[k] = At("off")
    BY DEF Exit, IInv, RunsTypeOK, ControlTypeOK
  <1>2. ASSUME NEW k \in Loops PROVE RunOfLoop(k)'
    <2>1. CASE loop'[k] = loop[k]
      BY <2>1 DEF RunOfLoop, IInv, OwnershipInv
    <2>2. CASE loop'[k] = At("off")
      BY <2>2 DEF RunOfLoop, At, Holding, Owning, InTry, Working
    <2>3. QED
      BY <1>1, <2>1, <2>2
  <1>3. OneHolder'
    BY <1>1 DEF IInv, OwnershipInv, OneHolder, At, Holding, Owning, InTry
  <1>4. NotYetCreated'
    BY DEF IInv, RunsTypeOK, ControlTypeOK, OwnershipInv, NotYetCreated, Exit, Answered
  <1>5. QED
    BY <1>2, <1>3, <1>4 DEF OwnershipInv, IInv

(* Where a loop that holds a run is after a move or a throw.               *)
LEMMA GotoKeeps ==
  ASSUME IInv, NEW l \in Loops, NEW pc \in LoopPc, Goto(l, pc)
  PROVE  /\ loop'[l] = [loop[l] EXCEPT !.pc = pc]
         /\ loop'[l].pc = pc /\ loop'[l].run = loop[l].run
         /\ loop'[l].existing = loop[l].existing /\ loop'[l].result = loop[l].result
         /\ \A k \in Loops \ {l} : loop'[k] = loop[k]
         /\ submit' = submit
  <1>1. loop \in [Loops -> LoopState] /\ loop[l] \in LoopState
    BY DEF IInv, RunsTypeOK, ControlTypeOK
  <1>2. loop'[l] = [loop[l] EXCEPT !.pc = pc]
    BY <1>1 DEF Goto
  <1>3. QED
    BY <1>1, <1>2 DEF Goto, LoopState

LEMMA ThrowKeeps ==
  ASSUME IInv, NEW l \in Loops, Throw(l)
  PROVE  /\ \A k \in Loops \ {l} : loop'[k] = loop[k] \/ loop'[k] = At("off")
         /\ \A j \in Jobs : submit'[j].pc \in {"unsent", "create"} => submit'[j] = submit[j]
         /\ \/ /\ loop[l].pc \in InTry
               /\ loop'[l].pc = "fail" /\ loop'[l].run = loop[l].run
               /\ loop'[l].existing = loop[l].existing
            \/ loop[l].pc \notin InTry /\ loop'[l] = At("off")
  <1>1. CASE loop[l].pc \in InTry
    <2>1. "fail" \in LoopPc /\ Goto(l, "fail")
      BY <1>1 DEF Throw, LoopPc, Owning
    <2>2. QED
      BY <1>1, <2>1, GotoKeeps
  <1>2. CASE loop[l].pc \notin InTry
    BY <1>2 DEF Throw, Exit, Answered, IInv, RunsTypeOK, ControlTypeOK
  <1>3. QED
    BY <1>1, <1>2

LEMMA LogStepOwnership ==
  ASSUME IInv, NEW l \in Loops, NEW from \in Owning, NEW type \in EventType,
         NEW to \in LoopPc, LogStep(l, from, type, to),
         \/ from = "claimed" /\ to = "fetch"
         \/ from = "start" /\ to = "engine"
         \/ from = "llmDone" /\ to \in {"flag", "complete"}
         \/ from = "flag" /\ to = "complete"
         \/ from = "announce" /\ to = "persist"
  PROVE  OwnershipInv'
  <1>1. loop[l].pc \in Holding /\ loop[l].run \in Jobs /\ RunOfLoop(l) /\ job' = job
    BY DEF IInv, OwnershipInv, RunOfLoop, Holding, LogStep
  <1>2. RowIsConsistent(job'[loop[l].run])
    BY <1>1 DEF IInv, OwnershipInv
  <1>3. CASE Goto(l, to)
    <2>1. RunOfLoop(l)'
      BY <1>1, <1>3, GotoKeeps DEF LogStep, RunOfLoop, Holding, Owning, InTry, Working
    <2>2. OthersKept(l) /\ (loop'[l].pc \in Holding => loop'[l].run = loop[l].run)
      BY <1>1, <1>3, GotoKeeps DEF OthersKept
    <2>3. QED
      BY <1>1, <1>2, <2>1, <2>2, HolderFrame
  <1>4. CASE Throw(l)
    <2>1. RunOfLoop(l)'
      BY <1>1, <1>4, ThrowKeeps DEF RunOfLoop, At, Holding, Owning, InTry, Working
    <2>2. OthersKept(l) /\ (loop'[l].pc \in Holding => loop'[l].run = loop[l].run)
      BY <1>1, <1>4, ThrowKeeps DEF OthersKept, At, Holding, Owning, InTry
    <2>3. QED
      BY <1>1, <1>2, <2>1, <2>2, HolderFrame
  <1>5. QED
    BY <1>3, <1>4 DEF LogStep

LEMMA LogOwnership ==
  ASSUME IInv, NEW l \in Loops,
         LogClaimed(l) \/ LogStarted(l) \/ LogAnalyzed(l) \/ LogReviewRequired(l) \/ LogCompleted(l)
  PROVE  OwnershipInv'
  <1> USE DEF EventType, LoopPc, Owning, InTry
  <1>1. CASE LogClaimed(l)
    BY <1>1, LogStepOwnership DEF LogClaimed
  <1>2. CASE LogStarted(l)
    BY <1>2, LogStepOwnership DEF LogStarted
  <1>3. CASE LogAnalyzed(l)
    BY <1>3, LogStepOwnership DEF LogAnalyzed
  <1>4. CASE LogReviewRequired(l)
    BY <1>4, LogStepOwnership DEF LogReviewRequired
  <1>5. CASE LogCompleted(l)
    BY <1>5, LogStepOwnership DEF LogCompleted
  <1>6. QED
    BY <1>1, <1>2, <1>3, <1>4, <1>5

(* The rows that saving the end of a run writes.                           *)
LEMMA EndRecordFields ==
  ASSUME IInv, NEW l \in Loops
  PROVE  /\ CompletedRecord(l).status = "COMPLETED" /\ CompletedRecord(l).result = loop[l].result
         /\ CompletedRecord(l).error = loop[l].existing.error
         /\ FailedRecord(l).status = "FAILED" /\ FailedRecord(l).error
         /\ FailedRecord(l).result = loop[l].existing.result
  <1>1. loop[l].existing \in JobRecord
    BY DEF IInv, RunsTypeOK, ControlTypeOK, LoopState
  <1>2. QED
    BY <1>1 DEF CompletedRecord, FailedRecord, JobRecord

LEMMA UpdateFields ==
  ASSUME IInv, NEW j \in Jobs, NEW record \in JobRecord, UpdateJob(j, record)
  PROVE  /\ job'[j].status = record.status /\ job'[j].result = record.result
         /\ job'[j].error = record.error /\ job'[j].worker = Nobody
         /\ \A k \in Jobs \ {j} : job'[k] = job[k]
  <1>1. job'[j] = [record EXCEPT !.worker = Nobody]
    BY DEF UpdateJob, IInv, RunsTypeOK, StoreTypeOK
  <1>2. QED
    BY <1>1 DEF UpdateJob, JobRecord, IInv, RunsTypeOK, StoreTypeOK

LEMMA SaveOwnership ==
  ASSUME IInv, NEW l \in Loops, SaveCompleted(l) \/ SaveFailed(l)
  PROVE  OwnershipInv'
  <1> DEFINE r == loop[l].run
  <1>1. /\ loop[l].pc \in {"complete", "fail"}
        /\ loop[l].pc \in Holding /\ r \in Jobs /\ RunOfLoop(l)
        /\ RowIsConsistent(job[r])
    BY DEF IInv, OwnershipInv, RunOfLoop, Holding, Owning, InTry, SaveStep, SaveCompleted, SaveFailed
  <1>2. CompletedRecord(l) \in JobRecord /\ FailedRecord(l) \in JobRecord
    BY EndRecordType DEF IInv, RunsTypeOK
  <1>3. \A j \in Jobs \ {r} : job'[j] = job[j]
    BY <1>1, <1>2, UpdateFields DEF SaveStep, SaveCompleted, SaveFailed
  <1>4. \/ job' = job
        \/ /\ loop[l].pc = "complete"
           /\ job'[r].status = "COMPLETED" /\ job'[r].result \in Results
           /\ ~job'[r].error /\ job'[r].worker = Nobody
        \/ /\ loop[l].pc = "fail"
           /\ job'[r].status = "FAILED" /\ job'[r].result = NoResult
           /\ job'[r].error /\ job'[r].worker = Nobody
    BY <1>1, <1>2, UpdateFields, EndRecordFields
       DEF SaveStep, SaveCompleted, SaveFailed, RunOfLoop, Owning, InTry
  <1>5. RowIsConsistent(job'[r])
    BY <1>1, <1>4 DEF RowIsConsistent
  <1>6. CASE Throw(l)
    <2>1. OthersKept(l) /\ (loop'[l].pc \in Holding => loop'[l].run = r)
      BY <1>3, <1>6, ThrowKeeps DEF OthersKept, At, Holding, Owning, InTry
    <2>2. RunOfLoop(l)'
      BY <1>1, <1>4, <1>6, ThrowKeeps DEF RunOfLoop, At, Holding, Owning, InTry, Working
    <2>3. QED
      BY <1>1, <1>5, <2>1, <2>2, HolderFrame
  <1>7. CASE ~Throw(l)
    <2>1. PICK to \in {"announce", "announceFail"} :
            /\ Goto(l, to)
            /\ to = "announce" => loop[l].pc = "complete" /\ UpdateJob(r, CompletedRecord(l))
            /\ to = "announceFail" => loop[l].pc = "fail" /\ UpdateJob(r, FailedRecord(l))
      BY <1>7 DEF SaveStep, SaveCompleted, SaveFailed
    <2>2. /\ to = "announce" => job'[r].status = "COMPLETED"
          /\ to = "announceFail" => job'[r].status = "FAILED"
      BY <1>1, <1>2, <2>1, UpdateFields, EndRecordFields
    <2>3. to \in LoopPc
      BY <2>1 DEF LoopPc, Owning, InTry
    <2>4. OthersKept(l) /\ (loop'[l].pc \in Holding => loop'[l].run = r)
      BY <1>3, <2>1, <2>3, GotoKeeps DEF OthersKept
    <2>5. RunOfLoop(l)'
      BY <1>1, <2>1, <2>2, <2>3, GotoKeeps DEF Terminal, RunOfLoop, Holding, Owning, InTry, Working
    <2>6. QED
      BY <1>1, <1>5, <2>4, <2>5, HolderFrame
  <1>8. QED
    BY <1>6, <1>7

LEMMA ProcessOwnership ==
  ASSUME IInv, NEW l \in Loops,
         FetchJob(l) \/ AnalyzeReturns(l) \/ AnalyzeThrows(l) \/ PersistSentiment(l) \/ LogFailed(l)
  PROVE  OwnershipInv'
  <1> DEFINE r == loop[l].run
  <1>1. /\ loop[l].pc \in {"fetch", "engine", "persist", "announceFail"}
        /\ loop[l].pc \in Holding /\ r \in Jobs /\ RunOfLoop(l)
        /\ loop \in [Loops -> LoopState] /\ loop[l] \in LoopState
    BY DEF IInv, RunsTypeOK, ControlTypeOK, OwnershipInv, RunOfLoop, Holding, Owning, InTry,
           FetchJob, AnalyzeReturns, AnalyzeThrows, PersistSentiment, LogFailed
  <1>2. job' = job
    BY DEF FetchJob, AnalyzeReturns, AnalyzeThrows, PersistSentiment, LogFailed
  <1>3. RowIsConsistent(job'[r]) /\ RowIsConsistent(job[r])
    BY <1>1, <1>2 DEF IInv, OwnershipInv
  <1>4. CASE Throw(l)
    <2>1. OthersKept(l) /\ (loop'[l].pc \in Holding => loop'[l].run = r)
      BY <1>2, <1>4, ThrowKeeps DEF OthersKept, At, Holding, Owning, InTry
    <2>2. RunOfLoop(l)'
      BY <1>1, <1>2, <1>4, ThrowKeeps DEF RunOfLoop, At, Holding, Owning, InTry, Working
    <2>3. QED
      BY <1>1, <1>3, <2>1, <2>2, HolderFrame
  <1>5. CASE GoRound(l)
    <2>1. loop'[l] = At("poll") /\ \A k \in Loops \ {l} : loop'[k] = loop[k]
      BY <1>1, <1>5 DEF GoRound
    <2>2. OthersKept(l) /\ (loop'[l].pc \in Holding => loop'[l].run = r)
      BY <1>2, <1>5, <2>1 DEF OthersKept, GoRound, At, Holding, Owning, InTry
    <2>3. RunOfLoop(l)'
      BY <2>1 DEF RunOfLoop, At, Holding, Owning, InTry, Working
    <2>4. QED
      BY <1>1, <1>3, <2>2, <2>3, HolderFrame
  <1>6. CASE /\ loop[l].pc = "fetch"
             /\ loop' = [loop EXCEPT ![l].pc = "start", ![l].existing = job[r]]
             /\ UNCHANGED submit
    <2>1. /\ loop'[l].pc = "start" /\ loop'[l].run = r /\ loop'[l].existing = job[r]
          /\ \A k \in Loops \ {l} : loop'[k] = loop[k]
      <3>1. loop' = [loop EXCEPT ![l] = [loop[l] EXCEPT !.pc = "start", !.existing = job[r]]]
        BY <1>1, <1>6
      <3>2. QED
        BY <1>1, <3>1 DEF LoopState
    <2>2. OthersKept(l)
      BY <1>2, <1>6, <2>1 DEF OthersKept
    <2>3. job[r].status = "RUNNING" /\ job[r].result = NoResult /\ ~job[r].error
      <3>1. job[r] \in JobRecord /\ job[r].status = "RUNNING"
        BY <1>1, <1>6 DEF IInv, RunsTypeOK, StoreTypeOK, RunOfLoop, Working
      <3>2. QED
        BY <1>3, <3>1 DEF RowIsConsistent
    <2>4. RunOfLoop(l)'
      BY <1>1, <1>2, <1>6, <2>1, <2>3 DEF RunOfLoop, Holding, Owning, InTry, Working
    <2>5. QED
      BY <1>1, <1>3, <2>1, <2>2, <2>4, HolderFrame
  <1>7. CASE AnalyzeReturns(l)
    <2>1. PICK x \in EngineResults : loop' = [loop EXCEPT ![l].pc = "llmDone", ![l].result = x]
      BY <1>7 DEF AnalyzeReturns
    <2>2. /\ loop'[l].pc = "llmDone" /\ loop'[l].run = r /\ loop'[l].result = x
          /\ loop'[l].existing = loop[l].existing
          /\ \A k \in Loops \ {l} : loop'[k] = loop[k]
      <3>1. loop' = [loop EXCEPT ![l] = [loop[l] EXCEPT !.pc = "llmDone", !.result = x]]
        BY <1>1, <2>1
      <3>2. QED
        BY <1>1, <3>1 DEF LoopState
    <2>3. OthersKept(l)
      BY <1>2, <1>7, <2>2 DEF OthersKept, AnalyzeReturns
    <2>4. RunOfLoop(l)'
      BY <1>1, <1>2, <1>7, <2>2 DEF AnalyzeReturns, RunOfLoop, Holding, Owning, InTry, Working
    <2>5. QED
      BY <1>1, <1>3, <2>2, <2>3, <2>4, HolderFrame
  <1>8. QED
    BY <1>4, <1>5, <1>6, <1>7 DEF FetchJob, AnalyzeThrows, PersistSentiment, LogFailed

LEMMA CommitOwnership ==
  ASSUME IInv, NEW l \in Loops, CommitClaim(l)
  PROVE  OwnershipInv'
  <1> DEFINE r == loop[l].run
  <1>1. /\ loop[l].pc = "claiming" /\ loop[l].pc \in Holding /\ r \in Jobs
        /\ job[r].status = "QUEUED" /\ job[r] \in JobRecord /\ RowIsConsistent(job[r])
        /\ job \in [Jobs -> JobRecord]
    BY DEF IInv, RunsTypeOK, StoreTypeOK, OwnershipInv, RunOfLoop, Holding, CommitClaim
  <1>2. ClaimJob(r, WorkerOf[l]) =>
            /\ job'[r] = [job[r] EXCEPT !.status = "RUNNING", !.worker = WorkerOf[l]]
            /\ \A j \in Jobs \ {r} : job'[j] = job[j]
    BY <1>1 DEF ClaimJob
  <1>3. ClaimJob(r, WorkerOf[l]) =>
            /\ job'[r].status = "RUNNING" /\ job'[r].worker = WorkerOf[l]
            /\ job'[r].result = job[r].result /\ job'[r].error = job[r].error
    BY <1>1, <1>2 DEF JobRecord
  <1>4. RowIsConsistent(job'[r]) /\ \A j \in Jobs \ {r} : job'[j] = job[j]
    BY <1>1, <1>2, <1>3 DEF CommitClaim, RowIsConsistent
  <1>5. CASE ClaimJob(r, WorkerOf[l]) /\ Goto(l, "claimed")
    <2>1. "claimed" \in LoopPc
      BY DEF LoopPc, Owning
    <2>2. OthersKept(l) /\ RunOfLoop(l)' /\ loop'[l].run = r
      BY <1>1, <1>3, <1>4, <1>5, <2>1, GotoKeeps, ZenonT(60)
         DEF OthersKept, RunOfLoop, Holding, Owning, InTry, Working
    <2>3. QED
      BY <1>1, <1>4, <2>2, HolderFrame
  <1>6. CASE Throw(l)
    <2>1. loop'[l] = At("off")
      BY <1>1, <1>6, ThrowKeeps DEF InTry
    <2>2. OthersKept(l) /\ RunOfLoop(l)' /\ loop'[l].pc \notin Holding
      BY <1>4, <1>6, <2>1, ThrowKeeps DEF OthersKept, RunOfLoop, At, Holding, Owning, InTry, Working
    <2>3. QED
      BY <1>1, <1>4, <2>2, HolderFrame
  <1>7. QED
    BY <1>5, <1>6 DEF CommitClaim

LEMMA LockOwnership ==
  ASSUME IInv, NEW l \in Loops, LockQueued(l)
  PROVE  OwnershipInv'
  <1>1. PICK r \in OldestQueued(Locked) :
            loop' = [loop EXCEPT ![l] = [At("claiming") EXCEPT !.run = r]]
    BY DEF LockQueued
  <1>2. r \in Jobs /\ r \notin Locked /\ job[r].status = "QUEUED" /\ UNCHANGED <<job, submit>>
    BY DEF OldestQueued, LockQueued
  <1>3. loop'[l].pc = "claiming" /\ loop'[l].run = r /\ \A k \in Loops \ {l} : loop'[k] = loop[k]
    BY <1>1 DEF At, IInv, RunsTypeOK, ControlTypeOK
  <1>4. \A k \in Loops \ {l} : loop[k].pc \in Holding => loop[k].run # r
    BY <1>2 DEF Terminal, IInv, OwnershipInv, RunOfLoop, Locked, Holding, Owning, InTry, Working
  <1>5. ASSUME NEW k \in Loops PROVE RunOfLoop(k)'
    <2>1. CASE k = l
      BY <1>2, <1>3, <2>1 DEF RunOfLoop, Holding, Owning, InTry, Working
    <2>2. CASE k # l
      BY <1>2, <1>3, <2>2 DEF IInv, OwnershipInv, RunOfLoop
    <2>3. QED
      BY <2>1, <2>2
  <1>6. OneHolder'
    BY <1>3, <1>4 DEF IInv, OwnershipInv, OneHolder
  <1>7. NotYetCreated' /\ \A j \in Jobs : RowIsConsistent(job'[j])
    BY <1>2 DEF IInv, OwnershipInv, NotYetCreated
  <1>8. QED
    BY <1>5, <1>6, <1>7 DEF OwnershipInv

(* A loop that starts or ends holds nothing on either side of the step.    *)
LEMMA IdleLoopKeeps ==
  ASSUME IInv, NEW l \in Loops, NEW pc \in {"off", "poll"}, loop' = [loop EXCEPT ![l] = At(pc)],
         loop[l].pc \notin Holding, UNCHANGED <<job, submit>>
  PROVE  OwnershipInv'
  <1>1. loop'[l] = At(pc) /\ \A k \in Loops \ {l} : loop'[k] = loop[k]
    BY DEF IInv, RunsTypeOK, ControlTypeOK
  <1>2. ASSUME NEW k \in Loops PROVE RunOfLoop(k)'
    <2>1. CASE k = l
      BY <1>1, <2>1 DEF RunOfLoop, At, Holding, Owning, InTry, Working
    <2>2. CASE k # l
      BY <1>1, <2>2 DEF IInv, OwnershipInv, RunOfLoop
    <2>3. QED
      BY <2>1, <2>2
  <1>3. OneHolder'
    BY <1>1 DEF IInv, OwnershipInv, OneHolder, At, Holding, Owning, InTry
  <1>4. QED
    BY <1>2, <1>3 DEF IInv, OwnershipInv, NotYetCreated

(* The steps of a process keep ownership: only its death touches a holder. *)
LEMMA ProcessStepOwnership ==
  ASSUME IInv, NEW w \in Workers, Boot(w) \/ Start(w) \/ Stop(w) \/ Close(w) \/ Crash(w)
  PROVE  OwnershipInv'
  <1>1. ASSUME NEW l \in Loops, Activate(w, l) PROVE OwnershipInv'
    BY <1>1, IdleLoopKeeps DEF Activate, Holding, Owning, InTry
  <1>2. CASE Stop(w)
    BY <1>2 DEF Stop, IInv, OwnershipInv, RunOfLoop, OneHolder, NotYetCreated
  <1>3. CASE Close(w) \/ Crash(w)
    BY <1>3, ExitKeeps DEF Close, Crash
  <1>4. QED
    BY <1>1, <1>2, <1>3 DEF Boot, Start

(* A request only touches the row of its own run, before anyone holds it.  *)
LEMMA SubmitOwnership ==
  ASSUME IInv, NEW j \in Jobs, SubmitStep(j) \/ SubmitThrows(j) \/ \E w \in Workers : Receive(j, w)
  PROVE  OwnershipInv'
  <1>0. /\ job \in [Jobs -> JobRecord] /\ submit[j].createdAt \in Nat /\ loop' = loop
        /\ DOMAIN submit = Jobs
    BY DEF IInv, RunsTypeOK, StoreTypeOK, ControlTypeOK, SubmitStep, SubmitThrows, Receive
  <1>1. /\ \A k \in Jobs \ {j} : submit'[k] = submit[k] /\ job'[k] = job[k]
        /\ \/ job' = job
           \/ /\ job[j] = NoJob
              /\ job'[j] = [NoJob EXCEPT !.status = "QUEUED", !.createdAt = submit[j].createdAt]
              /\ submit'[j].pc \notin {"unsent", "create"}
    <2>1. CASE submit[j].pc = "create" /\ CreateJob(j, submit[j].createdAt)
      <3>1. job[j] = NoJob
        BY <2>1 DEF IInv, OwnershipInv, NotYetCreated
      <3>2. submit'[j].pc \notin {"unsent", "create"}
             /\ \A k \in Jobs \ {j} : submit'[k] = submit[k]
        <4>1. CASE SubmitStep(j)
          <5>1. submit' = [submit EXCEPT ![j] = [submit[j] EXCEPT !.pc = "logCreated"]]
            BY <1>0, <2>1, <4>1 DEF SubmitStep
          <5>2. submit[j] \in [pc : Submitting \cup {"unsent", "accepted", "failed"},
                               host : Workers \cup {Nobody}, createdAt : Nat]
            BY DEF IInv, RunsTypeOK, ControlTypeOK
          <5>3. QED
            BY <1>0, <5>1, <5>2
        <4>2. CASE SubmitThrows(j)
          BY <1>0, <4>2 DEF SubmitThrows, Answered
        <4>3. CASE \E w \in Workers : Receive(j, w)
          BY <2>1, <4>3 DEF Receive
        <4>4. QED
          BY <4>1, <4>2, <4>3
      <3>3. QED
        BY <1>0, <2>1, <3>1, <3>2 DEF CreateJob
    <2>2. CASE job' = job
      BY <1>0, <2>2 DEF SubmitStep, SubmitThrows, Receive
    <2>3. QED
      BY <2>1, <2>2 DEF SubmitStep, SubmitThrows, SubmitWrite, Receive
  <1>2. CASE job' = job
    <2>1. \A k \in Jobs : submit'[k].pc \in {"unsent", "create"}
                             => submit[k].pc \in {"unsent", "create"}
      <3>1. submit'[j].pc \in {"unsent", "create"} => submit[j].pc \in {"unsent", "create"}
        <4>1. CASE SubmitStep(j)
          <5>1. submit[j] \in [pc : Submitting \cup {"unsent", "accepted", "failed"},
                               host : Workers \cup {Nobody}, createdAt : Nat]
            BY DEF IInv, RunsTypeOK, ControlTypeOK
          <5>2. submit' \in {[submit EXCEPT ![j] = [submit[j] EXCEPT !.pc = "logCreated"]],
                             [submit EXCEPT ![j] = [submit[j] EXCEPT !.pc = "logMasked"]],
                             [submit EXCEPT ![j] = Answered("accepted")]}
            BY <1>0, <4>1 DEF SubmitStep, SubmitWrite
          <5>3. QED
            BY <1>0, <5>1, <5>2 DEF Answered
        <4>2. CASE SubmitThrows(j)
          BY <1>0, <4>2 DEF SubmitThrows, Answered
        <4>3. CASE \E w \in Workers : Receive(j, w)
          BY <1>0, <4>3 DEF Receive
        <4>4. QED
          BY <4>1, <4>2, <4>3
      <3>2. QED
        BY <1>1, <3>1
    <2>2. NotYetCreated'
      BY <1>2, <2>1 DEF IInv, OwnershipInv, NotYetCreated
    <2>3. QED
      BY <1>0, <1>2, <2>2 DEF IInv, OwnershipInv, RunOfLoop, OneHolder
  <1>3. CASE job[j] = NoJob /\ job' # job
    <2>1. job'[j].status = "QUEUED" /\ RowIsConsistent(job'[j])
      <3>1. job'[j] = [NoJob EXCEPT !.status = "QUEUED", !.createdAt = submit[j].createdAt]
        BY <1>1, <1>3
      <3>2. QED
        BY <1>0, <3>1 DEF NoJob, RowIsConsistent
    <2>2. ASSUME NEW k \in Loops PROVE RunOfLoop(k)'
      <3>1. CASE loop[k].pc \in Holding
        <4>1. loop[k].run \in Jobs /\ job[loop[k].run].status # "ABSENT" /\ RunOfLoop(k)
          BY <3>1 DEF Terminal, IInv, OwnershipInv, RunOfLoop, Holding, Owning, InTry, Working
        <4>2. loop[k].run # j
          BY <1>3, <4>1 DEF NoJob
        <4>3. job'[loop[k].run] = job[loop[k].run]
          BY <1>1, <4>1, <4>2
        <4>4. QED
          BY <1>0, <4>1, <4>3 DEF RunOfLoop
      <3>2. CASE loop[k].pc \notin Holding
        BY <1>0, <3>2 DEF RunOfLoop, Holding, Owning, InTry, Working
      <3>3. QED
        BY <3>1, <3>2
    <2>3. NotYetCreated'
      BY <1>1, <1>3 DEF IInv, OwnershipInv, NotYetCreated
    <2>4. \A k \in Jobs : RowIsConsistent(job'[k])
      BY <1>1, <2>1 DEF IInv, OwnershipInv
    <2>5. OneHolder'
      BY <1>0 DEF IInv, OwnershipInv, OneHolder
    <2>6. QED
      BY <2>2, <2>3, <2>4, <2>5 DEF OwnershipInv
  <1>4. QED
    BY <1>1, <1>2, <1>3

(* A request writes the row of a settled run: no loop relies on it.        *)
LEMMA ReviewedRow ==
  ASSUME IInv, NEW a \in Reviews, review[a].pc = "save", NEW record \in Reviewed(a),
         UpdateJob(review[a].run, record)
  PROVE  /\ review[a].run \in Jobs /\ job[review[a].run].status \in Terminal
         /\ \A k \in Jobs \ {review[a].run} : job'[k] = job[k]
         /\ job'[review[a].run].status = "COMPLETED"
         /\ RowIsConsistent(job'[review[a].run])
         /\ AnalysisOf[job'[review[a].run].result] = AnalysisOf[review[a].existing.result]
  <1> DEFINE j == review[a].run
  <1>1. /\ j \in Jobs /\ record \in JobRecord /\ record.status = "COMPLETED"
        /\ record.result \in Results /\ ~record.error
        /\ AnalysisOf[record.result] = AnalysisOf[review[a].existing.result]
    BY ReviewedType
  <1>2. job[j].status \in Terminal
    BY DEF IInv, ReviewsInv, ReviewHolds
  <1>3. /\ job'[j].status = record.status /\ job'[j].result = record.result
        /\ job'[j].error = record.error /\ job'[j].worker = Nobody
        /\ \A k \in Jobs \ {j} : job'[k] = job[k]
    BY <1>1, UpdateFields
  <1>4. RowIsConsistent(job'[j])
    BY <1>1, <1>3 DEF RowIsConsistent
  <1>5. QED
    BY <1>1, <1>2, <1>3, <1>4

LEMMA ReviewOwnership ==
  ASSUME IInv, NEW a \in Reviews, Review(a)
  PROVE  OwnershipInv'
  <1>1. UNCHANGED <<submit, loop>>
    BY ReviewWrites
  <1>2. CASE UNCHANGED job
    BY <1>1, <1>2 DEF IInv, OwnershipInv, RunOfLoop, OneHolder, NotYetCreated
  <1>3. CASE ~UNCHANGED job
    <2> DEFINE j == review[a].run
    <2>1. /\ j \in Jobs /\ job[j].status \in Terminal
          /\ \A k \in Jobs \ {j} : job'[k] = job[k]
          /\ job'[j].status = "COMPLETED" /\ RowIsConsistent(job'[j])
      BY <1>3, ReviewWrites, ReviewedRow
    <2> HIDE DEF j
    <2>2. ASSUME NEW l \in Loops PROVE RunOfLoop(l)'
      <3>1. RunOfLoop(l)
        BY DEF IInv, OwnershipInv
      <3>2. CASE loop[l].pc \in Holding /\ loop[l].run = j
        <4>1. /\ loop[l].pc \notin Working \cup {"claiming"}
              /\ loop[l].pc = "fail" => job[j].status = "COMPLETED"
          BY <2>1, <3>1, <3>2 DEF RunOfLoop, Terminal
        <4>2. QED
          BY <1>1, <2>1, <3>1, <3>2, <4>1 DEF RunOfLoop, Terminal, Holding, Owning, InTry, Working
      <3>3. CASE loop[l].pc \in Holding /\ loop[l].run # j
        <4>1. job'[loop[l].run] = job[loop[l].run]
          BY <2>1, <3>1, <3>3 DEF RunOfLoop
        <4>2. QED
          BY <1>1, <3>1, <4>1 DEF RunOfLoop
      <3>4. CASE loop[l].pc \notin Holding
        BY <1>1, <3>4 DEF RunOfLoop, Holding, Owning, InTry, Working
      <3>5. QED
        BY <3>2, <3>3, <3>4
    <2>3. OneHolder'
      BY <1>1 DEF IInv, OwnershipInv, OneHolder
    <2>4. NotYetCreated'
      <3>1. job[j] # NoJob
        BY <2>1 DEF NoJob, Terminal
      <3>2. QED
        BY <1>1, <2>1, <3>1 DEF IInv, OwnershipInv, NotYetCreated
    <2>5. \A k \in Jobs : RowIsConsistent(job'[k])
      BY <2>1 DEF IInv, OwnershipInv
    <2>6. QED
      BY <2>2, <2>3, <2>4, <2>5 DEF OwnershipInv
  <1>4. QED
    BY <1>2, <1>3

LEMMA OwnershipStep == IInv /\ [Next]_vars => OwnershipInv'
  <1> SUFFICES ASSUME IInv, [Next]_vars PROVE OwnershipInv'
    OBVIOUS
  <1>1. ASSUME NEW j \in Jobs, SubmitStep(j) \/ SubmitThrows(j) \/ \E w \in Workers : Receive(j, w)
        PROVE  OwnershipInv'
    BY <1>1, SubmitOwnership
  <1>2. ASSUME NEW l \in Loops, LoopStep(l) PROVE OwnershipInv'
    <2>1. CASE Idle(l)
      BY <2>1 DEF Idle, vars, IInv, OwnershipInv, RunOfLoop, OneHolder, NotYetCreated
    <2>2. CASE LeaveLoop(l)
      BY <2>2, IdleLoopKeeps DEF LeaveLoop, Holding, Owning, InTry
    <2>3. CASE ~Idle(l) /\ ~LeaveLoop(l)
      BY <1>2, <2>3, LockOwnership, CommitOwnership, LogOwnership, SaveOwnership, ProcessOwnership
         DEF LoopStep, Claim, Process
    <2>4. QED
      BY <2>1, <2>2, <2>3
  <1>3. ASSUME NEW w \in Workers, Boot(w) \/ Start(w) \/ Stop(w) \/ Close(w) \/ Crash(w)
        PROVE  OwnershipInv'
    BY <1>3, ProcessStepOwnership
  <1>4. CASE UNCHANGED vars
    BY <1>4 DEF vars, IInv, OwnershipInv, RunOfLoop, OneHolder, NotYetCreated
  <1>5. QED
    BY <1>1, <1>2, <1>3, <1>4, ReviewOwnership DEF Next

-----------------------------------------------------------------------------
(* Which rows a step may change, and who then holds the run.               *)
RowSteps ==
    \E j \in Jobs :
        /\ \A k \in Jobs \ {j} : job'[k] = job[k]
        /\ \/ job'[j] = job[j]
           \/ job[j].status \in {"ABSENT", "QUEUED"} /\ job'[j].status \notin Terminal
           \/ \E l \in Loops : /\ Owns(l, j) /\ loop[l].pc \in {"complete", "fail"}
                               /\ loop[l].pc = "fail" => job'[j].status = "FAILED"
           \/ \E a \in Reviews :
                 /\ Saving(a, j) /\ UNCHANGED loop
                 /\ job[j].status \in Terminal /\ job'[j].status = "COMPLETED"
                 /\ AnalysisOf[job'[j].result] = AnalysisOf[review[a].existing.result]

LEMMA RowsChange == ASSUME IInv, [Next]_vars PROVE job' = job \/ RowSteps
  <1>1. ASSUME NEW l \in Loops, SaveCompleted(l) \/ SaveFailed(l) PROVE job' = job \/ RowSteps
    <2>1. /\ loop[l].pc \in {"complete", "fail"} /\ loop[l].run \in Jobs
          /\ SaveCompleted(l) => loop[l].pc = "complete"
          /\ SaveFailed(l) => loop[l].pc = "fail"
      BY <1>1 DEF IInv, OwnershipInv, RunOfLoop, Holding, Owning, InTry, SaveStep, SaveCompleted,
           SaveFailed
    <2>2. CompletedRecord(l) \in JobRecord /\ FailedRecord(l) \in JobRecord
      BY EndRecordType DEF IInv, RunsTypeOK
    <2>3. \/ job' = job
          \/ /\ \A k \in Jobs \ {loop[l].run} : job'[k] = job[k]
             /\ loop[l].pc = "fail" => job'[loop[l].run].status = "FAILED"
      BY <1>1, <2>1, <2>2, UpdateFields, EndRecordFields DEF SaveStep, SaveCompleted, SaveFailed
    <2>4. Owns(l, loop[l].run)
      BY <2>1 DEF Owns, Owning, InTry
    <2>5. QED
      BY <2>1, <2>3, <2>4 DEF RowSteps
  <1>2. ASSUME NEW l \in Loops, CommitClaim(l) PROVE job' = job \/ RowSteps
    <2>1. loop[l].run \in Jobs /\ job[loop[l].run].status = "QUEUED"
      BY <1>2 DEF IInv, OwnershipInv, RunOfLoop, Holding, CommitClaim
    <2>2. job \in [Jobs -> JobRecord] /\ job[loop[l].run] \in JobRecord
      BY <2>1 DEF IInv, RunsTypeOK, StoreTypeOK
    <2>3. CASE ClaimJob(loop[l].run, WorkerOf[l])
      <3>1. /\ job'[loop[l].run] = [job[loop[l].run] EXCEPT !.status = "RUNNING",
                                                             !.worker = WorkerOf[l]]
            /\ \A k \in Jobs \ {loop[l].run} : job'[k] = job[k]
        BY <2>1, <2>2, <2>3 DEF ClaimJob
      <3>2. job'[loop[l].run].status = "RUNNING"
        BY <2>2, <3>1 DEF JobRecord
      <3>3. QED
        BY <2>1, <3>1, <3>2 DEF RowSteps, Terminal
    <2>4. QED
      BY <1>2, <2>3 DEF CommitClaim
  <1>3. ASSUME NEW l \in Loops, LoopStep(l) PROVE job' = job \/ RowSteps
    BY <1>1, <1>2, <1>3
       DEF LoopStep, Claim, Process, LeaveLoop, LockQueued, Idle, vars, LogStep, LogClaimed,
           LogStarted, LogAnalyzed, LogReviewRequired, LogCompleted, LogFailed, FetchJob,
           AnalyzeReturns, AnalyzeThrows, PersistSentiment
  <1>4. ASSUME NEW j \in Jobs, SubmitStep(j) \/ SubmitThrows(j) \/ \E w \in Workers : Receive(j, w)
        PROVE  job' = job \/ RowSteps
    <2>1. CASE submit[j].pc = "create" /\ CreateJob(j, submit[j].createdAt)
      <3>1. /\ job[j].status = "ABSENT" /\ job'[j].status = "QUEUED"
            /\ \A k \in Jobs \ {j} : job'[k] = job[k]
        BY <2>1 DEF IInv, RunsTypeOK, StoreTypeOK, OwnershipInv, NotYetCreated, CreateJob, NoJob
      <3>2. QED
        BY <3>1 DEF RowSteps, Terminal
    <2>2. QED
      BY <1>4, <2>1 DEF SubmitStep, SubmitThrows, SubmitWrite, Receive
  <1>5. ASSUME NEW a \in Reviews, Review(a) PROVE job' = job \/ RowSteps
    BY <1>5, ReviewWrites, ReviewedRow DEF RowSteps, Saving
  <1>6. QED
    BY <1>3, <1>4, <1>5 DEF Next, vars, Boot, Start, Activate, Stop, Close, Crash

(* A settled run stays settled, though not with the same outcome.          *)
LEMMA TerminalStays ==
  ASSUME IInv, [Next]_vars, NEW j \in Jobs, job[j].status \in Terminal
  PROVE  job'[j].status \in Terminal
  <1>1. ASSUME NEW l \in Loops, Owns(l, j), loop[l].pc \in {"complete", "fail"}
        PROVE  loop[l].pc = "fail"
    BY <1>1 DEF IInv, OwnershipInv, RunOfLoop, Owns, Working, Terminal
  <1>2. QED
    BY <1>1, RowsChange DEF RowSteps, Terminal

(* A request's copy is the one it read, or it has no copy any more.        *)
LEMMA ReviewsOf ==
  ASSUME IInv, [Next]_vars
  PROVE  review' = review \/ (\E w \in Workers : Exit(w)) \/ (\E a \in Reviews : Review(a))
  <1>1. ASSUME NEW l \in Loops, LoopStep(l)
        PROVE  review' = review \/ \E w \in Workers : Exit(w)
    <2>1. WorkerOf[l] \in Workers
      OBVIOUS
    <2>2. Throw(l) => review' = review \/ \E w \in Workers : Exit(w)
      BY <2>1 DEF Throw, Goto
    <2>3. QED
      BY <1>1, <2>2 DEF LoopStep, Claim, Process, LeaveLoop, LockQueued, Idle, vars, CommitClaim,
         LogClaimed, LogStarted, LogAnalyzed, LogReviewRequired, LogCompleted, LogFailed, LogStep,
         SaveStep, SaveCompleted, SaveFailed, FetchJob, AnalyzeReturns, AnalyzeThrows,
         PersistSentiment, Goto, GoRound
  <1>2. QED
    BY <1>1 DEF Next, vars, SubmitStep, SubmitThrows, Receive, Boot, Start, Activate, Stop,
       Close, Crash

LEMMA ReviewsMove ==
  ASSUME IInv, [Next]_vars, NEW a \in Reviews
  PROVE  review'[a] = review[a] \/ review'[a] = Unasked("over") \/ Review(a)
  <1>1. ASSUME NEW w \in Workers, Exit(w)
        PROVE  review'[a] = review[a] \/ review'[a] = Unasked("over")
    BY <1>1 DEF Exit
  <1>2. ASSUME NEW b \in Reviews, Review(b), b # a PROVE review'[a] = review[a]
    BY <1>2, ReviewWrites
  <1>3. QED
    BY <1>1, <1>2, ReviewsOf

(* What a request holds after a step of its own.                           *)
LEMMA ReviewReads ==
  ASSUME IInv, NEW a \in Reviews, ReadReviewed(a)
  PROVE  \E w \in Workers, j \in Jobs :
            /\ job[j].status = "COMPLETED" /\ job[j].result # NoResult /\ UNCHANGED job
            /\ review'[a] = [pc |-> "save", host |-> w, run |-> j, existing |-> job[j],
                             logged |-> 0]
  <1>1. a \in DOMAIN review
    BY DEF IInv, ReviewsTypeOK
  <1>2. QED
    BY <1>1 DEF ReadReviewed

LEMMA ReviewGoes ==
  ASSUME IInv, NEW a \in Reviews, SaveReview(a) \/ LogReview(a)
  PROVE  \/ review'[a] = Unasked("over")
         \/ review[a].pc = "save" /\ review'[a] = [review[a] EXCEPT !.pc = "log"]
         \/ /\ review[a].pc = "log" /\ review[a].logged + 1 < Len(LogOf[a])
            /\ review'[a] = [review[a] EXCEPT !.logged = review[a].logged + 1]
  <1>1. a \in DOMAIN review
    BY DEF IInv, ReviewsTypeOK
  <1>2. QED
    BY <1>1 DEF SaveReview, LogReview, EndReview

LEMMA ReviewsStep == IInv /\ [Next]_vars => ReviewsTypeOK' /\ ReviewsInv'
  <1> SUFFICES ASSUME IInv, [Next]_vars PROVE ReviewsTypeOK' /\ ReviewsInv'
    OBVIOUS
  <1>1. review \in [Reviews -> ReviewState] /\ job \in [Jobs -> JobRecord]
    BY DEF IInv, ReviewsTypeOK, RunsTypeOK, StoreTypeOK
  <1>2. ASSUME NEW a \in Reviews PROVE review'[a] \in ReviewState /\ ReviewHolds(a)'
    <2>1. review[a] \in ReviewState /\ ReviewHolds(a)
      BY <1>1 DEF IInv, ReviewsInv
    <2>2. Unasked("over") \in ReviewState
      BY DEF Unasked, ReviewState, NoJob, JobRecord, Status
    <2>3. CASE review'[a] = review[a]
      <3>1. ReviewHolds(a)'
        BY <2>1, <2>3, TerminalStays DEF ReviewHolds
      <3>2. QED
        BY <2>1, <2>3, <3>1
    <2>4. CASE review'[a] = Unasked("over")
      BY <2>2, <2>4 DEF ReviewHolds, Unasked
    <2>5. CASE ReadReviewed(a)
      <3>1. PICK w \in Workers, j \in Jobs :
              /\ job[j].status = "COMPLETED" /\ job[j].result # NoResult /\ UNCHANGED job
              /\ review'[a] = [pc |-> "save", host |-> w, run |-> j, existing |-> job[j],
                               logged |-> 0]
        BY <2>5, ReviewReads
      <3>2. job[j] \in JobRecord /\ RowIsConsistent(job[j])
        BY <1>1 DEF IInv, OwnershipInv
      <3>3. job[j].result \in Results /\ ~job[j].error
        BY <3>1, <3>2 DEF JobRecord, RowIsConsistent
      <3>4. review'[a] \in ReviewState
        BY <3>1, <3>2 DEF ReviewState
      <3>5. QED
        BY <3>1, <3>3, <3>4 DEF ReviewHolds, Terminal
    <2>6. CASE review[a].pc = "save" /\ review'[a] = [review[a] EXCEPT !.pc = "log"]
      <3>1. Len(LogOf[a]) > 0
        <4>1. LogOf[a] \in Seq(AnalystEvents) /\ LogOf[a] # << >>
          BY AnalystAssumption
        <4>2. QED
          BY <4>1
      <3>2. /\ review'[a].pc = "log" /\ review'[a].run = review[a].run
            /\ review'[a].logged = 0 /\ review'[a] \in ReviewState
        BY <2>1, <2>6 DEF ReviewState, ReviewHolds
      <3>3. QED
        BY <2>1, <2>6, <3>1, <3>2 DEF ReviewHolds
    <2>7. CASE /\ review[a].pc = "log" /\ review[a].logged + 1 < Len(LogOf[a])
               /\ review'[a] = [review[a] EXCEPT !.logged = review[a].logged + 1]
      <3>1. /\ review'[a].pc = "log" /\ review'[a].run = review[a].run
            /\ review'[a].logged = review[a].logged + 1 /\ review'[a].host = review[a].host
            /\ review'[a].existing = review[a].existing /\ review'[a] \in ReviewState
        BY <2>1, <2>7 DEF ReviewState
      <3>2. QED
        BY <2>1, <2>7, <3>1 DEF ReviewHolds
    <2>8. RefuseReview(a) => review'[a] = Unasked("over")
      BY <1>1 DEF RefuseReview, EndReview
    <2>9. QED
      BY <2>3, <2>4, <2>5, <2>6, <2>7, <2>8, ReviewsMove, ReviewGoes DEF Review
  <1>3. review' = [a \in Reviews |-> review'[a]]
    <2>1. ASSUME NEW a \in Reviews, Review(a) PROVE \E x : review' = [review EXCEPT ![a] = x]
      BY <1>1, <2>1 DEF Review, ReadReviewed, RefuseReview, SaveReview, LogReview, EndReview
    <2>2. QED
      BY <1>1, <2>1, ReviewsOf DEF Exit
  <1>4. QED
    BY <1>2, <1>3 DEF ReviewsTypeOK, ReviewsInv

LEMMA InitIInv == Init => IInv
  <1> SUFFICES ASSUME Init PROVE IInv
    OBVIOUS
  <1>1. NoJob \in JobRecord /\ At("off") \in LoopState
    BY AtType DEF NoJob, JobRecord, Status, LoopPc
  <1>2. StoreTypeOK
    BY <1>1 DEF Init, StoreInit, StoreTypeOK
  <1>3. ControlTypeOK
    BY <1>1 DEF Init, ControlTypeOK, Answered, Down
  <1>4. RunsTypeOK
    BY <1>2, <1>3 DEF Init, RunsTypeOK
  <1>5. \A l \in Loops : loop[l].pc \notin Holding /\ RunOfLoop(l)
    BY DEF Init, RunOfLoop, At, Holding, Owning, InTry, Working
  <1>6. \A j \in Jobs : RowIsConsistent(job[j])
    BY DEF Init, StoreInit, NoJob, RowIsConsistent
  <1>7. NotYetCreated
    BY DEF Init, StoreInit, NotYetCreated
  <1>8. ReviewsTypeOK /\ ReviewsInv
    BY <1>1 DEF Init, Unasked, ReviewsTypeOK, ReviewState, ReviewsInv, ReviewHolds
  <1>9. QED
    BY <1>4, <1>5, <1>6, <1>7, <1>8 DEF IInv, OwnershipInv, OneHolder

LEMMA Inductive == Spec => []IInv
  <1>1. IInv /\ [Next]_vars => IInv'
    BY TypeStep, OwnershipStep, ReviewsStep DEF IInv
  <1>2. QED
    BY <1>1, InitIInv, PTL DEF Spec

(* Every variable keeps the type it is declared with, whatever the numbers *)
(* of runs, workers, loops and faults.                                     *)
THEOREM TypeCorrect == Spec => []TypeOK
  <1>1. IInv => TypeOK
    BY DEF IInv, TypeOK
  <1>2. QED
    BY <1>1, Inductive, PTL

(* Where each loop is agrees with the row of its run (the claim, the saves *)
(* and the catch block of processClaimedJob), for every instance.          *)
THEOREM OwnershipHolds == Spec => []OwnershipInv
  <1>1. IInv => OwnershipInv
    BY DEF IInv
  <1>2. QED
    BY <1>1, Inductive, PTL

(* No two loops, of the same process or of different ones, ever work on    *)
(* the same run: the claim is exclusive in every interleaving.             *)
THEOREM OneLoopPerRun == Spec => []ExclusiveProcessing
  <1>1. IInv => ExclusiveProcessing
    BY DEF IInv, OwnershipInv, OneHolder, ExclusiveProcessing, Owns, Holding
  <1>2. QED
    BY <1>1, Inductive, PTL

(* The result, error and worker columns of a row always agree with its     *)
(* status, whichever of the writes of processClaimedJob throw.             *)
THEOREM RecordsAgree == Spec => []RecordMatchesStatus
  <1>1. IInv => RecordMatchesStatus
    <2> SUFFICES ASSUME IInv, NEW j \in Jobs, NEW l \in Loops, Owns(l, j),
                        job[j].status = "RUNNING"
                 PROVE  job[j].worker = WorkerOf[l]
      BY DEF RecordMatchesStatus, IInv, OwnershipInv
    <2>1. loop[l].run = j /\ loop[l].pc \in Owning /\ RunOfLoop(l)
      BY DEF Owns, IInv, OwnershipInv
    <2>2. QED
      BY <2>1 DEF Terminal, RunOfLoop, Owning, InTry, Working, Holding
  <1>2. QED
    BY <1>1, Inductive, PTL
-----------------------------------------------------------------------------
(* The refinement of RunOutcome. *)
StatusOf == [j \in Jobs |-> job[j].status]
ClaimedRuns == {j \in Jobs : job[j].status \notin {"ABSENT", "QUEUED"}}
SeenRuns == {j \in Jobs : \E a \in Reviews : Saving(a, j)}
Mapped == <<StatusOf, ClaimedRuns, SeenRuns>>

(* A step that moves the status of one run along the life cycle, or back   *)
(* to COMPLETED by a request that had seen it so, and no other row, is a   *)
(* step of RunOutcome; one that moves none may be the end of some request. *)
LifeCycle == {<<"ABSENT", "QUEUED">>, <<"QUEUED", "RUNNING">>, <<"RUNNING", "COMPLETED">>,
              <<"RUNNING", "FAILED">>, <<"COMPLETED", "FAILED">>}

LEMMA MoveIsStep ==
  ASSUME NEW r \in Jobs, \A k \in Jobs \ {r} : job'[k].status = job[k].status,
         SeenRuns' \subseteq SeenRuns,
         \/ job'[r].status = job[r].status
         \/ <<job[r].status, job'[r].status>> \in LifeCycle
         \/ r \in SeenRuns /\ <<job[r].status, job'[r].status>> = <<"FAILED", "COMPLETED">>
  PROVE  [Outcome!Next]_Mapped
  <1> DEFINE Moves(from, to) == job[r].status = from /\ job'[r].status = to
  <1>0. Outcome!Forget
    BY DEF Outcome!Forget, SeenRuns
  <1>1. CASE job'[r].status = job[r].status
    <2>1. UNCHANGED <<StatusOf, ClaimedRuns>>
      BY <1>1 DEF StatusOf, ClaimedRuns
    <2>2. QED
      BY <1>0, <2>1 DEF Outcome!Next, StatusOf, ClaimedRuns
  <1>2. ASSUME NEW from, NEW to, Moves(from, to)
        PROVE  Outcome!Move(r, from, to)
    BY <1>2 DEF Outcome!Move
  <1>3. CASE Moves("ABSENT", "QUEUED")
    <2>1. UNCHANGED ClaimedRuns
      BY <1>3 DEF ClaimedRuns
    <2>2. Outcome!Submit(r)
      BY <1>0, <1>2, <1>3, <2>1 DEF Outcome!Submit, ClaimedRuns
    <2>3. QED
      BY <2>2 DEF Outcome!Next
  <1>4. CASE Moves("QUEUED", "RUNNING")
    <2>1. r \notin ClaimedRuns /\ ClaimedRuns' = ClaimedRuns \cup {r}
      BY <1>4 DEF ClaimedRuns
    <2>2. Outcome!Claim(r)
      BY <1>0, <1>2, <1>4, <2>1 DEF Outcome!Claim, ClaimedRuns
    <2>3. QED
      BY <2>2 DEF Outcome!Next
  <1>5. CASE Moves("RUNNING", "COMPLETED") \/ Moves("RUNNING", "FAILED")
    <2>1. r \in ClaimedRuns /\ UNCHANGED ClaimedRuns
      BY <1>5 DEF ClaimedRuns
    <2>2. Outcome!Settle(r)
      BY <1>0, <1>2, <1>5, <2>1 DEF Outcome!Settle, ClaimedRuns
    <2>3. QED
      BY <2>2 DEF Outcome!Next
  <1>6. CASE Moves("COMPLETED", "FAILED")
    <2>1. r \in ClaimedRuns /\ UNCHANGED ClaimedRuns
      BY <1>6 DEF ClaimedRuns
    <2>2. Outcome!Withdraw(r)
      BY <1>0, <1>2, <1>6, <2>1 DEF Outcome!Withdraw, ClaimedRuns
    <2>3. QED
      BY <2>2 DEF Outcome!Next
  <1>7. CASE r \in SeenRuns /\ Moves("FAILED", "COMPLETED")
    <2>1. UNCHANGED ClaimedRuns
      BY <1>7 DEF ClaimedRuns
    <2>2. Outcome!Restore(r)
      BY <1>0, <1>2, <1>7, <2>1 DEF Outcome!Restore, ClaimedRuns, SeenRuns
    <2>3. QED
      BY <2>2 DEF Outcome!Next
  <1>8. QED
    BY <1>1, <1>3, <1>4, <1>5, <1>6, <1>7 DEF LifeCycle

(* The rows a step may change, and how far it moves their status. *)
OneMove == job' = job \/ \E r \in Jobs :
               /\ \A k \in Jobs \ {r} : job'[k] = job[k]
               /\ \/ job'[r].status = job[r].status
                  \/ <<job[r].status, job'[r].status>> \in LifeCycle
                  \/ r \in SeenRuns /\ <<job[r].status, job'[r].status>> = <<"FAILED", "COMPLETED">>

LEMMA LoopMove ==
  ASSUME IInv, NEW l \in Loops, LoopStep(l)
  PROVE  OneMove
  <1> DEFINE r == loop[l].run
  <1>1. CASE CommitClaim(l) /\ ClaimJob(r, WorkerOf[l])
    <2>1. r \in Jobs /\ job[r].status = "QUEUED" /\ job[r] \in JobRecord
      BY <1>1 DEF IInv, RunsTypeOK, StoreTypeOK, OwnershipInv, RunOfLoop, Holding, CommitClaim
    <2>2. job' = [job EXCEPT ![r] = [job[r] EXCEPT !.status = "RUNNING", !.worker = WorkerOf[l]]]
      BY <1>1 DEF ClaimJob, IInv, RunsTypeOK, StoreTypeOK
    <2>3. job'[r] = [job[r] EXCEPT !.status = "RUNNING", !.worker = WorkerOf[l]]
          /\ \A k \in Jobs \ {r} : job'[k] = job[k]
      BY <2>1, <2>2 DEF IInv, RunsTypeOK, StoreTypeOK
    <2>4. job'[r].status = "RUNNING"
      BY <2>1, <2>3 DEF JobRecord
    <2>5. QED
      BY <2>1, <2>3, <2>4 DEF OneMove, LifeCycle
  <1>2. CASE SaveCompleted(l) \/ SaveFailed(l)
    <2>1. /\ loop[l].pc = "complete" \/ loop[l].pc = "fail"
          /\ r \in Jobs /\ RunOfLoop(l) /\ job \in [Jobs -> JobRecord]
      BY <1>2 DEF IInv, RunsTypeOK, StoreTypeOK, OwnershipInv, RunOfLoop, Holding, Owning, InTry,
                  SaveStep, SaveCompleted, SaveFailed
    <2>2. CompletedRecord(l) \in JobRecord /\ FailedRecord(l) \in JobRecord
      BY EndRecordType DEF IInv, RunsTypeOK
    <2>3. CASE loop[l].pc = "complete" /\ UpdateJob(r, CompletedRecord(l))
      <3>1. job[r].status = "RUNNING"
        BY <2>1, <2>3 DEF RunOfLoop, Working
      <3>2. job'[r].status = "COMPLETED" /\ \A k \in Jobs \ {r} : job'[k] = job[k]
        BY <2>1, <2>2, <2>3, UpdateFields, EndRecordFields
      <3>3. QED
        BY <2>1, <3>1, <3>2 DEF OneMove, LifeCycle
    <2>4. CASE loop[l].pc = "fail" /\ UpdateJob(r, FailedRecord(l))
      <3>1. job[r].status \in {"RUNNING", "COMPLETED"}
        BY <2>1, <2>4 DEF RunOfLoop
      <3>2. job'[r].status = "FAILED" /\ \A k \in Jobs \ {r} : job'[k] = job[k]
        BY <2>1, <2>2, <2>4, UpdateFields, EndRecordFields
      <3>3. QED
        BY <2>1, <3>1, <3>2 DEF OneMove, LifeCycle
    <2>5. CASE job' = job
      BY <2>5 DEF OneMove
    <2>6. QED
      BY <1>2, <2>1, <2>3, <2>4, <2>5 DEF SaveStep, SaveCompleted, SaveFailed
  <1>3. CASE job' = job
    BY <1>3 DEF OneMove
  <1>4. QED
    BY <1>1, <1>2, <1>3
       DEF LoopStep, Claim, Process, LeaveLoop, LockQueued, Idle, vars, CommitClaim, LogStep,
           LogClaimed, LogStarted, LogAnalyzed, LogReviewRequired, LogCompleted, LogFailed,
           FetchJob, AnalyzeReturns, AnalyzeThrows, PersistSentiment

LEMMA SubmitMove ==
  ASSUME IInv, NEW j \in Jobs, SubmitStep(j) \/ SubmitThrows(j) \/ \E w \in Workers : Receive(j, w)
  PROVE  OneMove
  <1>1. CASE submit[j].pc = "create" /\ CreateJob(j, submit[j].createdAt)
    <2>1. job[j] = NoJob /\ job \in [Jobs -> JobRecord]
      BY <1>1 DEF IInv, RunsTypeOK, StoreTypeOK, OwnershipInv, NotYetCreated
    <2>2. job[j].status = "ABSENT"
      BY <2>1 DEF NoJob
    <2>3. job'[j] = [NoJob EXCEPT !.status = "QUEUED", !.createdAt = submit[j].createdAt]
          /\ \A k \in Jobs \ {j} : job'[k] = job[k]
      BY <1>1, <2>1 DEF CreateJob
    <2>4. job'[j].status = "QUEUED"
      BY <2>3 DEF NoJob
    <2>5. QED
      BY <2>2, <2>3, <2>4 DEF OneMove, LifeCycle
  <1>2. CASE job' = job
    BY <1>2 DEF OneMove
  <1>3. QED
    BY <1>1, <1>2 DEF SubmitStep, SubmitThrows, SubmitWrite, Receive

LEMMA ReviewMove ==
  ASSUME IInv, NEW a \in Reviews, Review(a)
  PROVE  OneMove
  <1>1. CASE UNCHANGED job
    BY <1>1 DEF OneMove
  <1>2. CASE ~UNCHANGED job
    <2>1. /\ review[a].run \in Jobs /\ job[review[a].run].status \in Terminal
          /\ \A k \in Jobs \ {review[a].run} : job'[k] = job[k]
          /\ job'[review[a].run].status = "COMPLETED" /\ Saving(a, review[a].run)
      BY <1>2, ReviewWrites, ReviewedRow DEF Saving
    <2>2. QED
      BY <2>1 DEF OneMove, SeenRuns, Terminal
  <1>3. QED
    BY <1>1, <1>2

(* No request comes to hold a run but by reading it.                       *)
LEMMA SeenShrinks ==
  ASSUME IInv, [Next]_vars, \A a \in Reviews : ~ReadReviewed(a)
  PROVE  SeenRuns' \subseteq SeenRuns
  <1> SUFFICES ASSUME NEW j \in Jobs, NEW a \in Reviews, Saving(a, j)' PROVE Saving(a, j)
    BY DEF SeenRuns
  <1>1. review \in [Reviews -> ReviewState] /\ review[a] \in ReviewState
    BY DEF IInv, ReviewsTypeOK
  <1>2. review'[a] # Unasked("over")
    BY DEF Saving, Unasked
  <1>3. ~RefuseReview(a)
    BY <1>1, <1>2 DEF RefuseReview, EndReview
  <1>4. SaveReview(a) \/ LogReview(a) => review'[a].pc = "log"
    BY <1>1, <1>2, ReviewGoes DEF ReviewState
  <1>5. review'[a] = review[a]
    BY <1>2, <1>3, <1>4, ReviewsMove DEF Saving, Review
  <1>6. QED
    BY <1>5 DEF Saving

LEMMA ReadIsSee ==
  ASSUME IInv, NEW a \in Reviews, ReadReviewed(a)
  PROVE  Outcome!Next
  <1>1. PICK w \in Workers, j \in Jobs :
            /\ job[j].status = "COMPLETED" /\ job[j].result # NoResult /\ UNCHANGED job
            /\ review'[a] = [pc |-> "save", host |-> w, run |-> j, existing |-> job[j],
                             logged |-> 0]
    BY ReviewReads
  <1>2. review[a].pc = "unsent" /\ \A b \in Reviews \ {a} : review'[b] = review[b]
    BY ReviewWrites DEF ReadReviewed, Review
  <1>3. SeenRuns' = SeenRuns \cup {j}
    BY <1>1, <1>2 DEF SeenRuns, Saving
  <1>4. Outcome!See(j)
    BY <1>1, <1>3 DEF Outcome!See, SeenRuns
  <1>5. QED
    BY <1>4 DEF Outcome!Next

(* RunLifecycle implements RunOutcome: a run is submitted, claimed once    *)
(* and settled, in this order, its completion withdrawn, and brought back  *)
(* by no one but a request that had read it as COMPLETED, with any number  *)
(* of workers, requests, crashes and failing store calls.                  *)
THEOREM ImplementsOutcome == Spec => OutcomeSpec
  <1>1. Init => Outcome!Init
    <2> SUFFICES ASSUME Init PROVE Outcome!Init
      OBVIOUS
    <2>1. StatusOf = [j \in Jobs |-> "ABSENT"] /\ ClaimedRuns = {}
      BY DEF Init, StoreInit, NoJob, StatusOf, ClaimedRuns
    <2>2. SeenRuns = {}
      BY DEF Init, SeenRuns, Saving, Unasked
    <2>3. QED
      BY <2>1, <2>2 DEF Outcome!Init, StatusOf, ClaimedRuns, SeenRuns
  <1>2. IInv /\ [Next]_vars => [Outcome!Next]_Mapped
    <2> SUFFICES ASSUME IInv, [Next]_vars PROVE [Outcome!Next]_Mapped
      OBVIOUS
    <2>1. CASE \E a \in Reviews : ReadReviewed(a)
      BY <2>1, ReadIsSee
    <2>2. CASE ~\E a \in Reviews : ReadReviewed(a)
      <3>1. SeenRuns' \subseteq SeenRuns
        BY <2>2, SeenShrinks
      <3>2. OneMove
        <4>1. ASSUME NEW w \in Workers, Boot(w) \/ Start(w) \/ Stop(w) \/ Close(w) \/ Crash(w)
              PROVE  job' = job
          BY <4>1 DEF Boot, Start, Activate, Stop, Close, Crash
        <4>2. QED
          BY <4>1, LoopMove, SubmitMove, ReviewMove DEF Next, OneMove, vars
      <3>3. CASE job' = job
        <4>1. UNCHANGED <<StatusOf, ClaimedRuns>>
          BY <3>3 DEF StatusOf, ClaimedRuns
        <4>2. Outcome!Forget
          BY <3>1 DEF Outcome!Forget, SeenRuns
        <4>3. QED
          BY <4>1, <4>2 DEF Outcome!Next, StatusOf, ClaimedRuns
      <3>4. CASE job' # job
        <4>1. PICK r \in Jobs :
                 /\ \A k \in Jobs \ {r} : job'[k] = job[k]
                 /\ \/ job'[r].status = job[r].status
                    \/ <<job[r].status, job'[r].status>> \in LifeCycle
                    \/ r \in SeenRuns /\ <<job[r].status, job'[r].status>> = <<"FAILED", "COMPLETED">>
          BY <3>2, <3>4 DEF OneMove
        <4>2. QED
          BY <3>1, <4>1, MoveIsStep
      <3>5. QED
        BY <3>3, <3>4
    <2>3. QED
      BY <2>1, <2>2
  <1>3. QED
    BY <1>1, <1>2, Inductive, PTL
       DEF Spec, OutcomeSpec, Outcome!Spec, Mapped, StatusOf, ClaimedRuns, SeenRuns
-----------------------------------------------------------------------------
(* The stations of the worker's log, each the one before with one event    *)
(* more.                                                                   *)
Claimed == Append(<< >>, "RUN_CLAIMED")
Begun == Append(Claimed, "LLM_STARTED")
Analyzed == Append(Begun, "LLM_COMPLETED")
Flagging == Append(Analyzed, "REVIEW_REQUIRED")
Told(flagged) == IF flagged THEN Flagging ELSE Analyzed
Complete(flagged) == Append(Told(flagged), "RUN_COMPLETED")

LEMMA StationTypes ==
  /\ << >> \in Seq(WorkerEvents) /\ Claimed \in Seq(WorkerEvents)
  /\ Begun \in Seq(WorkerEvents) /\ Analyzed \in Seq(WorkerEvents)
  /\ Flagging \in Seq(WorkerEvents)
  /\ \A flagged \in BOOLEAN :
        Told(flagged) \in Seq(WorkerEvents) /\ Complete(flagged) \in Seq(WorkerEvents)
  <1>0. {"RUN_CLAIMED", "LLM_STARTED", "LLM_COMPLETED", "REVIEW_REQUIRED",
         "RUN_COMPLETED", "RUN_FAILED"} \subseteq WorkerEvents
    BY DEF WorkerEvents
  <1>1. << >> \in Seq(WorkerEvents) /\ Claimed \in Seq(WorkerEvents)
    BY <1>0 DEF Claimed
  <1>2. Begun \in Seq(WorkerEvents)
    BY <1>0, <1>1 DEF Begun
  <1>3. Analyzed \in Seq(WorkerEvents)
    BY <1>0, <1>2 DEF Analyzed
  <1>4. Flagging \in Seq(WorkerEvents)
    BY <1>0, <1>3 DEF Flagging
  <1>5. ASSUME NEW flagged \in BOOLEAN
        PROVE  Told(flagged) \in Seq(WorkerEvents) /\ Complete(flagged) \in Seq(WorkerEvents)
    BY <1>0, <1>3, <1>4 DEF Told, Complete
  <1>6. QED
    BY <1>1, <1>2, <1>3, <1>4, <1>5

(* Three elements appended one after the other are the tuple of the three. *)
LEMMA Triple ==
  ASSUME NEW T, NEW a \in T, NEW b \in T, NEW c \in T
  PROVE  Append(Append(Append(<< >>, a), b), c) = <<a, b, c>>
  <1> DEFINE s == Append(Append(Append(<< >>, a), b), c)
             t == <<a, b, c>>
  <1>1. t \in Seq(T) /\ Len(t) = 3
    OBVIOUS
  <1>2. s \in Seq(T) /\ Len(s) = 3
    OBVIOUS
  <1>3. s[1] = a /\ s[2] = b /\ s[3] = c
    OBVIOUS
  <1>4. ASSUME NEW i \in 1..Len(s) PROVE s[i] = t[i]
    <2>1. i \in {1, 2, 3}
      BY <1>2
    <2>2. QED
      BY <1>3, <2>1
  <1> HIDE DEF s, t
  <1>5. Len(s) = Len(t)
    BY <1>1, <1>2
  <1>6. s = t
    BY <1>1, <1>2, <1>4, <1>5, SeqEqual
  <1>7. QED
    BY <1>6 DEF s, t

LEMMA Triples ==
  /\ Analyzed = <<"RUN_CLAIMED", "LLM_STARTED", "LLM_COMPLETED">>
  /\ Append(Begun, "RUN_FAILED") = <<"RUN_CLAIMED", "LLM_STARTED", "RUN_FAILED">>
  <1>1. ASSUME NEW a \in WorkerEvents, NEW b \in WorkerEvents, NEW c \in WorkerEvents
        PROVE  Append(Append(Append(<< >>, a), b), c) = <<a, b, c>>
    BY Triple
  <1>2. {"RUN_CLAIMED", "LLM_STARTED", "LLM_COMPLETED", "RUN_FAILED"} \subseteq WorkerEvents
    BY DEF WorkerEvents
  <1>3. QED
    BY <1>1, <1>2 DEF Analyzed, Begun, Claimed

LEMMA CompleteIs == \A flagged \in BOOLEAN : SuccessPath(flagged) = Complete(flagged)
  <1> TAKE flagged \in BOOLEAN
  <1>0. {"REVIEW_REQUIRED", "RUN_COMPLETED"} \subseteq WorkerEvents
    BY DEF WorkerEvents
  <1>1. Told(flagged) = Analyzed \o (IF flagged THEN <<"REVIEW_REQUIRED">> ELSE << >>)
    <2>1. Flagging = Analyzed \o <<"REVIEW_REQUIRED">>
      BY <1>0, StationTypes, AppendIsConcat DEF Flagging
    <2>2. Analyzed = Analyzed \o << >>
      BY StationTypes, ConcatEmptySeq
    <2>3. QED
      BY <2>1, <2>2 DEF Told
  <1>2. Complete(flagged) = Told(flagged) \o <<"RUN_COMPLETED">>
    BY <1>0, StationTypes, AppendIsConcat DEF Complete
  <1>3. QED
    BY <1>1, <1>2, Triples DEF SuccessPath

LEMMA PrefixesGrow ==
  ASSUME NEW T, NEW s \in Seq(T), NEW e \in T
  PROVE  Prefixes(s) \cup {Append(s, e)} \subseteq Prefixes(Append(s, e))
  <1> DEFINE t == Append(s, e)
  <1>1. /\ t \in Seq(T) /\ Len(t) = Len(s) + 1 /\ Len(s) \in Nat
        /\ t = s \o <<e>> /\ <<e>> \in Seq(T)
    BY AppendIsConcat
  <1>2. t \in Prefixes(t)
    <2>1. t = SubSeq(t, 1, Len(t))
      BY <1>1, SubSeqFull
    <2>2. QED
      BY <1>1, <2>1 DEF Prefixes
  <1>3. ASSUME NEW n \in 0..Len(s) PROVE SubSeq(s, 1, n) = SubSeq(t, 1, n)
    <2>1. CASE n = 0
      BY <2>1, SubSeqEmpty
    <2>2. CASE n \in 1..Len(s)
      <3>1. 1 \in 1..Len(s)
        BY <1>1, <2>2
      <3>2. SubSeq(s \o <<e>>, 1, n) = SubSeq(s, 1, n)
        BY <1>1, <2>2, <3>1, SubSeqOfConcat1
      <3>3. QED
        BY <1>1, <3>2
    <2>3. QED
      BY <1>1, <2>1, <2>2
  <1> HIDE DEF t
  <1>4. Prefixes(s) \subseteq Prefixes(t)
    BY <1>1, <1>3 DEF Prefixes
  <1>5. QED
    BY <1>2, <1>4 DEF t

Stations == {<< >>, Claimed, Begun, Analyzed, Flagging} \cup {Complete(flagged) : flagged \in BOOLEAN}

LEMMA StationsArePrefixes ==
  \A p \in Stations : \E flagged \in BOOLEAN : p \in Prefixes(SuccessPath(flagged))
  <1>1. << >> \in Prefixes(<< >>)
    <2>1. SubSeq(<< >>, 1, 0) = << >> /\ Len(<< >>) = 0
      BY SubSeqEmpty
    <2>2. QED
      BY <2>1 DEF Prefixes
  <1> DEFINE Within(s, e) == Prefixes(s) \cup {Append(s, e)} \subseteq Prefixes(Append(s, e))
  <1>2. ASSUME NEW s \in Seq(WorkerEvents), NEW e \in WorkerEvents PROVE Within(s, e)
    BY PrefixesGrow
  <1>3. /\ {"RUN_CLAIMED", "LLM_STARTED", "LLM_COMPLETED", "REVIEW_REQUIRED",
            "RUN_COMPLETED"} \subseteq WorkerEvents
    BY DEF WorkerEvents
  <1>4. /\ Within(<< >>, "RUN_CLAIMED") /\ Within(Claimed, "LLM_STARTED")
        /\ Within(Begun, "LLM_COMPLETED") /\ Within(Analyzed, "REVIEW_REQUIRED")
        /\ Within(Flagging, "RUN_COMPLETED") /\ Within(Analyzed, "RUN_COMPLETED")
    <2> HIDE DEF Within
    <2>1. QED
      BY <1>2, <1>3, StationTypes
  <1>5. {<< >>, Claimed, Begun, Analyzed, Flagging} \subseteq Prefixes(Flagging)
    BY <1>1, <1>4 DEF Claimed, Begun, Analyzed, Flagging
  <1>6. Stations \subseteq Prefixes(Complete(TRUE)) \cup Prefixes(Complete(FALSE))
    <2>1. Prefixes(Flagging) \cup {Complete(TRUE)} \subseteq Prefixes(Complete(TRUE))
      BY <1>4 DEF Told, Complete
    <2>2. Complete(FALSE) \in Prefixes(Complete(FALSE))
      BY <1>4 DEF Told, Complete
    <2>3. QED
      BY <1>5, <2>1, <2>2 DEF Stations
  <1>7. QED
    BY <1>6, CompleteIs
-----------------------------------------------------------------------------
(* The inductive invariant of the log.  Where the loop that holds a run is *)
(* tells the log exactly, until a call fails: then it is some station.     *)
LogOfHolder(l) ==
    LET pc == loop[l].pc
        log == WorkerLog(loop[l].run)
        flagged == loop[l].result \in Flagged
    IN  /\ pc \in {"claiming", "claimed"} => log = << >>
        /\ pc \in {"fetch", "start"} => log = Claimed
        /\ pc \in {"engine", "llmDone"} => log = Begun
        /\ pc = "flag" => log = Analyzed /\ flagged
        /\ pc \in {"complete", "announce"} => log = Told(flagged)
        /\ pc = "persist" => log = Complete(flagged)
        /\ pc \in {"fail", "announceFail"} =>
              log \in Stations /\ (faults = 0 => log = Begun)

Logs == Stations \cup {Append(p, "RUN_FAILED") : p \in Stations}

LogInv ==
    /\ \A l \in Loops : LogOfHolder(l)
    /\ \A j \in Jobs : WorkerLog(j) \in Logs
    /\ \A j \in Jobs : job[j].status \in {"ABSENT", "QUEUED"} => WorkerLog(j) = << >>
-----------------------------------------------------------------------------
LEMMA StationTypesAre == \A p \in Stations : p \in Seq(WorkerEvents)
  BY StationTypes DEF Stations

(* One event appended to the log of one run. *)
LEMMA AppendLog ==
  ASSUME IInv, NEW j \in Jobs, NEW type \in EventType, AppendRunEvent(j, type)
  PROVE  /\ \A i \in Jobs \ {j} : events'[i] = events[i]
         /\ events'[j] = Append(events[j], type)
         /\ Kept(events'[j], WorkerEvents) = IF type \in WorkerEvents
                                             THEN Append(Kept(events[j], WorkerEvents), type)
                                             ELSE Kept(events[j], WorkerEvents)
  <1>1. events \in [Jobs -> Seq(EventType)] /\ events[j] \in Seq(EventType)
    BY DEF IInv, RunsTypeOK, StoreTypeOK
  <1>2. events'[j] = Append(events[j], type) /\ \A i \in Jobs \ {j} : events'[i] = events[i]
    BY <1>1 DEF AppendRunEvent
  <1>3. QED
    BY <1>1, <1>2, KeptAppend

LEMMA FaultCounts == ASSUME IInv, Fault PROVE faults' # 0 /\ faults' = faults + 1
  BY DEF IInv, RunsTypeOK, Fault

(* A loop that works on its run only keeps the invariant if what it says   *)
(* of the run's log still holds after its step.                            *)
LEMMA LogFrame ==
  ASSUME IInv, LogInv, NEW l \in Loops, loop[l].pc \in Holding, OthersKept(l),
         \A j \in Jobs \ {loop[l].run} : events'[j] = events[j],
         faults' = 0 => faults = 0,
         LogOfHolder(l)',
         Kept(events'[loop[l].run], WorkerEvents) \in Logs,
         job'[loop[l].run].status \notin {"ABSENT", "QUEUED"}
            \/ Kept(events'[loop[l].run], WorkerEvents) = << >>
  PROVE  LogInv'
  <1>1. ASSUME NEW k \in Loops PROVE LogOfHolder(k)'
    <2>1. CASE k = l
      BY <2>1
    <2>2. CASE k # l /\ loop'[k] = At("off")
      BY <2>2 DEF LogOfHolder, At
    <2>3. CASE k # l /\ loop'[k] = loop[k] /\ loop[k].pc \in Holding
      <3>1. loop[k].run # loop[l].run /\ loop[k].run \in Jobs /\ LogOfHolder(k)
        BY <2>3 DEF IInv, OwnershipInv, OneHolder, RunOfLoop, LogInv
      <3>2. job'[loop[k].run] = job[loop[k].run] /\ events'[loop[k].run] = events[loop[k].run]
        BY <3>1 DEF OthersKept
      <3>3. QED
        BY <2>3, <3>1, <3>2 DEF LogOfHolder, WorkerLog
    <2>4. CASE k # l /\ loop'[k] = loop[k] /\ loop[k].pc \notin Holding
      BY <2>4 DEF LogOfHolder, Holding, Owning, InTry
    <2>5. QED
      BY <2>1, <2>2, <2>3, <2>4 DEF OthersKept
  <1>2. ASSUME NEW j \in Jobs PROVE WorkerLog(j)' \in Logs
    BY DEF LogInv, WorkerLog
  <1>3. ASSUME NEW j \in Jobs, job'[j].status \in {"ABSENT", "QUEUED"}
        PROVE  WorkerLog(j)' = << >>
    BY <1>3 DEF LogInv, WorkerLog, OthersKept
  <1>4. Logs' = Logs
    OBVIOUS
  <1>5. QED
    BY <1>1, <1>2, <1>3, <1>4 DEF LogInv

LEMMA LogStepLog ==
  ASSUME IInv, LogInv, NEW l \in Loops, NEW from \in Owning, NEW type \in EventType,
         NEW to \in LoopPc, LogStep(l, from, type, to),
         \/ from = "claimed" /\ type = "RUN_CLAIMED" /\ to = "fetch"
         \/ from = "start" /\ type = "LLM_STARTED" /\ to = "engine"
         \/ /\ from = "llmDone" /\ type = "LLM_COMPLETED"
            /\ to = IF loop[l].result \in Flagged THEN "flag" ELSE "complete"
         \/ from = "flag" /\ type = "REVIEW_REQUIRED" /\ to = "complete"
         \/ from = "announce" /\ type = "RUN_COMPLETED" /\ to = "persist"
  PROVE  LogInv'
  <1> DEFINE r == loop[l].run
             log == Kept(events[r], WorkerEvents)
             new == Kept(events'[r], WorkerEvents)
             flagged == loop[l].result \in Flagged
  <1>1. /\ loop[l].pc = from /\ loop[l].pc \in Holding /\ r \in Jobs /\ RunOfLoop(l) /\ job' = job
        /\ loop[l] \in LoopState /\ LogOfHolder(l)
    BY DEF IInv, RunsTypeOK, ControlTypeOK, OwnershipInv, RunOfLoop, Holding, LogStep, LogInv
  <1>2. type \in WorkerEvents /\ job[r].status \in {"RUNNING", "COMPLETED"}
    BY <1>1 DEF WorkerEvents, RunOfLoop, Working
  <1>3. /\ from = "claimed" => log = << >> /\ Append(log, type) = Claimed
        /\ from = "start" => log = Claimed /\ Append(log, type) = Begun
        /\ from = "llmDone" => log = Begun /\ Append(log, type) = Analyzed
        /\ from = "flag" => log = Analyzed /\ Append(log, type) = Flagging /\ flagged
        /\ from = "announce" => log = Told(flagged) /\ Append(log, type) = Complete(flagged)
    BY <1>1 DEF LogOfHolder, WorkerLog, Claimed, Begun, Analyzed, Flagging, Complete
  <1>4. log \in Stations /\ Append(log, type) \in Stations
    <2>1. {<< >>, Claimed, Begun, Analyzed, Flagging} \subseteq Stations
      BY DEF Stations
    <2>2. Told(flagged) \in {Analyzed, Flagging}
      BY DEF Told
    <2>3. flagged \in BOOLEAN
      OBVIOUS
    <2> HIDE DEF log, flagged
    <2>4. Complete(flagged) \in Stations
      BY <2>3 DEF Stations
    <2>5. QED
      BY <1>3, <2>1, <2>2, <2>4
  <1>5. /\ \A j \in Jobs \ {r} : events'[j] = events[j]
        /\ new = Append(log, type) \/ (new = log /\ Throw(l))
    <2>1. AppendRunEvent(r, type) \/ (UNCHANGED events /\ Throw(l))
      BY DEF LogStep
    <2>2. QED
      BY <1>1, <1>2, <2>1, AppendLog
  <1>6. new \in Logs
    BY <1>4, <1>5 DEF Logs
  <1>7. CASE Goto(l, to) /\ UNCHANGED faults /\ AppendRunEvent(r, type)
    <2>1. /\ loop'[l].pc = to /\ loop'[l].run = r /\ loop'[l].result = loop[l].result
          /\ OthersKept(l)
      BY <1>1, <1>7, GotoKeeps DEF OthersKept
    <2>2. new = Append(log, type)
      BY <1>1, <1>2, <1>7, AppendLog
    <2> HIDE DEF log, new
    <2>3. LogOfHolder(l)'
      <3> USE DEF new
      <3>1. CASE from = "claimed"
        BY <1>1, <1>3, <2>1, <2>2, <3>1 DEF LogOfHolder, WorkerLog
      <3>2. CASE from = "start"
        BY <1>1, <1>3, <2>1, <2>2, <3>2 DEF LogOfHolder, WorkerLog
      <3>3. CASE from = "llmDone"
        BY <1>1, <1>3, <2>1, <2>2, <3>3 DEF LogOfHolder, WorkerLog, Told
      <3>4. CASE from = "flag"
        BY <1>1, <1>3, <2>1, <2>2, <3>4 DEF LogOfHolder, WorkerLog, Told
      <3>5. CASE from = "announce"
        BY <1>1, <1>3, <2>1, <2>2, <3>5 DEF LogOfHolder, WorkerLog
      <3>6. QED
        BY <3>1, <3>2, <3>3, <3>4, <3>5
    <2>4. QED
      BY <1>1, <1>2, <1>5, <1>6, <1>7, <2>1, <2>3, LogFrame DEF new
  <1>8. CASE Fault /\ Throw(l)
    <2>1. OthersKept(l)
      BY <1>1, <1>8, ThrowKeeps DEF OthersKept
    <2>2. faults' # 0
      BY <1>8, FaultCounts
    <2>3. new \in Stations
      BY <1>4, <1>5
    <2>4. LogOfHolder(l)'
      BY <1>1, <1>8, <2>2, <2>3, ThrowKeeps DEF LogOfHolder, WorkerLog, At
    <2>5. QED
      BY <1>1, <1>2, <1>5, <1>6, <2>1, <2>2, <2>4, LogFrame
  <1>9. QED
    BY <1>1, <1>7, <1>8 DEF LogStep

LEMMA LogLog ==
  ASSUME IInv, LogInv, NEW l \in Loops,
         LogClaimed(l) \/ LogStarted(l) \/ LogAnalyzed(l) \/ LogReviewRequired(l) \/ LogCompleted(l)
  PROVE  LogInv'
  <1> USE DEF EventType, LoopPc, Owning, InTry
  <1>1. CASE LogClaimed(l)
    BY <1>1, LogStepLog DEF LogClaimed
  <1>2. CASE LogStarted(l)
    BY <1>2, LogStepLog DEF LogStarted
  <1>3. CASE LogAnalyzed(l)
    BY <1>3, LogStepLog DEF LogAnalyzed
  <1>4. CASE LogReviewRequired(l)
    BY <1>4, LogStepLog DEF LogReviewRequired
  <1>5. CASE LogCompleted(l)
    BY <1>5, LogStepLog DEF LogCompleted
  <1>6. QED
    BY <1>1, <1>2, <1>3, <1>4, <1>5

(* What every other step of a loop that works on its run has in common.    *)
LEMMA SilentLog ==
  ASSUME IInv, LogInv, NEW l \in Loops, loop[l].pc \in Holding, OthersKept(l),
         UNCHANGED events, faults' = 0 => faults = 0, LogOfHolder(l)',
         job'[loop[l].run].status \notin {"ABSENT", "QUEUED"} \/ job' = job
  PROVE  LogInv'
  <1>1. loop[l].run \in Jobs
    BY DEF IInv, OwnershipInv, RunOfLoop
  <1>2. Kept(events'[loop[l].run], WorkerEvents) \in Logs
    BY <1>1 DEF LogInv, WorkerLog
  <1>3. \/ job'[loop[l].run].status \notin {"ABSENT", "QUEUED"}
        \/ Kept(events'[loop[l].run], WorkerEvents) = << >>
    BY <1>1 DEF LogInv, WorkerLog
  <1>4. QED
    BY <1>2, <1>3, LogFrame

LEMMA SaveLog ==
  ASSUME IInv, LogInv, NEW l \in Loops, SaveCompleted(l) \/ SaveFailed(l)
  PROVE  LogInv'
  <1> DEFINE r == loop[l].run
  <1>1. /\ loop[l].pc \in {"complete", "fail"}
        /\ loop[l].pc \in Holding /\ r \in Jobs /\ RunOfLoop(l) /\ LogOfHolder(l)
        /\ UNCHANGED events
    BY DEF IInv, OwnershipInv, RunOfLoop, Holding, Owning, InTry, SaveStep, SaveCompleted,
           SaveFailed, LogInv
  <1>2. CompletedRecord(l) \in JobRecord /\ FailedRecord(l) \in JobRecord
    BY EndRecordType DEF IInv, RunsTypeOK
  <1>3. \A j \in Jobs \ {r} : job'[j] = job[j]
    BY <1>1, <1>2, UpdateFields DEF SaveStep, SaveCompleted, SaveFailed
  <1>4. \/ job' = job
        \/ job'[r].status \in {"COMPLETED", "FAILED"}
    BY <1>1, <1>2, UpdateFields, EndRecordFields DEF SaveStep, SaveCompleted, SaveFailed
  <1>5. CASE Fault /\ Throw(l)
    <2>1. OthersKept(l)
      BY <1>3, <1>5, ThrowKeeps DEF OthersKept
    <2>2. faults' # 0
      BY <1>5, FaultCounts
    <2>3. loop[l].pc = "complete" => Kept(events[r], WorkerEvents) \in Stations
      BY <1>1 DEF LogOfHolder, WorkerLog, Stations, Told
    <2>4. LogOfHolder(l)'
      BY <1>1, <1>5, <2>2, <2>3, ThrowKeeps DEF LogOfHolder, WorkerLog, At, InTry
    <2>5. QED
      BY <1>1, <1>4, <2>1, <2>2, <2>4, SilentLog
  <1>6. CASE ~(Fault /\ Throw(l))
    <2>1. UNCHANGED faults
      BY <1>6 DEF SaveStep, SaveCompleted, SaveFailed
    <2>2. CASE loop[l].pc = "complete"
      <3>1. Goto(l, "announce") /\ UpdateJob(r, CompletedRecord(l)) /\ "announce" \in LoopPc
        BY <1>6, <2>2 DEF SaveStep, SaveCompleted, SaveFailed, LoopPc, Owning, InTry
      <3>2. /\ loop'[l].pc = "announce" /\ loop'[l].run = r /\ loop'[l].result = loop[l].result
            /\ OthersKept(l)
        BY <1>3, <3>1, GotoKeeps DEF OthersKept
      <3>3. LogOfHolder(l)'
        BY <1>1, <2>2, <3>2 DEF LogOfHolder, WorkerLog
      <3>4. QED
        BY <1>1, <1>4, <2>1, <3>2, <3>3, SilentLog
    <2>3. CASE loop[l].pc = "fail"
      <3>1. Goto(l, "announceFail") /\ "announceFail" \in LoopPc
        BY <1>6, <2>3 DEF SaveStep, SaveCompleted, SaveFailed, LoopPc, Owning, InTry
      <3>2. loop'[l].pc = "announceFail" /\ loop'[l].run = r /\ OthersKept(l)
        BY <1>3, <3>1, GotoKeeps DEF OthersKept
      <3>3. LogOfHolder(l)'
        BY <1>1, <2>1, <2>3, <3>2 DEF LogOfHolder, WorkerLog
      <3>4. QED
        BY <1>1, <1>4, <2>1, <3>2, <3>3, SilentLog
    <2>4. QED
      BY <1>1, <2>2, <2>3
  <1>7. QED
    BY <1>5, <1>6 DEF SaveStep, SaveCompleted, SaveFailed

LEMMA ProcessLog ==
  ASSUME IInv, LogInv, NEW l \in Loops,
         FetchJob(l) \/ AnalyzeReturns(l) \/ AnalyzeThrows(l) \/ PersistSentiment(l)
  PROVE  LogInv'
  <1> DEFINE r == loop[l].run
  <1>1. /\ loop[l].pc \in {"fetch", "engine", "persist"}
        /\ loop[l].pc \in Holding /\ r \in Jobs /\ RunOfLoop(l) /\ LogOfHolder(l)
        /\ loop \in [Loops -> LoopState] /\ loop[l] \in LoopState
        /\ UNCHANGED <<job, events>>
    BY DEF IInv, RunsTypeOK, ControlTypeOK, OwnershipInv, RunOfLoop, Holding, Owning, InTry, LogInv,
           FetchJob, AnalyzeReturns, AnalyzeThrows, PersistSentiment
  <1>2. faults' = 0 => faults = 0
    BY FaultCounts DEF FetchJob, AnalyzeReturns, AnalyzeThrows, PersistSentiment
  <1>3. CASE Throw(l)
    <2>1. OthersKept(l)
      BY <1>1, <1>3, ThrowKeeps DEF OthersKept
    <2>2. loop[l].pc \in InTry => loop[l].pc = "engine"
      <3>1. ~PersistSentiment(l)
        <4>1. Throw(l) => loop'[l].pc \in {"fail", "off"}
          BY ThrowKeeps DEF At
        <4>2. GoRound(l) => loop'[l].pc = "poll"
          BY <1>1 DEF GoRound, At
        <4>3. QED
          BY <1>3, <4>1, <4>2 DEF PersistSentiment
      <3>2. QED
        BY <3>1 DEF FetchJob, AnalyzeReturns, AnalyzeThrows, InTry
    <2>3. loop[l].pc = "engine" => Kept(events[r], WorkerEvents) = Begun
      BY <1>1 DEF LogOfHolder, WorkerLog
    <2>4. Begun \in Stations
      BY DEF Stations
    <2>5. LogOfHolder(l)'
      BY <1>1, <1>3, <2>2, <2>3, <2>4, ThrowKeeps DEF LogOfHolder, WorkerLog, At
    <2>6. QED
      BY <1>1, <1>2, <2>1, <2>5, SilentLog
  <1>4. CASE GoRound(l)
    <2>1. loop'[l] = At("poll") /\ \A k \in Loops \ {l} : loop'[k] = loop[k]
      BY <1>1, <1>4 DEF GoRound
    <2>2. OthersKept(l) /\ LogOfHolder(l)'
      BY <1>1, <1>4, <2>1 DEF OthersKept, GoRound, At, LogOfHolder
    <2>3. QED
      BY <1>1, <1>2, <2>2, SilentLog
  <1>5. CASE /\ loop[l].pc = "fetch"
             /\ loop' = [loop EXCEPT ![l].pc = "start", ![l].existing = job[r]]
             /\ UNCHANGED submit
    <2>1. /\ loop'[l].pc = "start" /\ loop'[l].run = r
          /\ \A k \in Loops \ {l} : loop'[k] = loop[k]
      <3>1. loop' = [loop EXCEPT ![l] = [loop[l] EXCEPT !.pc = "start", !.existing = job[r]]]
        BY <1>1, <1>5
      <3>2. QED
        BY <1>1, <3>1 DEF LoopState
    <2>2. OthersKept(l) /\ LogOfHolder(l)'
      BY <1>1, <1>5, <2>1 DEF OthersKept, LogOfHolder, WorkerLog
    <2>3. QED
      BY <1>1, <1>2, <2>2, SilentLog
  <1>6. CASE AnalyzeReturns(l)
    <2>1. PICK x \in EngineResults : loop' = [loop EXCEPT ![l].pc = "llmDone", ![l].result = x]
      BY <1>6 DEF AnalyzeReturns
    <2>2. /\ loop'[l].pc = "llmDone" /\ loop'[l].run = r
          /\ \A k \in Loops \ {l} : loop'[k] = loop[k]
      <3>1. loop' = [loop EXCEPT ![l] = [loop[l] EXCEPT !.pc = "llmDone", !.result = x]]
        BY <1>1, <2>1
      <3>2. QED
        BY <1>1, <3>1 DEF LoopState
    <2>3. loop[l].pc = "engine" /\ UNCHANGED submit
      BY <1>6 DEF AnalyzeReturns
    <2>4. OthersKept(l) /\ LogOfHolder(l)'
      BY <1>1, <2>2, <2>3 DEF OthersKept, LogOfHolder, WorkerLog
    <2>5. QED
      BY <1>1, <1>2, <2>4, SilentLog
  <1>7. QED
    BY <1>3, <1>4, <1>5, <1>6 DEF FetchJob, AnalyzeThrows, PersistSentiment

(* The catch block announces the failure and the loop goes round. *)
LEMMA LogFailedLog ==
  ASSUME IInv, LogInv, NEW l \in Loops, LogFailed(l)
  PROVE  LogInv'
  <1> DEFINE r == loop[l].run
             log == Kept(events[r], WorkerEvents)
             new == Kept(events'[r], WorkerEvents)
  <1>1. /\ loop[l].pc = "announceFail" /\ loop[l].pc \in Holding /\ r \in Jobs
        /\ RunOfLoop(l) /\ LogOfHolder(l) /\ job' = job /\ loop \in [Loops -> LoopState]
    BY DEF IInv, RunsTypeOK, ControlTypeOK, OwnershipInv, RunOfLoop, Holding, Owning, LogFailed, LogInv
  <1>2. log \in Stations /\ job[r].status \in Terminal
    BY <1>1 DEF LogOfHolder, WorkerLog, RunOfLoop
  <1>3. "RUN_FAILED" \in EventType /\ "RUN_FAILED" \in WorkerEvents
    BY DEF EventType, WorkerEvents
  <1>4. /\ \A j \in Jobs \ {r} : events'[j] = events[j]
        /\ new \in {log, Append(log, "RUN_FAILED")}
    BY <1>1, <1>3, AppendLog DEF LogFailed
  <1>5. new \in Logs
    BY <1>2, <1>4 DEF Logs
  <1>6. /\ \A k \in Loops \ {l} : loop'[k] = loop[k] \/ loop'[k] = At("off")
        /\ loop'[l] \in {At("poll"), At("off")}
        /\ \A j \in Jobs : submit'[j].pc \in {"unsent", "create"} => submit'[j] = submit[j]
    <2>1. CASE GoRound(l)
      BY <1>1, <2>1 DEF GoRound
    <2>2. CASE Throw(l)
      BY <1>1, <2>2, ThrowKeeps DEF InTry
    <2>3. QED
      BY <2>1, <2>2 DEF LogFailed
  <1>7. OthersKept(l) /\ LogOfHolder(l)'
    BY <1>1, <1>6 DEF OthersKept, LogOfHolder, At
  <1>8. faults' = 0 => faults = 0
    BY FaultCounts DEF LogFailed
  <1>9. job'[r].status \notin {"ABSENT", "QUEUED"}
    BY <1>1, <1>2 DEF Terminal
  <1>10. QED
    BY <1>1, <1>4, <1>5, <1>7, <1>8, <1>9, LogFrame

LEMMA CommitLog ==
  ASSUME IInv, LogInv, NEW l \in Loops, CommitClaim(l)
  PROVE  LogInv'
  <1> DEFINE r == loop[l].run
  <1>1. /\ loop[l].pc = "claiming" /\ loop[l].pc \in Holding /\ r \in Jobs
        /\ job \in [Jobs -> JobRecord] /\ job[r] \in JobRecord /\ LogOfHolder(l)
        /\ UNCHANGED events
    BY DEF IInv, RunsTypeOK, StoreTypeOK, OwnershipInv, RunOfLoop, Holding, CommitClaim, LogInv
  <1>2. /\ \A j \in Jobs \ {r} : job'[j] = job[j]
        /\ job'[r].status \notin {"ABSENT", "QUEUED"} \/ job' = job
    <2>1. CASE ClaimJob(r, WorkerOf[l])
      <3>1. job'[r] = [job[r] EXCEPT !.status = "RUNNING", !.worker = WorkerOf[l]]
            /\ \A j \in Jobs \ {r} : job'[j] = job[j]
        BY <1>1, <2>1 DEF ClaimJob
      <3>2. QED
        BY <1>1, <3>1 DEF JobRecord
    <2>2. QED
      BY <2>1 DEF CommitClaim
  <1>3. CASE Goto(l, "claimed") /\ UNCHANGED faults
    <2>1. "claimed" \in LoopPc
      BY DEF LoopPc, Owning
    <2>2. loop'[l].pc = "claimed" /\ loop'[l].run = r /\ OthersKept(l)
      BY <1>2, <1>3, <2>1, GotoKeeps DEF OthersKept
    <2>3. LogOfHolder(l)'
      BY <1>1, <2>2 DEF LogOfHolder, WorkerLog
    <2>4. QED
      BY <1>1, <1>2, <1>3, <2>2, <2>3, SilentLog
  <1>4. CASE Fault /\ Throw(l)
    <2>1. OthersKept(l) /\ loop'[l] = At("off") /\ faults' # 0
      BY <1>1, <1>2, <1>4, ThrowKeeps, FaultCounts DEF OthersKept, InTry
    <2>2. LogOfHolder(l)'
      BY <2>1 DEF LogOfHolder, At
    <2>3. QED
      BY <1>1, <1>2, <2>1, <2>2, SilentLog
  <1>5. QED
    BY <1>3, <1>4 DEF CommitClaim

(* Steps that move no loop into or along its work, and log nothing: each   *)
(* loop keeps its place, is off or polls, or has just locked a queued row. *)
LEMMA IdleLog ==
  ASSUME IInv, LogInv, UNCHANGED <<job, events>>, faults' = 0 => faults = 0,
         \A k \in Loops : \/ loop'[k] = loop[k]
                          \/ loop'[k].pc \in {"off", "poll"}
                          \/ /\ loop'[k].pc = "claiming" /\ loop'[k].run \in Jobs
                             /\ job[loop'[k].run].status = "QUEUED"
  PROVE  LogInv'
  <1>1. ASSUME NEW k \in Loops PROVE LogOfHolder(k)'
    <2>1. CASE loop'[k] = loop[k]
      BY <2>1 DEF LogInv, LogOfHolder, WorkerLog
    <2>2. CASE loop'[k].pc \in {"off", "poll"}
      BY <2>2 DEF LogOfHolder
    <2>3. CASE /\ loop'[k].pc = "claiming" /\ loop'[k].run \in Jobs
               /\ job[loop'[k].run].status = "QUEUED"
      BY <2>3 DEF LogInv, LogOfHolder, WorkerLog
    <2>4. QED
      BY <2>1, <2>2, <2>3
  <1>2. ASSUME NEW j \in Jobs
        PROVE  /\ WorkerLog(j)' \in Logs
               /\ job'[j].status \in {"ABSENT", "QUEUED"} => WorkerLog(j)' = << >>
    BY DEF LogInv, WorkerLog
  <1>3. Logs' = Logs
    OBVIOUS
  <1>4. QED
    BY <1>1, <1>2, <1>3 DEF LogInv

LEMMA LoopIdleLog ==
  ASSUME IInv, LogInv, NEW l \in Loops, LockQueued(l) \/ LeaveLoop(l) \/ Idle(l)
  PROVE  LogInv'
  <1>1. CASE LockQueued(l)
    <2>1. PICK r \in OldestQueued(Locked) :
              loop' = [loop EXCEPT ![l] = [At("claiming") EXCEPT !.run = r]]
      BY <1>1 DEF LockQueued
    <2>2. r \in Jobs /\ job[r].status = "QUEUED"
      BY DEF OldestQueued
    <2>3. loop'[l].pc = "claiming" /\ loop'[l].run = r /\ \A k \in Loops \ {l} : loop'[k] = loop[k]
      BY <2>1 DEF At, IInv, RunsTypeOK, ControlTypeOK
    <2>4. QED
      BY <1>1, <2>2, <2>3, IdleLog DEF LockQueued
  <1>2. CASE LeaveLoop(l)
    <2>1. \A k \in Loops : loop'[k] = loop[k] \/ loop'[k].pc = "off"
      BY <1>2 DEF LeaveLoop, At, IInv, RunsTypeOK, ControlTypeOK
    <2>2. QED
      BY <1>2, <2>1, IdleLog DEF LeaveLoop
  <1>3. CASE Idle(l)
    BY <1>3, IdleLog DEF Idle, vars
  <1>4. QED
    BY <1>1, <1>2, <1>3

LEMMA ProcessStepLog ==
  ASSUME IInv, LogInv, NEW w \in Workers, Boot(w) \/ Start(w) \/ Stop(w) \/ Close(w) \/ Crash(w)
  PROVE  LogInv'
  <1>1. ASSUME NEW l \in Loops, Activate(w, l) PROVE LogInv'
    <2>1. \A k \in Loops : loop'[k] = loop[k] \/ loop'[k].pc = "poll"
      BY <1>1 DEF Activate, At, IInv, RunsTypeOK, ControlTypeOK
    <2>2. QED
      BY <1>1, <2>1, IdleLog DEF Activate
  <1>2. CASE Stop(w)
    BY <1>2, IdleLog DEF Stop
  <1>3. CASE Close(w) \/ Crash(w)
    <2>1. \A k \in Loops : loop'[k] = loop[k] \/ loop'[k].pc = "off"
      BY <1>3 DEF Close, Crash, Exit, At
    <2>2. faults' = 0 => faults = 0
      BY <1>3, FaultCounts DEF Close, Crash
    <2>3. QED
      BY <1>3, <2>1, <2>2, IdleLog DEF Close, Crash
  <1>4. QED
    BY <1>1, <1>2, <1>3 DEF Boot, Start

(* A request logs no event of a worker, and creates its row in the queue.  *)
LEMMA SubmitLog ==
  ASSUME IInv, LogInv, NEW j \in Jobs,
         SubmitStep(j) \/ SubmitThrows(j) \/ \E w \in Workers : Receive(j, w)
  PROVE  LogInv'
  <1>1. loop' = loop /\ (faults' = 0 => faults = 0)
    BY FaultCounts DEF SubmitStep, SubmitThrows, Receive
  <1>2. \A i \in Jobs : Kept(events'[i], WorkerEvents) = Kept(events[i], WorkerEvents)
    <2>1. \/ UNCHANGED events
          \/ AppendRunEvent(j, "RUN_CREATED") \/ AppendRunEvent(j, "PII_MASKED")
      BY DEF SubmitStep, SubmitThrows, SubmitWrite, Receive
    <2>2. /\ "RUN_CREATED" \in EventType /\ "PII_MASKED" \in EventType
          /\ "RUN_CREATED" \notin WorkerEvents /\ "PII_MASKED" \notin WorkerEvents
      BY DEF EventType, WorkerEvents
    <2>3. QED
      BY <2>1, <2>2, AppendLog
  <1>3. \/ job' = job
        \/ /\ job[j] = NoJob
           /\ \A k \in Jobs \ {j} : job'[k] = job[k]
    <2>1. CASE submit[j].pc = "create" /\ CreateJob(j, submit[j].createdAt)
      BY <2>1 DEF IInv, RunsTypeOK, StoreTypeOK, OwnershipInv, NotYetCreated, CreateJob
    <2>2. QED
      BY <2>1 DEF SubmitStep, SubmitThrows, SubmitWrite, Receive
  <1>4. ASSUME NEW k \in Loops PROVE LogOfHolder(k)'
    <2>1. CASE loop[k].pc \in Holding
      <3>1. /\ loop[k].run \in Jobs /\ job[loop[k].run].status # "ABSENT" /\ LogOfHolder(k)
        BY <2>1 DEF Terminal, IInv, OwnershipInv, RunOfLoop, Holding, Owning, InTry, Working, LogInv
      <3>2. job'[loop[k].run] = job[loop[k].run]
        BY <1>3, <3>1 DEF NoJob
      <3>3. QED
        BY <1>1, <1>2, <3>1, <3>2 DEF LogOfHolder, WorkerLog
    <2>2. CASE loop[k].pc \notin Holding
      BY <1>1, <2>2 DEF LogOfHolder, Holding, Owning, InTry
    <2>3. QED
      BY <2>1, <2>2
  <1>5. ASSUME NEW i \in Jobs
        PROVE  /\ WorkerLog(i)' \in Logs
               /\ job'[i].status \in {"ABSENT", "QUEUED"} => WorkerLog(i)' = << >>
    BY <1>2, <1>3 DEF LogInv, WorkerLog, NoJob
  <1>6. Logs' = Logs
    OBVIOUS
  <1>7. QED
    BY <1>4, <1>5, <1>6 DEF LogInv

(* An analyst's request logs no event of a worker either.                  *)
LEMMA ReviewLog ==
  ASSUME IInv, LogInv, NEW a \in Reviews, Review(a)
  PROVE  LogInv'
  <1>1. loop' = loop /\ (faults' = 0 => faults = 0)
    BY ReviewWrites, FaultCounts
  <1>2. \A i \in Jobs : Kept(events'[i], WorkerEvents) = Kept(events[i], WorkerEvents)
    <2>1. AnalystEvents \subseteq EventType /\ AnalystEvents \cap WorkerEvents = {}
      BY DEF AnalystEvents, EventType, WorkerEvents
    <2>2. ASSUME NEW type \in AnalystEvents, review[a].run \in Jobs,
                 AppendRunEvent(review[a].run, type)
          PROVE  \A i \in Jobs : Kept(events'[i], WorkerEvents) = Kept(events[i], WorkerEvents)
      BY <2>1, <2>2, AppendLog
    <2>3. QED
      BY <2>2, ReviewWrites
  <1>3. ASSUME NEW k \in Loops PROVE LogOfHolder(k)'
    <2>1. LogOfHolder(k) /\ (loop[k].pc \in Holding => loop[k].run \in Jobs)
      BY DEF LogInv, IInv, OwnershipInv, RunOfLoop
    <2>2. QED
      BY <1>1, <1>2, <2>1 DEF LogOfHolder, WorkerLog, Holding, Owning, InTry
  <1>4. ASSUME NEW i \in Jobs
        PROVE  /\ WorkerLog(i)' \in Logs
               /\ job'[i].status \in {"ABSENT", "QUEUED"} => WorkerLog(i)' = << >>
    <2>1. job'[i] = job[i] \/ job'[i].status = "COMPLETED"
      BY ReviewWrites, ReviewedRow
    <2>2. QED
      BY <1>2, <2>1 DEF LogInv, WorkerLog
  <1>5. Logs' = Logs
    OBVIOUS
  <1>6. QED
    BY <1>3, <1>4, <1>5 DEF LogInv

LEMMA LogInvStep == IInv /\ LogInv /\ [Next]_vars => LogInv'
  <1> SUFFICES ASSUME IInv, LogInv, [Next]_vars PROVE LogInv'
    OBVIOUS
  <1>1. ASSUME NEW l \in Loops, LoopStep(l) PROVE LogInv'
    BY <1>1, LoopIdleLog, CommitLog, LogLog, SaveLog, ProcessLog, LogFailedLog
       DEF LoopStep, Claim, Process
  <1>2. CASE UNCHANGED vars
    BY <1>2, IdleLog DEF vars
  <1>3. QED
    BY <1>1, <1>2, SubmitLog, ProcessStepLog, ReviewLog DEF Next

LEMMA LogInvHolds == Spec => []LogInv
  <1>1. Init => LogInv
    <2> SUFFICES ASSUME Init PROVE LogInv
      OBVIOUS
    <2>1. \A j \in Jobs : WorkerLog(j) = << >>
      BY KeptEmpty DEF Init, StoreInit, WorkerLog
    <2>2. \A l \in Loops : LogOfHolder(l)
      BY DEF Init, LogOfHolder, At
    <2>3. QED
      BY <2>1, <2>2 DEF LogInv, Logs, Stations
  <1>2. QED
    BY <1>1, LogInvStep, Inductive, PTL DEF Spec

(* Whatever fails or crashes, and however many runs and workers there are, *)
(* the events the workers leave in a run's log are a beginning of one      *)
(* success path, at most followed by RUN_FAILED.                           *)
THEOREM LogsArePaths == Spec => []LogIsOnePath
  <1>1. LogInv => LogIsOnePath
    <2> SUFFICES ASSUME LogInv, NEW j \in Jobs
                 PROVE  \E flagged \in BOOLEAN : \E p \in Prefixes(SuccessPath(flagged)) :
                            WorkerLog(j) \in {p, Append(p, "RUN_FAILED")}
      BY DEF LogIsOnePath
    <2>1. PICK p \in Stations : WorkerLog(j) \in {p, Append(p, "RUN_FAILED")}
      BY DEF LogInv, Logs
    <2>2. QED
      BY <2>1, StationsArePrefixes
  <1>2. QED
    BY <1>1, LogInvHolds, PTL
-----------------------------------------------------------------------------
(* Only a fault takes a completed run to the catch block, and until then   *)
(* the row tells what the loop's engine answered.                          *)
CatchInv == \A l \in Loops :
    LET row == job[loop[l].run]
    IN  /\ loop[l].pc \in {"fail", "announceFail"} /\ row.status = "COMPLETED" => faults > 0
        /\ loop[l].pc \in {"announce", "persist"} => AnalysisOf[row.result] = loop[l].result

(* The copies of a run that requests hold agree with its row and with each *)
(* other on what was analysed, and only a fault fails a run behind them.   *)
CopiesInv == \A a \in Reviews : \A j \in Jobs : Saving(a, j) =>
    LET analysis == AnalysisOf[review[a].existing.result]
    IN  /\ job[j].status = "FAILED" => faults > 0
        /\ job[j].status = "COMPLETED" => AnalysisOf[job[j].result] = analysis
        /\ \A b \in Reviews : Saving(b, j) => AnalysisOf[review[b].existing.result] = analysis

KeptInv == CatchInv /\ CopiesInv

(* The rows of the sentiment store: of a completed run that was announced, *)
(* and whose loop is gone, so that nothing can take the completion back.   *)
AnnouncedInv ==
    /\ \A j \in sentiment : /\ job[j].status = "COMPLETED" /\ Unowned(j)
                            /\ "RUN_COMPLETED" \in Logged(j)
    /\ \A l \in Loops : loop[l].pc = "persist" => "RUN_COMPLETED" \in Logged(loop[l].run)

(* What any step may do to the rows, the loops and the log of events: the  *)
(* rows it changes are those of one run, held by the loop that steps.      *)
LEMMA FaultsMove ==
  ASSUME IInv, [Next]_vars PROVE faults' = faults \/ faults' = faults + 1
  <1>1. faults' = faults \/ Fault
    <2>1. ASSUME NEW l \in Loops, LoopStep(l) PROVE faults' = faults \/ Fault
      BY <2>1 DEF LoopStep, Claim, Process, LeaveLoop, LockQueued, Idle, vars, CommitClaim,
           LogClaimed, LogStarted, LogAnalyzed, LogReviewRequired, LogCompleted, LogFailed,
           LogStep, SaveStep, SaveCompleted, SaveFailed, FetchJob, AnalyzeReturns,
           AnalyzeThrows, PersistSentiment
    <2>2. QED
      BY <2>1, ReviewWrites DEF Next, vars, SubmitStep, SubmitThrows, Receive, Boot, Start,
           Activate, Stop, Close, Crash
  <1>2. QED
    BY <1>1 DEF Fault

LEMMA FaultsOnlyGrow ==
  ASSUME IInv, [Next]_vars PROVE faults > 0 => faults' > 0
  BY FaultsMove DEF IInv, RunsTypeOK

LEMMA EventsAppend ==
  ASSUME IInv, [Next]_vars
  PROVE  \/ events' = events
         \/ \E r \in Jobs, type \in EventType :
                /\ AppendRunEvent(r, type)
                /\ type \in WorkerEvents => ~Unowned(r)
  <1>1. ASSUME NEW l \in Loops, LoopStep(l)
        PROVE  \/ events' = events
               \/ \E type \in EventType : /\ AppendRunEvent(loop[l].run, type)
                                         /\ loop[l].run \in Jobs /\ ~Unowned(loop[l].run)
    <2>1. loop[l].pc \in Owning => loop[l].run \in Jobs /\ ~Unowned(loop[l].run)
      BY DEF IInv, OwnershipInv, RunOfLoop, Holding, Unowned, Owns
    <2>2. {"RUN_CLAIMED", "LLM_STARTED", "LLM_COMPLETED", "REVIEW_REQUIRED",
           "RUN_COMPLETED", "RUN_FAILED"} \subseteq EventType
      BY DEF EventType
    <2>3. CASE LogFailed(l)
      BY <2>1, <2>2, <2>3 DEF LogFailed, Owning
    <2>4. ASSUME NEW from \in Owning, NEW type \in EventType, NEW to, LogStep(l, from, type, to)
          PROVE  \/ events' = events
                 \/ /\ AppendRunEvent(loop[l].run, type)
                    /\ loop[l].run \in Jobs /\ ~Unowned(loop[l].run)
      BY <2>1, <2>4 DEF LogStep
    <2>5. CASE LogClaimed(l) \/ LogStarted(l) \/ LogAnalyzed(l) \/ LogReviewRequired(l)
                 \/ LogCompleted(l)
      BY <2>2, <2>4, <2>5 DEF LogClaimed, LogStarted, LogAnalyzed, LogReviewRequired,
           LogCompleted, Owning, InTry
    <2>6. QED
      BY <1>1, <2>3, <2>5 DEF LoopStep, Claim, Process, LeaveLoop, LockQueued, Idle, vars,
           CommitClaim, SaveStep, SaveCompleted, SaveFailed, FetchJob, AnalyzeReturns,
           AnalyzeThrows, PersistSentiment
  <1>2. /\ {"RUN_CREATED", "PII_MASKED"} \subseteq EventType
        /\ "RUN_CREATED" \notin WorkerEvents /\ "PII_MASKED" \notin WorkerEvents
    BY DEF EventType, WorkerEvents
  <1>3. ASSUME NEW j \in Jobs, SubmitStep(j) \/ SubmitThrows(j) \/ \E w \in Workers : Receive(j, w)
        PROVE  \/ events' = events
               \/ AppendRunEvent(j, "RUN_CREATED") \/ AppendRunEvent(j, "PII_MASKED")
    BY <1>3 DEF SubmitStep, SubmitThrows, SubmitWrite, Receive
  <1>4. CASE \E j \in Jobs : SubmitStep(j) \/ SubmitThrows(j) \/ \E w \in Workers : Receive(j, w)
    BY <1>2, <1>3, <1>4
  <1>5. CASE \E l \in Loops : LoopStep(l)
    BY <1>1, <1>5
  <1>6. CASE \E a \in Reviews : Review(a)
    <2>1. AnalystEvents \subseteq EventType /\ AnalystEvents \cap WorkerEvents = {}
      BY DEF AnalystEvents, EventType, WorkerEvents
    <2>2. QED
      BY <1>6, <2>1, ReviewWrites
  <1>7. QED
    BY <1>4, <1>5, <1>6 DEF Next, vars, Boot, Start, Activate, Stop, Close, Crash

LEMMA LoggedGrows ==
  ASSUME IInv, [Next]_vars, NEW j \in Jobs PROVE Logged(j) \subseteq Logged(j)'
  <1>1. events' = events \/ \E r \in Jobs, type \in EventType : AppendRunEvent(r, type)
    BY EventsAppend
  <1>2. CASE events' = events
    BY <1>2 DEF Logged
  <1>3. ASSUME NEW r \in Jobs, NEW type \in EventType, AppendRunEvent(r, type)
        PROVE  Logged(j) \subseteq Logged(j)'
    <2>1. events'[j] = events[j] \/ events'[j] = Append(events[j], type)
      BY <1>3, AppendLog
    <2>2. events[j] \in Seq(EventType)
      BY DEF IInv, RunsTypeOK, StoreTypeOK
    <2>3. \A i \in DOMAIN events[j] : i \in DOMAIN events'[j] /\ events'[j][i] = events[j][i]
      BY <2>1, <2>2, SMTT(60)
    <2>4. QED
      BY <2>3 DEF Logged
  <1>4. QED
    BY <1>1, <1>2, <1>3

(* A step of one loop leaves every other alone, or ends its process. *)
LEMMA OthersMove ==
  ASSUME IInv, NEW l \in Loops, NEW k \in Loops \ {l}, LoopStep(l)
  PROVE  loop'[k] = loop[k] \/ (loop'[k] = At("off") /\ WorkerOf[k] = WorkerOf[l])
  <1> DEFINE Moved == loop'[k] = loop[k] \/ (loop'[k] = At("off") /\ WorkerOf[k] = WorkerOf[l])
  <1>1. loop \in [Loops -> LoopState]
    BY DEF IInv, RunsTypeOK, ControlTypeOK
  <1>2. ASSUME NEW pc, Goto(l, pc) PROVE loop'[k] = loop[k]
    BY <1>1, <1>2 DEF Goto
  <1>3. GoRound(l) => loop'[k] = loop[k]
    BY <1>1 DEF GoRound
  <1>4. Throw(l) => Moved
    BY <1>2 DEF Throw, Exit
  <1>5. ASSUME NEW from, NEW type, NEW to, LogStep(l, from, type, to) PROVE Moved
    BY <1>2, <1>4, <1>5 DEF LogStep
  <1>6. ASSUME NEW from, NEW record, NEW to, SaveStep(l, from, record, to) PROVE Moved
    BY <1>2, <1>4, <1>6 DEF SaveStep
  <1>7. CASE Claim(l) \/ LeaveLoop(l)
    BY <1>1, <1>2, <1>4, <1>5, <1>7
       DEF Claim, LockQueued, Idle, vars, CommitClaim, LogClaimed, LeaveLoop
  <1>8. CASE FetchJob(l) \/ AnalyzeReturns(l) \/ AnalyzeThrows(l) \/ PersistSentiment(l)
               \/ LogFailed(l)
    BY <1>1, <1>3, <1>4, <1>8
       DEF FetchJob, AnalyzeReturns, AnalyzeThrows, PersistSentiment, LogFailed
  <1>9. QED
    BY <1>5, <1>6, <1>7, <1>8
       DEF LoopStep, Process, LogStarted, LogAnalyzed, LogReviewRequired, LogCompleted,
           SaveCompleted, SaveFailed

LEMMA LoopsMove ==
  ASSUME IInv, [Next]_vars, NEW k \in Loops
  PROVE  loop'[k] = loop[k] \/ loop'[k].pc \in {"off", "poll", "claiming"} \/ LoopStep(k)
  <1>1. ASSUME NEW l \in Loops, l # k, LoopStep(l)
        PROVE  loop'[k] = loop[k] \/ loop'[k].pc = "off"
    BY <1>1, OthersMove DEF At
  <1>2. ASSUME NEW w \in Workers, Boot(w) \/ Start(w) \/ Stop(w) \/ Close(w) \/ Crash(w)
        PROVE  loop'[k] = loop[k] \/ loop'[k].pc \in {"off", "poll"}
    BY <1>2 DEF Boot, Start, Activate, Stop, Close, Crash, Exit, At, IInv, RunsTypeOK, ControlTypeOK
  <1>3. CASE \E l \in Loops : LoopStep(l)
    BY <1>1, <1>3
  <1>4. CASE ~\E l \in Loops : LoopStep(l)
    BY <1>2, <1>4, ReviewWrites DEF Next, vars, SubmitStep, SubmitThrows, Receive
  <1>5. QED
    BY <1>3, <1>4

(* How a loop comes to the catch block, and to the sentiment store. *)
LEMMA LoopArrives ==
  ASSUME IInv, [Next]_vars, NEW l \in Loops, loop'[l] # loop[l]
  PROVE  /\ loop'[l].pc = "fail" =>
               /\ loop'[l].run = loop[l].run
               /\ Fault \/ (loop[l].pc = "engine" /\ UNCHANGED job)
         /\ loop'[l].pc = "persist" =>
               /\ loop'[l].run = loop[l].run /\ loop[l].run \in Jobs
               /\ AppendRunEvent(loop[l].run, "RUN_COMPLETED")
  <1> SUFFICES ASSUME loop'[l].pc \in {"fail", "persist"} PROVE
         /\ loop'[l].pc = "fail" =>
               /\ loop'[l].run = loop[l].run
               /\ Fault \/ (loop[l].pc = "engine" /\ UNCHANGED job)
         /\ loop'[l].pc = "persist" =>
               /\ loop'[l].run = loop[l].run /\ loop[l].run \in Jobs
               /\ AppendRunEvent(loop[l].run, "RUN_COMPLETED")
    OBVIOUS
  <1>1. LoopStep(l) /\ loop \in [Loops -> LoopState] /\ loop[l] \in LoopState
    BY LoopsMove DEF IInv, RunsTypeOK, ControlTypeOK
  <1>2. ASSUME NEW pc \in LoopPc, Goto(l, pc)
        PROVE  loop'[l].pc = pc /\ loop'[l].run = loop[l].run
    BY <1>2, GotoKeeps
  <1>3. ASSUME Throw(l)
        PROVE  loop'[l].pc = "fail" /\ loop'[l].run = loop[l].run
    BY <1>3, ThrowKeeps DEF At
  <1>4. ~GoRound(l)
    BY <1>1 DEF GoRound, At
  <1> USE DEF LoopPc, Owning, InTry
  <1>5. ASSUME NEW from, NEW type, NEW to \in LoopPc, to # "fail", LogStep(l, from, type, to)
        PROVE  \/ loop'[l].pc = "fail" /\ loop'[l].run = loop[l].run /\ Fault
               \/ /\ loop'[l].pc = to /\ loop'[l].run = loop[l].run
                  /\ loop[l].pc = from /\ AppendRunEvent(loop[l].run, type)
    BY <1>2, <1>3, <1>5 DEF LogStep
  <1>6. ASSUME NEW from, NEW record, NEW to \in LoopPc \ {"fail", "persist"},
               SaveStep(l, from, record, to)
        PROVE  loop'[l].pc = "fail" /\ loop'[l].run = loop[l].run /\ Fault
    BY <1>2, <1>3, <1>6 DEF SaveStep
  <1>7. CASE Claim(l) \/ LeaveLoop(l)
    <2>1. ~LockQueued(l) /\ ~LeaveLoop(l) /\ ~Idle(l)
      BY <1>1 DEF LockQueued, LeaveLoop, Idle, vars, At
    <2>2. CommitClaim(l) => loop'[l].pc = "fail" /\ loop'[l].run = loop[l].run /\ Fault
      BY <1>2, <1>3 DEF CommitClaim
    <2>3. QED
      BY <1>5, <1>7, <2>1, <2>2 DEF Claim, LogClaimed
  <1>8. CASE FetchJob(l) \/ AnalyzeReturns(l) \/ AnalyzeThrows(l) \/ PersistSentiment(l) \/ LogFailed(l)
    <2>1. FetchJob(l) \/ LogFailed(l) => loop'[l].pc = "fail" /\ loop'[l].run = loop[l].run /\ Fault
      BY <1>1, <1>3, <1>4 DEF FetchJob, LogFailed, LoopState
    <2>2. ~AnalyzeReturns(l) /\ ~PersistSentiment(l)
      BY <1>1, <1>4 DEF AnalyzeReturns, PersistSentiment, LoopState
    <2>3. QED
      BY <1>3, <1>8, <2>1, <2>2 DEF AnalyzeThrows
  <1>9. CASE LogCompleted(l)
    <2>1. \/ loop'[l].pc = "fail" /\ loop'[l].run = loop[l].run /\ Fault
          \/ /\ loop'[l].pc = "persist" /\ loop'[l].run = loop[l].run
             /\ loop[l].pc = "announce" /\ AppendRunEvent(loop[l].run, "RUN_COMPLETED")
      BY <1>5, <1>9 DEF LogCompleted
    <2>2. QED
      BY <2>1 DEF IInv, OwnershipInv, RunOfLoop, Holding
  <1>10. CASE LogStarted(l) \/ LogAnalyzed(l) \/ LogReviewRequired(l)
    BY <1>5, <1>10 DEF LogStarted, LogAnalyzed, LogReviewRequired
  <1>11. CASE SaveCompleted(l) \/ SaveFailed(l)
    BY <1>6, <1>11 DEF SaveCompleted, SaveFailed
  <1>12. QED
    BY <1>1, <1>7, <1>8, <1>9, <1>10, <1>11 DEF LoopStep, Process

(* How a loop comes to announce an end it has saved.                       *)
LEMMA LoopSaves ==
  ASSUME IInv, [Next]_vars, NEW l \in Loops, loop'[l] # loop[l]
  PROVE  /\ loop'[l].pc = "announce" =>
               job'[loop'[l].run].result = loop'[l].result /\ loop'[l].result \in EngineResults
         /\ loop'[l].pc = "announceFail" => job'[loop'[l].run].status = "FAILED"
         /\ loop'[l].pc = "persist" =>
               /\ loop[l].pc = "announce" /\ UNCHANGED job
               /\ loop'[l].run = loop[l].run /\ loop'[l].result = loop[l].result
  <1> DEFINE Goal ==
         /\ loop'[l].pc = "announce" =>
               job'[loop'[l].run].result = loop'[l].result /\ loop'[l].result \in EngineResults
         /\ loop'[l].pc = "announceFail" => job'[loop'[l].run].status = "FAILED"
         /\ loop'[l].pc = "persist" =>
               /\ loop[l].pc = "announce" /\ UNCHANGED job
               /\ loop'[l].run = loop[l].run /\ loop'[l].result = loop[l].result
  <1> SUFFICES ASSUME loop'[l].pc \in {"announce", "announceFail", "persist"} PROVE Goal
    OBVIOUS
  <1>1. /\ LoopStep(l) /\ loop \in [Loops -> LoopState] /\ loop[l] \in LoopState
        /\ RunOfLoop(l)
    BY LoopsMove DEF IInv, RunsTypeOK, ControlTypeOK, OwnershipInv
  <1>2. ASSUME NEW pc \in LoopPc, Goto(l, pc)
        PROVE  loop'[l].pc = pc /\ loop'[l].run = loop[l].run /\ loop'[l].result = loop[l].result
    BY <1>2, GotoKeeps
  <1>3. ~Throw(l)
    BY ThrowKeeps DEF At
  <1>4. ~GoRound(l)
    BY <1>1 DEF GoRound, At
  <1> HIDE DEF Goal
  <1>5. ASSUME NEW from, NEW type, NEW to \in LoopPc, LogStep(l, from, type, to)
        PROVE  /\ loop'[l].pc = to /\ loop[l].pc = from /\ UNCHANGED job
               /\ loop'[l].run = loop[l].run /\ loop'[l].result = loop[l].result
    BY <1>2, <1>3, <1>5 DEF LogStep
  <1>6. ASSUME NEW from, NEW record, NEW to \in LoopPc, SaveStep(l, from, record, to)
        PROVE  /\ loop'[l].pc = to /\ loop[l].pc = from /\ UpdateJob(loop[l].run, record)
               /\ loop'[l].run = loop[l].run /\ loop'[l].result = loop[l].result
    BY <1>2, <1>3, <1>6 DEF SaveStep
  <1> USE DEF LoopPc, Owning, InTry
  <1>7. ~Claim(l) /\ ~LeaveLoop(l)
    <2>1. ~LockQueued(l) /\ ~LeaveLoop(l) /\ ~Idle(l)
      BY <1>1 DEF LockQueued, LeaveLoop, Idle, vars, At
    <2>2. ~CommitClaim(l)
      BY <1>2, <1>3 DEF CommitClaim
    <2>3. ~LogClaimed(l)
      BY <1>5 DEF LogClaimed
    <2>4. QED
      BY <2>1, <2>2, <2>3 DEF Claim
  <1>8. /\ ~FetchJob(l) /\ ~AnalyzeReturns(l) /\ ~AnalyzeThrows(l) /\ ~PersistSentiment(l)
        /\ ~LogFailed(l)
    BY <1>1, <1>3, <1>4
       DEF FetchJob, AnalyzeReturns, AnalyzeThrows, PersistSentiment, LogFailed, LoopState
  <1>9. ~LogStarted(l) /\ ~LogAnalyzed(l) /\ ~LogReviewRequired(l)
    BY <1>5 DEF LogStarted, LogAnalyzed, LogReviewRequired
  <1>10. CASE LogCompleted(l)
    BY <1>5, <1>10 DEF LogCompleted, Goal
  <1>11. CompletedRecord(l) \in JobRecord /\ FailedRecord(l) \in JobRecord
    BY EndRecordType DEF IInv, RunsTypeOK
  <1>12. CASE SaveCompleted(l)
    <2>1. /\ loop'[l].pc = "announce" /\ loop[l].pc = "complete"
          /\ UpdateJob(loop[l].run, CompletedRecord(l))
          /\ loop'[l].run = loop[l].run /\ loop'[l].result = loop[l].result
      BY <1>6, <1>12 DEF SaveCompleted
    <2>2. loop[l].run \in Jobs /\ loop[l].result \in EngineResults
      BY <1>1, <2>1 DEF RunOfLoop, Holding
    <2>3. job'[loop[l].run].result = loop[l].result
      BY <1>11, <2>1, <2>2, UpdateFields, EndRecordFields
    <2>4. QED
      BY <2>1, <2>2, <2>3 DEF Goal
  <1>13. CASE SaveFailed(l)
    <2>1. /\ loop'[l].pc = "announceFail" /\ loop[l].pc = "fail"
          /\ UpdateJob(loop[l].run, FailedRecord(l)) /\ loop'[l].run = loop[l].run
      BY <1>6, <1>13 DEF SaveFailed
    <2>2. loop[l].run \in Jobs
      BY <1>1, <2>1 DEF RunOfLoop, Holding
    <2>3. job'[loop[l].run].status = "FAILED"
      BY <1>11, <2>1, <2>2, UpdateFields, EndRecordFields
    <2>4. QED
      BY <2>1, <2>3 DEF Goal
  <1>14. QED
    BY <1>1, <1>7, <1>8, <1>9, <1>10, <1>12, <1>13 DEF LoopStep, Process

(* What may happen to the row of a settled run.                            *)
LEMMA SettledRow ==
  ASSUME IInv, [Next]_vars, NEW j \in Jobs, job[j].status \in Terminal
  PROVE  \/ job'[j] = job[j]
         \/ /\ job[j].status = "COMPLETED" /\ job'[j].status = "FAILED"
            /\ \E l \in Loops : Owns(l, j) /\ loop[l].pc = "fail"
         \/ \E a \in Reviews :
               /\ Saving(a, j) /\ UNCHANGED loop /\ job'[j].status = "COMPLETED"
               /\ AnalysisOf[job'[j].result] = AnalysisOf[review[a].existing.result]
  <1>1. ASSUME NEW l \in Loops, Owns(l, j), loop[l].pc \in {"complete", "fail"}
        PROVE  loop[l].pc = "fail" /\ job[j].status = "COMPLETED"
    BY <1>1 DEF IInv, OwnershipInv, RunOfLoop, Owns, Working, Terminal
  <1>2. QED
    BY <1>1, RowsChange DEF RowSteps, Terminal

LEMMA CatchStep == IInv /\ KeptInv /\ [Next]_vars => CatchInv'
  <1> SUFFICES ASSUME IInv, KeptInv, [Next]_vars, NEW l \in Loops
               PROVE  /\ /\ loop'[l].pc \in {"fail", "announceFail"}
                         /\ job'[loop'[l].run].status = "COMPLETED"
                         => faults' > 0
                      /\ loop'[l].pc \in {"announce", "persist"} =>
                            AnalysisOf[job'[loop'[l].run].result] = loop'[l].result
    BY DEF CatchInv
  <1> DEFINE r == loop[l].run
  <1>0. RunOfLoop(l) /\ faults \in Nat
    BY DEF IInv, OwnershipInv, RunsTypeOK
  <1>1. CASE loop'[l] = loop[l]
    <2>1. loop[l].pc \in Owning => r \in Jobs /\ \A k \in Loops : Owns(k, r) => k = l
      BY <1>0 DEF RunOfLoop, IInv, OwnershipInv, OneHolder, Owns, Holding
    <2>2. CASE loop[l].pc \in {"fail", "announceFail"} /\ job'[r].status = "COMPLETED"
      <3>1. r \in Jobs /\ job[r].status \in {"RUNNING", "COMPLETED", "FAILED"}
        BY <1>0, <2>1, <2>2 DEF RunOfLoop, Owning, Terminal
      <3>2. job[r].status = "COMPLETED" => faults > 0
        BY <2>2 DEF KeptInv, CatchInv
      <3>3. ASSUME job[r].status = "FAILED" PROVE faults > 0
        <4>1. PICK a \in Reviews : Saving(a, r)
          BY <2>2, <3>1, <3>3, SettledRow DEF Terminal
        <4>2. QED
          BY <3>1, <3>3, <4>1 DEF KeptInv, CopiesInv
      <3>4. job[r].status # "RUNNING"
        <4>1. ~\E k \in Loops : Owns(k, r) /\ loop[k].pc = "complete"
          BY <2>1, <2>2 DEF Owning
        <4>2. QED
          BY <2>2, <3>1, <4>1, RowsChange DEF RowSteps, Terminal
      <3>5. faults > 0
        BY <3>1, <3>2, <3>3, <3>4
      <3>6. QED
        BY <1>1, <2>2, <3>5, FaultsOnlyGrow
    <2>3. CASE loop[l].pc \in {"announce", "persist"}
      <3>1. r \in Jobs /\ job[r].status = "COMPLETED" /\ AnalysisOf[job[r].result] = loop[l].result
        <4>1. r \in Jobs /\ job[r].status = "COMPLETED"
          BY <1>0, <2>3 DEF RunOfLoop, Holding, Owning, InTry
        <4>2. QED
          BY <2>3, <4>1 DEF KeptInv, CatchInv
      <3>2. ~\E k \in Loops : Owns(k, r) /\ loop[k].pc = "fail"
        BY <2>1, <2>3 DEF Owning, InTry
      <3>3. ASSUME NEW a \in Reviews, Saving(a, r),
                   AnalysisOf[job'[r].result] = AnalysisOf[review[a].existing.result]
            PROVE  AnalysisOf[job'[r].result] = loop[l].result
        BY <3>1, <3>3 DEF KeptInv, CopiesInv
      <3>4. job[r].status \in Terminal
        BY <3>1 DEF Terminal
      <3>5. AnalysisOf[job'[r].result] = loop[l].result
        BY <3>1, <3>2, <3>3, <3>4, SettledRow
      <3>6. QED
        BY <1>1, <2>3, <3>5
    <2>4. QED
      BY <1>1, <2>2, <2>3
  <1>2. CASE loop'[l] # loop[l]
    <2>1. CASE loop'[l].pc = "fail" /\ job'[loop'[l].run].status = "COMPLETED"
      <3>1. /\ loop'[l].run = loop[l].run
            /\ Fault \/ (loop[l].pc = "engine" /\ UNCHANGED job)
        BY <1>2, <2>1, LoopArrives
      <3>2. loop[l].pc = "engine" => job[loop[l].run].status = "RUNNING"
        BY <1>0 DEF RunOfLoop, Working
      <3>3. Fault
        BY <2>1, <3>1, <3>2
      <3>4. QED
        BY <1>0, <2>1, <3>3 DEF Fault
    <2>2. loop'[l].pc = "announceFail" => job'[loop'[l].run].status = "FAILED"
      BY <1>2, LoopSaves
    <2>3. CASE loop'[l].pc = "announce"
      <3>1. job'[loop'[l].run].result = loop'[l].result /\ loop'[l].result \in EngineResults
        BY <1>2, <2>3, LoopSaves
      <3>2. QED
        BY <2>3, <3>1, AnalystAssumption
    <2>4. CASE loop'[l].pc = "persist"
      <3>1. /\ loop[l].pc = "announce" /\ UNCHANGED job
            /\ loop'[l].run = loop[l].run /\ loop'[l].result = loop[l].result
        BY <1>2, <2>4, LoopSaves
      <3>2. QED
        BY <2>4, <3>1 DEF KeptInv, CatchInv
    <2>5. QED
      BY <2>1, <2>2, <2>3, <2>4
  <1>3. QED
    BY <1>1, <1>2

(* A request has a copy because it had it, or because it reads now.        *)
LEMMA CopyKept ==
  ASSUME IInv, [Next]_vars, NEW a \in Reviews, NEW j \in Jobs, Saving(a, j)'
  PROVE  \/ Saving(a, j) /\ review'[a] = review[a]
         \/ /\ UNCHANGED job /\ job[j].status = "COMPLETED"
            /\ review'[a].existing = job[j] /\ \A b \in Reviews \ {a} : review'[b] = review[b]
  <1>1. review \in [Reviews -> ReviewState] /\ review[a] \in ReviewState
    BY DEF IInv, ReviewsTypeOK
  <1>2. review'[a] # Unasked("over") /\ review'[a].pc = "save" /\ review'[a].run = j
    BY DEF Saving, Unasked
  <1>3. ~RefuseReview(a)
    BY <1>1, <1>2 DEF RefuseReview, EndReview
  <1>4. ~SaveReview(a) /\ ~LogReview(a)
    BY <1>1, <1>2, ReviewGoes DEF ReviewState
  <1>5. CASE ReadReviewed(a)
    <2>1. \A b \in Reviews \ {a} : review'[b] = review[b]
      BY <1>5, ReviewWrites DEF Review
    <2>2. PICK w \in Workers, i \in Jobs :
            /\ job[i].status = "COMPLETED" /\ job[i].result # NoResult /\ UNCHANGED job
            /\ review'[a] = [pc |-> "save", host |-> w, run |-> i, existing |-> job[i],
                             logged |-> 0]
      BY <1>5, ReviewReads
    <2>3. QED
      BY <1>2, <2>1, <2>2
  <1>6. CASE ~ReadReviewed(a)
    BY <1>2, <1>3, <1>4, <1>6, ReviewsMove DEF Saving, Review
  <1>7. QED
    BY <1>5, <1>6

LEMMA CopiesStep == IInv /\ KeptInv /\ [Next]_vars => CopiesInv'
  <1> DEFINE analysis(a) == AnalysisOf[review[a].existing.result]
  <1> SUFFICES ASSUME IInv, KeptInv, [Next]_vars, NEW a \in Reviews, NEW j \in Jobs,
                      Saving(a, j)'
               PROVE  /\ job'[j].status = "FAILED" => faults' > 0
                      /\ job'[j].status = "COMPLETED" => AnalysisOf[job'[j].result] = analysis(a)'
                      /\ \A b \in Reviews : Saving(b, j)' => analysis(b)' = analysis(a)'
    BY DEF CopiesInv
  <1>1. CASE Saving(a, j) /\ review'[a] = review[a]
    <2>1. /\ job[j].status \in Terminal
          /\ job[j].status = "FAILED" => faults > 0
          /\ job[j].status = "COMPLETED" => AnalysisOf[job[j].result] = analysis(a)
          /\ \A b \in Reviews : Saving(b, j) => analysis(b) = analysis(a)
      <3>1. job[j].status \in Terminal
        BY <1>1 DEF IInv, ReviewsInv, ReviewHolds, Saving
      <3>2. job[j].status = "FAILED" => faults > 0
        BY <1>1 DEF KeptInv, CopiesInv
      <3>3. job[j].status = "COMPLETED" => AnalysisOf[job[j].result] = analysis(a)
        BY <1>1 DEF KeptInv, CopiesInv
      <3>4. \A b \in Reviews : Saving(b, j) => analysis(b) = analysis(a)
        BY <1>1 DEF KeptInv, CopiesInv
      <3>5. QED
        BY <3>1, <3>2, <3>3, <3>4
    <2>2. ASSUME NEW l \in Loops, Owns(l, j), loop[l].pc = "fail", job[j].status = "COMPLETED"
          PROVE  faults' > 0
      BY <2>2, FaultsOnlyGrow DEF Owns, KeptInv, CatchInv
    <2>3. /\ job'[j].status = "FAILED" => faults' > 0
          /\ job'[j].status = "COMPLETED" => AnalysisOf[job'[j].result] = analysis(a)'
      <3> HIDE DEF analysis
      <3>1. analysis(a)' = analysis(a)
        BY <1>1 DEF analysis
      <3>2. ASSUME NEW c \in Reviews, Saving(c, j),
                   AnalysisOf[job'[j].result] = AnalysisOf[review[c].existing.result]
            PROVE  AnalysisOf[job'[j].result] = analysis(a)
        BY <2>1, <3>2 DEF analysis
      <3>3. CASE job'[j] = job[j]
        BY <2>1, <3>1, <3>3, FaultsOnlyGrow
      <3>4. QED
        BY <2>1, <2>2, <3>1, <3>2, <3>3, SettledRow DEF Terminal
    <2>4. ASSUME NEW b \in Reviews, Saving(b, j)' PROVE analysis(b)' = analysis(a)'
      <3>1. CASE Saving(b, j) /\ review'[b] = review[b]
        BY <1>1, <2>1, <3>1
      <3>2. CASE job[j].status = "COMPLETED" /\ review'[b].existing = job[j]
        BY <1>1, <2>1, <3>2
      <3>3. QED
        BY <2>4, <3>1, <3>2, CopyKept
    <2>5. QED
      BY <2>3, <2>4
  <1>2. CASE /\ UNCHANGED job /\ job[j].status = "COMPLETED"
             /\ review'[a].existing = job[j] /\ \A b \in Reviews \ {a} : review'[b] = review[b]
    <2>1. ASSUME NEW b \in Reviews \ {a}, Saving(b, j)' PROVE analysis(b)' = analysis(a)'
      <3>1. Saving(b, j) /\ review'[b] = review[b]
        BY <1>2, <2>1 DEF Saving
      <3>2. AnalysisOf[job[j].result] = analysis(b)
        BY <1>2, <3>1 DEF KeptInv, CopiesInv
      <3>3. QED
        BY <1>2, <3>1, <3>2
    <2>2. QED
      BY <1>2, <2>1
  <1>3. QED
    BY <1>1, <1>2, CopyKept

LEMMA KeptHolds == Spec => []KeptInv
  <1>1. Init => KeptInv
    BY DEF Init, KeptInv, CatchInv, CopiesInv, Saving, Unasked, At
  <1>2. IInv /\ KeptInv /\ [Next]_vars => KeptInv'
    BY CatchStep, CopiesStep DEF KeptInv
  <1>3. QED
    BY <1>1, <1>2, Inductive, PTL DEF Spec

(* A settled run keeps what was analysed: its own loop may take back its   *)
(* completion after a fault, and an analyst's request may write it again,  *)
(* with a copy of the same analysis, and over a FAILED row only after a    *)
(* fault; in every interleaving of workers, requests, restarts and crashes.*)
THEOREM SettledStaysSettled == Spec => SettledIsKept
  <1> DEFINE Kept1(j) ==
          \/ /\ job[j].status = "COMPLETED" /\ job'[j].status = "FAILED"
             /\ faults > 0 /\ ~Unowned(j)
          \/ /\ job'[j].status = "COMPLETED" /\ \E a \in Reviews : Saving(a, j)
             /\ IF job[j].status = "FAILED" THEN faults > 0
                ELSE AnalysisOf[job'[j].result] = AnalysisOf[job[j].result]
  <1>1. IInv /\ KeptInv /\ [Next]_vars
          => [\A j \in Jobs : job[j].status \in Terminal /\ job'[j] # job[j] => Kept1(j)]_vars
    <2> SUFFICES ASSUME IInv, KeptInv, [Next]_vars, NEW j \in Jobs,
                        job[j].status \in Terminal, job'[j] # job[j]
                 PROVE  Kept1(j)
      OBVIOUS
    <2>1. ASSUME NEW l \in Loops, Owns(l, j), loop[l].pc = "fail", job[j].status = "COMPLETED"
          PROVE  faults > 0 /\ ~Unowned(j)
      BY <2>1 DEF Owns, Unowned, KeptInv, CatchInv
    <2>2. ASSUME NEW a \in Reviews, Saving(a, j), job'[j].status = "COMPLETED",
                 AnalysisOf[job'[j].result] = AnalysisOf[review[a].existing.result]
          PROVE  Kept1(j)
      BY <2>2 DEF KeptInv, CopiesInv, Terminal
    <2>3. QED
      BY <2>1, <2>2, SettledRow
  <1>2. QED
    BY <1>1, KeptHolds, Inductive, PTL DEF Spec, SettledIsKept
-----------------------------------------------------------------------------
(* A loop owns a run only if it held that run before. *)
LEMMA OwnersHeld ==
  ASSUME IInv, [Next]_vars, NEW l \in Loops, loop'[l].pc \in Owning
  PROVE  loop'[l].run = loop[l].run /\ loop[l].pc \in Holding
  <1>1. CASE loop'[l] = loop[l]
    BY <1>1 DEF Holding
  <1>2. CASE loop'[l] # loop[l]
    <2>1. LoopStep(l) /\ loop \in [Loops -> LoopState] /\ loop[l] \in LoopState
      BY <1>2, LoopsMove DEF Owning, InTry, IInv, RunsTypeOK, ControlTypeOK
    <2>2. ASSUME NEW pc, Goto(l, pc) PROVE loop'[l].run = loop[l].run
      BY <2>1, <2>2 DEF Goto, LoopState
    <2>3. Throw(l) => loop'[l].run = loop[l].run
      BY ThrowKeeps DEF At, Owning, InTry
    <2>4. ~GoRound(l)
      BY <2>1 DEF GoRound, At, Owning, InTry
    <2>5. ASSUME NEW from \in Holding, NEW type, NEW to, LogStep(l, from, type, to)
          PROVE  loop'[l].run = loop[l].run /\ loop[l].pc \in Holding
      BY <2>2, <2>3, <2>5 DEF LogStep
    <2>6. ASSUME NEW from \in Holding, NEW record, NEW to, SaveStep(l, from, record, to)
          PROVE  loop'[l].run = loop[l].run /\ loop[l].pc \in Holding
      BY <2>2, <2>3, <2>6 DEF SaveStep
    <2>7. ~LockQueued(l) /\ ~LeaveLoop(l) /\ ~Idle(l)
      BY <1>2, <2>1 DEF LockQueued, LeaveLoop, Idle, vars, At, Owning, InTry
    <2>8. CommitClaim(l) => loop'[l].run = loop[l].run /\ loop[l].pc \in Holding
      BY <2>2, <2>3 DEF CommitClaim, Holding
    <2>9. FetchJob(l) \/ AnalyzeReturns(l) => loop'[l].run = loop[l].run /\ loop[l].pc \in Holding
      BY <2>1, <2>3 DEF FetchJob, AnalyzeReturns, LoopState, Holding, Owning, InTry
    <2>10. AnalyzeThrows(l) \/ PersistSentiment(l) \/ LogFailed(l)
              => loop'[l].run = loop[l].run /\ loop[l].pc \in Holding
      BY <2>3, <2>4 DEF AnalyzeThrows, PersistSentiment, LogFailed, Holding, Owning, InTry
    <2>11. LogClaimed(l) \/ LogStarted(l) \/ LogAnalyzed(l) \/ LogReviewRequired(l) \/ LogCompleted(l)
              => loop'[l].run = loop[l].run /\ loop[l].pc \in Holding
      BY <2>5 DEF LogClaimed, LogStarted, LogAnalyzed, LogReviewRequired, LogCompleted,
           Holding, Owning, InTry
    <2>12. SaveCompleted(l) \/ SaveFailed(l) => loop'[l].run = loop[l].run /\ loop[l].pc \in Holding
      BY <2>6 DEF SaveCompleted, SaveFailed, Holding, Owning, InTry
    <2>13. QED
      BY <2>1, <2>7, <2>8, <2>9, <2>10, <2>11, <2>12 DEF LoopStep, Claim, Process
  <1>3. QED
    BY <1>1, <1>2

(* A run that no loop owned, and that is not in the queue, keeps its row   *)
(* or is written COMPLETED by a request, and is not owned after the step.  *)
LEMMA LetGo ==
  ASSUME IInv, [Next]_vars, NEW j \in Jobs, Unowned(j), job[j].status \notin {"ABSENT", "QUEUED"}
  PROVE  (job'[j] = job[j] \/ job'[j].status = "COMPLETED") /\ Unowned(j)'
  <1>1. job'[j] = job[j] \/ job'[j].status = "COMPLETED"
    BY RowsChange DEF RowSteps, Unowned
  <1>2. ASSUME NEW l \in Loops, Owns(l, j)' PROVE FALSE
    <2>1. loop[l].run = j /\ loop[l].pc \in Holding
      BY <1>2, OwnersHeld DEF Owns
    <2>2. loop[l].pc = "claiming"
      BY <2>1 DEF Unowned, Owns, Holding
    <2>3. QED
      BY <2>1, <2>2 DEF IInv, OwnershipInv, RunOfLoop
  <1>3. QED
    BY <1>1, <1>2 DEF Unowned

LEMMA RowsOfSentiment ==
  ASSUME IInv, [Next]_vars, NEW j \in sentiment', j \notin sentiment
  PROVE  \E l \in Loops : /\ loop[l].pc = "persist" /\ loop[l].run = j
                          /\ loop' = [loop EXCEPT ![l] = At("poll")] /\ UNCHANGED job
  <1>1. \A l \in Loops : PersistSentiment(l) => loop[l].run = j
    BY DEF PersistSentiment
  <1>2. \E l \in Loops : PersistSentiment(l)
    BY ReviewWrites
       DEF Next, vars, SubmitStep, SubmitThrows, Receive, Boot, Start, Activate, Stop, Close,
         Crash, LoopStep, Claim, Process, LeaveLoop, LockQueued, Idle, CommitClaim, LogClaimed,
         LogStarted, LogAnalyzed, LogReviewRequired, LogCompleted, LogFailed, LogStep, SaveStep,
         SaveCompleted, SaveFailed, FetchJob, AnalyzeReturns, AnalyzeThrows
  <1>3. QED
    BY <1>1, <1>2 DEF PersistSentiment, GoRound

LEMMA AnnouncedStep == IInv /\ AnnouncedInv /\ [Next]_vars => AnnouncedInv'
  <1> SUFFICES ASSUME IInv, AnnouncedInv, [Next]_vars PROVE AnnouncedInv'
    OBVIOUS
  <1>1. ASSUME NEW j \in sentiment'
        PROVE  job'[j].status = "COMPLETED" /\ Unowned(j)' /\ "RUN_COMPLETED" \in Logged(j)'
    <2>1. CASE j \in sentiment
      <3>1. j \in Jobs /\ Unowned(j) /\ job[j].status = "COMPLETED" /\ "RUN_COMPLETED" \in Logged(j)
        BY <2>1 DEF IInv, RunsTypeOK, AnnouncedInv
      <3>2. QED
        BY <3>1, LetGo, LoggedGrows
    <2>2. CASE j \notin sentiment
      <3>1. PICK l \in Loops : /\ loop[l].pc = "persist" /\ loop[l].run = j
                               /\ loop' = [loop EXCEPT ![l] = At("poll")] /\ UNCHANGED job
        BY <2>2, RowsOfSentiment
      <3>2. /\ j \in Jobs /\ job[j].status = "COMPLETED" /\ loop \in [Loops -> LoopState]
            /\ \A k \in Loops \ {l} : ~Owns(k, j)
        BY <3>1 DEF IInv, RunsTypeOK, ControlTypeOK, OwnershipInv, RunOfLoop, OneHolder, Owns,
             Holding, Owning, InTry
      <3>3. Unowned(j)'
        BY <3>1, <3>2 DEF Unowned, Owns, At, Owning, InTry
      <3>4. "RUN_COMPLETED" \in Logged(j)'
        BY <3>1, <3>2, LoggedGrows DEF AnnouncedInv
      <3>5. QED
        BY <3>1, <3>2, <3>3, <3>4
    <2>3. QED
      BY <2>1, <2>2
  <1>2. ASSUME NEW l \in Loops, loop'[l].pc = "persist"
        PROVE  ("RUN_COMPLETED" \in Logged(loop[l].run))'
    <2>1. CASE loop'[l] = loop[l]
      <3>1. loop[l].run \in Jobs /\ "RUN_COMPLETED" \in Logged(loop[l].run)
        BY <1>2, <2>1 DEF IInv, OwnershipInv, RunOfLoop, Holding, Owning, InTry, AnnouncedInv
      <3>2. QED
        BY <2>1, <3>1, LoggedGrows
    <2>2. CASE loop'[l] # loop[l]
      <3> DEFINE r == loop[l].run
      <3>1. loop'[l].run = r /\ r \in Jobs /\ AppendRunEvent(r, "RUN_COMPLETED")
        BY <1>2, <2>2, LoopArrives
      <3>2. events[r] \in Seq(EventType) /\ "RUN_COMPLETED" \in EventType
        BY <3>1 DEF EventType, IInv, RunsTypeOK, StoreTypeOK
      <3>3. events'[r] = Append(events[r], "RUN_COMPLETED")
        BY <3>1, <3>2, AppendLog
      <3>4. Len(events[r]) + 1 \in DOMAIN events'[r] /\ events'[r][Len(events[r]) + 1] = "RUN_COMPLETED"
        BY <3>2, <3>3
      <3>5. QED
        BY <3>1, <3>4 DEF Logged
    <2>3. QED
      BY <2>1, <2>2
  <1>3. QED
    BY <1>1, <1>2 DEF AnnouncedInv

(* Rows of the sentiment store belong to runs that are COMPLETED and were  *)
(* announced, and never outlive the completion: whatever fails, and        *)
(* whoever restarts, in between.                                           *)
THEOREM SentimentFollowsCompletion == Spec => []SentimentOfCompletedRuns
  <1>1. Init => AnnouncedInv
    BY DEF Init, AnnouncedInv, At
  <1>2. AnnouncedInv => SentimentOfCompletedRuns
    BY DEF AnnouncedInv, SentimentOfCompletedRuns
  <1>3. QED
    BY <1>1, <1>2, AnnouncedStep, Inductive, PTL DEF Spec
-----------------------------------------------------------------------------
(* With one loop for each worker, the latest loop of a live process is its *)
(* only one: the loop whose end close() waits for is the one that may hold *)
(* a run.                                                                  *)
LatestLoops == \A w \in Workers :
    process[w].up => process[w].latest \in Loops /\ WorkerOf[process[w].latest] = w

(* The runs left behind are finite in number, and no more than the faults. *)
DrainInv == LatestLoops /\ IsFiniteSet(Orphans) /\ Cardinality(Orphans) <= faults

LEMMA LatestStep == IInv /\ LatestLoops /\ [Next]_vars => LatestLoops'
  <1> SUFFICES ASSUME IInv, LatestLoops, [Next]_vars, NEW w \in Workers, process'[w].up
               PROVE  process'[w].latest \in Loops /\ WorkerOf[process'[w].latest] = w
    BY DEF LatestLoops
  <1>1. process \in [Workers -> [up : BOOLEAN, running : BOOLEAN, latest : Loops \cup {NoLoop}]]
    BY DEF IInv, RunsTypeOK, ControlTypeOK
  <1>2. ASSUME NEW v \in Workers, Exit(v) \/ Stop(v)
        PROVE  process[w].up /\ process'[w].latest = process[w].latest
    BY <1>1, <1>2 DEF Exit, Stop, Down
  <1>3. ASSUME NEW v \in Workers, NEW l \in Loops, Activate(v, l)
        PROVE  process'[w].latest \in Loops /\ WorkerOf[process'[w].latest] = w
    BY <1>1, <1>3 DEF Activate, LatestLoops
  <1>4. ASSUME NEW l \in Loops, LoopStep(l)
        PROVE  process' = process \/ \E v \in Workers : Exit(v)
    <2>1. WorkerOf[l] \in Workers
      OBVIOUS
    <2>2. Throw(l) => process' = process \/ \E v \in Workers : Exit(v)
      BY <2>1 DEF Throw, Goto
    <2>3. QED
      BY <1>4, <2>2 DEF LoopStep, Claim, Process, LeaveLoop, LockQueued, Idle, vars, CommitClaim,
         LogClaimed, LogStarted, LogAnalyzed, LogReviewRequired, LogCompleted, LogFailed, LogStep,
         SaveStep, SaveCompleted, SaveFailed, FetchJob, AnalyzeReturns, AnalyzeThrows,
         PersistSentiment, Goto, GoRound
  <1>5. \/ process' = process
        \/ \E v \in Workers : Exit(v) \/ Stop(v) \/ \E l \in Loops : Activate(v, l)
    BY <1>4, ReviewWrites DEF Next, vars, SubmitStep, SubmitThrows, Receive, Boot, Start, Close, Crash
  <1>6. QED
    BY <1>2, <1>3, <1>5 DEF LatestLoops

(* Which row a loop's step may change. *)
LEMMA LoopRows ==
  ASSUME IInv, NEW l \in Loops, LoopStep(l)
  PROVE  job' = job \/ (loop[l].pc \in Holding /\ \A j \in Jobs \ {loop[l].run} : job'[j] = job[j])
  <1>1. loop[l].pc \in Holding => loop[l].run \in Jobs
    BY DEF IInv, OwnershipInv, RunOfLoop
  <1>2. CompletedRecord(l) \in JobRecord /\ FailedRecord(l) \in JobRecord
    BY EndRecordType DEF IInv, RunsTypeOK
  <1>3. job \in [Jobs -> JobRecord]
    BY DEF IInv, RunsTypeOK, StoreTypeOK
  <1>4. CASE CommitClaim(l)
    BY <1>1, <1>3, <1>4 DEF CommitClaim, ClaimJob, Holding
  <1>5. CASE SaveCompleted(l) \/ SaveFailed(l)
    BY <1>1, <1>3, <1>5 DEF SaveCompleted, SaveFailed, SaveStep, UpdateJob, Holding, Owning, InTry
  <1>6. QED
    BY <1>4, <1>5 DEF LoopStep, Claim, Process, LeaveLoop, LockQueued, Idle, vars,
         LogClaimed, LogStarted, LogAnalyzed, LogReviewRequired, LogCompleted, LogFailed, LogStep,
         FetchJob, AnalyzeReturns, AnalyzeThrows, PersistSentiment

(* Without a fault a loop lets go of its run in two places only.           *)
LEMMA LoopFinishes ==
  ASSUME IInv, NEW l \in Loops, LoopStep(l), ~Fault
  PROVE  \/ /\ loop[l].pc \in Holding /\ loop'[l].pc \in Owning
            /\ loop'[l].run = loop[l].run
         \/ loop[l].pc = "persist" /\ loop'[l].pc = "poll" /\ UNCHANGED <<job, events>>
         \/ /\ loop[l].pc = "announceFail" /\ loop'[l].pc = "poll" /\ UNCHANGED job
            /\ AppendRunEvent(loop[l].run, "RUN_FAILED")
         \/ loop[l].pc = "poll" /\ loop'[l].pc \notin Owning /\ UNCHANGED <<job, events>>
  <1> DEFINE Goes == loop[l].pc \in Holding /\ loop'[l].pc \in Owning /\ loop'[l].run = loop[l].run
  <1>1. loop \in [Loops -> LoopState] /\ loop[l] \in LoopState
    BY DEF IInv, RunsTypeOK, ControlTypeOK
  <1>2. ASSUME NEW pc \in Owning, Goto(l, pc)
        PROVE  loop'[l].pc \in Owning /\ loop'[l].run = loop[l].run
    BY <1>2, GotoKeeps DEF LoopPc
  <1>3. GoRound(l) => loop'[l].pc = "poll"
    BY <1>1 DEF GoRound, At
  <1>4. ASSUME NEW from \in Owning, NEW type, NEW to \in Owning, LogStep(l, from, type, to)
        PROVE  Goes
    BY <1>2, <1>4 DEF LogStep, Holding
  <1>5. ASSUME NEW from \in Owning, NEW record, NEW to \in Owning, SaveStep(l, from, record, to)
        PROVE  Goes
    BY <1>2, <1>5 DEF SaveStep, Holding
  <1>6. CASE LockQueued(l) \/ Idle(l) \/ LeaveLoop(l)
    BY <1>1, <1>6 DEF LockQueued, Idle, LeaveLoop, vars, At, Owning, InTry
  <1>7. CASE CommitClaim(l)
    BY <1>2, <1>7 DEF CommitClaim, Holding, Owning
  <1>8. CASE LogClaimed(l) \/ LogStarted(l) \/ LogAnalyzed(l) \/ LogReviewRequired(l) \/ LogCompleted(l)
    BY <1>4, <1>8
       DEF LogClaimed, LogStarted, LogAnalyzed, LogReviewRequired, LogCompleted, Owning, InTry
  <1>9. CASE SaveCompleted(l) \/ SaveFailed(l)
    BY <1>5, <1>9 DEF SaveCompleted, SaveFailed, Owning, InTry
  <1>10. CASE FetchJob(l) \/ AnalyzeReturns(l)
    BY <1>1, <1>10 DEF FetchJob, AnalyzeReturns, LoopState, Holding, Owning, InTry
  <1>11. CASE AnalyzeThrows(l)
    BY <1>2, <1>11 DEF AnalyzeThrows, Throw, Holding, Owning, InTry
  <1>12. CASE PersistSentiment(l) \/ LogFailed(l)
    BY <1>3, <1>12 DEF PersistSentiment, LogFailed
  <1>13. QED
    BY <1>6, <1>7, <1>8, <1>9, <1>10, <1>11, <1>12 DEF LoopStep, Claim, Process

(* A step leaves no run behind, or it is a fault and leaves one.           *)
LEMMA OrphanComes ==
  ASSUME OneLoopPerWorker, IInv, LatestLoops, [Next]_vars
  PROVE  Orphans' \subseteq Orphans \/ (Fault /\ \E j : Orphans' \subseteq Orphans \cup {j})
  <1>0. loop \in [Loops -> LoopState]
    BY DEF IInv, RunsTypeOK, ControlTypeOK
  <1>1. ASSUME NEW l \in Loops, LoopStep(l)
        PROVE  Orphans' \subseteq Orphans \/ (Fault /\ \E j : Orphans' \subseteq Orphans \cup {j})
    <2>1. \A k \in Loops \ {l} : loop'[k] = loop[k]
      BY <1>1, OthersMove DEF OneLoopPerWorker
    <2>2. ASSUME NEW j \in Orphans', j \notin Orphans
          PROVE  loop[l].pc \in Holding /\ loop[l].run = j
      <3>1. j \in Jobs /\ job'[j].status = "RUNNING" /\ ~Owns(l, j)'
        BY <2>2 DEF Orphans, Unowned
      <3>2. CASE job'[j] = job[j]
        <4>1. PICK k \in Loops : Owns(k, j)
          BY <2>2, <3>1, <3>2 DEF Orphans, Unowned
        <4>2. k = l
          BY <2>1, <2>2, <4>1 DEF Orphans, Unowned, Owns
        <4>3. QED
          BY <4>1, <4>2 DEF Owns, Holding
      <3>3. CASE job'[j] # job[j]
        BY <1>1, <3>1, <3>3, LoopRows
      <3>4. QED
        BY <3>2, <3>3
    <2>3. CASE Fault
      BY <2>2, <2>3
    <2>4. CASE ~Fault
      <3>1. ASSUME NEW j \in Orphans', j \notin Orphans PROVE FALSE
        <4>1. /\ loop[l].pc \in Holding /\ loop[l].run = j /\ j \in Jobs
              /\ ~Owns(l, j)' /\ job'[j].status = "RUNNING"
          BY <2>2, <3>1 DEF Orphans, Unowned
        <4>2. loop[l].pc \in {"persist", "announceFail"} /\ job' = job
          BY <1>1, <2>4, <4>1, LoopFinishes DEF Owns, Holding, Owning, InTry
        <4>3. job[j].status # "RUNNING"
          BY <4>1, <4>2 DEF Terminal, IInv, OwnershipInv, RunOfLoop
        <4>4. QED
          BY <4>1, <4>2, <4>3
      <3>2. QED
        BY <3>1
    <2>5. QED
      BY <2>3, <2>4
  <1>2. ASSUME NEW w \in Workers, Crash(w) \/ Close(w)
        PROVE  Orphans' \subseteq Orphans \/ (Fault /\ \E j : Orphans' \subseteq Orphans \cup {j})
    <2> DEFINE l == process[w].latest
    <2>1. l \in Loops /\ \A k \in Loops \ {l} : WorkerOf[k] # w
      BY <1>2 DEF Crash, Close, LatestLoops, OneLoopPerWorker
    <2>2. \A k \in Loops \ {l} : loop'[k] = loop[k]
      BY <1>2, <2>1 DEF Crash, Close, Exit
    <2>3. job' = job
      BY <1>2 DEF Crash, Close
    <2>4. Orphans' \subseteq Orphans \cup {loop[l].run}
      <3> HIDE DEF l
      <3>1. QED
        BY <2>1, <2>2, <2>3 DEF Orphans, Unowned, Owns
    <2>5. CASE Crash(w)
      BY <2>4, <2>5 DEF Crash
    <2>6. CASE Close(w)
      <3>1. loop[l].pc = "off"
        BY <2>6 DEF Close
      <3> HIDE DEF l
      <3>2. QED
        BY <2>1, <2>2, <2>3, <3>1 DEF Orphans, Unowned, Owns, Owning, InTry
    <2>7. QED
      BY <1>2, <2>5, <2>6
  <1>3. ASSUME NEW w \in Workers, NEW l \in Loops, Activate(w, l) PROVE Orphans' \subseteq Orphans
    BY <1>0, <1>3 DEF Activate, Orphans, Unowned, Owns, Owning, InTry
  <1>4. ASSUME NEW j \in Jobs, SubmitStep(j) \/ SubmitThrows(j) \/ \E w \in Workers : Receive(j, w)
        PROVE  Orphans' \subseteq Orphans
    <2>1. loop' = loop /\ \A i \in Jobs : job'[i].status = "RUNNING" => job[i].status = "RUNNING"
      BY <1>4, ZenonT(60) DEF SubmitStep, SubmitThrows, SubmitWrite, Receive, CreateJob, NoJob, IInv, RunsTypeOK,
         StoreTypeOK
    <2>2. QED
      BY <2>1 DEF Orphans, Unowned, Owns
  <1>5. ASSUME NEW a \in Reviews, Review(a) PROVE Orphans' \subseteq Orphans
    <2>1. loop' = loop /\ \A i \in Jobs : job'[i] = job[i] \/ job'[i].status = "COMPLETED"
      BY <1>5, ReviewWrites, ReviewedRow
    <2>2. QED
      BY <2>1 DEF Orphans, Unowned, Owns
  <1>6. CASE UNCHANGED <<job, loop>>
    BY <1>6 DEF Orphans, Unowned, Owns
  <1>7. QED
    BY <1>1, <1>2, <1>3, <1>4, <1>5, <1>6 DEF Next, vars, Boot, Start, Stop

LEMMA DrainStep ==
  ASSUME OneLoopPerWorker PROVE IInv /\ DrainInv /\ [Next]_vars => DrainInv'
  <1> SUFFICES ASSUME IInv, DrainInv, [Next]_vars PROVE DrainInv'
    OBVIOUS
  <1>1. LatestLoops' /\ IsFiniteSet(Orphans) /\ Cardinality(Orphans) <= faults /\ faults \in Nat
    BY LatestStep DEF DrainInv, IInv, RunsTypeOK
  <1>2. CASE Orphans' \subseteq Orphans
    <2>1. IsFiniteSet(Orphans') /\ Cardinality(Orphans') <= Cardinality(Orphans)
      BY <1>1, <1>2, FS_Subset
    <2>2. Cardinality(Orphans) \in Nat /\ Cardinality(Orphans') \in Nat
      BY <1>1, <2>1, FS_CardinalityType
    <2>3. faults' = faults \/ faults' = faults + 1
      BY FaultsMove
    <2>4. QED
      BY <1>1, <2>1, <2>2, <2>3 DEF DrainInv
  <1>3. CASE Fault /\ \E j : Orphans' \subseteq Orphans \cup {j}
    <2>1. PICK j : Orphans' \subseteq Orphans \cup {j}
      BY <1>3
    <2> DEFINE More == Orphans \cup {j}
    <2>2. /\ IsFiniteSet(More)
          /\ Cardinality(More) = Cardinality(Orphans) \/ Cardinality(More) = Cardinality(Orphans) + 1
      BY <1>1, FS_AddElement
    <2> HIDE DEF More
    <2>3. IsFiniteSet(Orphans') /\ Cardinality(Orphans') <= Cardinality(More)
      BY <2>1, <2>2, FS_Subset DEF More
    <2>4. Cardinality(Orphans) \in Nat /\ Cardinality(Orphans') \in Nat /\ Cardinality(More) \in Nat
      BY <1>1, <2>2, <2>3, FS_CardinalityType
    <2>5. QED
      BY <1>1, <1>3, <2>2, <2>3, <2>4 DEF DrainInv, Fault
  <1>4. QED
    BY <1>2, <1>3, OrphanComes DEF DrainInv

(* With one loop for each worker, stop(), close() and restarts leave no    *)
(* run RUNNING behind: only faults do, one run for each fault at most.     *)
THEOREM FaultsLeaveOneOrphanEach ==
  ASSUME OneLoopPerWorker PROVE Spec => []OrphansNeedFaults
  <1>1. Init => DrainInv
    <2> SUFFICES ASSUME Init PROVE DrainInv
      OBVIOUS
    <2>1. Orphans = {}
      BY DEF Init, StoreInit, NoJob, Orphans
    <2>2. IsFiniteSet({}) /\ Cardinality({}) = 0
      BY FS_EmptySet
    <2>3. QED
      BY <2>1, <2>2 DEF Init, DrainInv, LatestLoops, Down
  <1>2. DrainInv => OrphansNeedFaults
    BY DEF DrainInv, OrphansNeedFaults
  <1>3. QED
    BY <1>1, <1>2, DrainStep, Inductive, PTL DEF Spec
-----------------------------------------------------------------------------
LEMMA UnownedLogKept ==
  ASSUME IInv, [Next]_vars, NEW j \in Jobs, Unowned(j)
  PROVE  Kept(events'[j], WorkerEvents) = Kept(events[j], WorkerEvents)
  <1>1. ASSUME NEW r \in Jobs, NEW type \in EventType, AppendRunEvent(r, type),
               type \in WorkerEvents => ~Unowned(r)
        PROVE  Kept(events'[j], WorkerEvents) = Kept(events[j], WorkerEvents)
    BY <1>1, AppendLog
  <1>2. QED
    BY <1>1, EventsAppend

(* Without a fault, a run is let go by the loop that has finished it.      *)
LEMMA QuietRelease ==
  ASSUME OneLoopPerWorker, IInv, LatestLoops, [Next]_vars, ~Fault,
         NEW j \in Jobs, NEW l \in Loops, Owns(l, j), ~Owns(l, j)'
  PROVE  /\ UNCHANGED job
         /\ \/ loop[l].pc = "persist" /\ UNCHANGED events
            \/ loop[l].pc = "announceFail" /\ AppendRunEvent(j, "RUN_FAILED")
  <1>1. loop'[l] # loop[l]
    BY DEF Owns
  <1>2. ASSUME NEW k \in Loops, LoopStep(k), k # l PROVE FALSE
    BY <1>1, <1>2, OthersMove DEF OneLoopPerWorker
  <1>3. ASSUME LoopStep(l)
        PROVE  /\ UNCHANGED job
               /\ \/ loop[l].pc = "persist" /\ UNCHANGED events
                  \/ loop[l].pc = "announceFail" /\ AppendRunEvent(j, "RUN_FAILED")
    BY <1>3, LoopFinishes DEF Owns, Owning, InTry
  <1>4. ASSUME NEW w \in Workers, Close(w) PROVE FALSE
    <2>1. process[w].latest \in Loops /\ loop[process[w].latest].pc = "off"
          /\ WorkerOf[process[w].latest] = w
      BY <1>4 DEF Close, LatestLoops
    <2>2. l # process[w].latest
      BY <2>1 DEF Owns, Owning, InTry
    <2>3. WorkerOf[l] # w
      BY <2>1, <2>2 DEF OneLoopPerWorker
    <2>4. QED
      BY <1>1, <1>4, <2>3 DEF Close, Exit
  <1>5. ASSUME NEW w \in Workers, NEW k \in Loops, Activate(w, k) PROVE FALSE
    <2>1. k # l
      BY <1>5 DEF Activate, Owns, Owning, InTry
    <2>2. QED
      BY <1>1, <1>5, <2>1 DEF Activate, IInv, RunsTypeOK, ControlTypeOK
  <1>6. QED
    BY <1>1, <1>2, <1>3, <1>4, <1>5, ReviewWrites
       DEF Next, vars, SubmitStep, SubmitThrows, Receive, Boot, Start, Stop, Crash

QuietInv == faults = 0 => \A j \in Jobs : Unowned(j) =>
    /\ job[j].status = "COMPLETED" => WorkerLog(j) = Complete(AnalysisOf[job[j].result] \in Flagged)
    /\ job[j].status = "FAILED" => WorkerLog(j) = Append(Begun, "RUN_FAILED")

LEMMA QuietStep ==
  ASSUME OneLoopPerWorker
  PROVE  IInv /\ LogInv /\ KeptInv /\ DrainInv /\ QuietInv /\ [Next]_vars => QuietInv'
  <1> SUFFICES ASSUME IInv, LogInv, KeptInv, DrainInv, QuietInv, [Next]_vars, faults' = 0,
                      NEW j \in Jobs, Unowned(j)'
               PROVE  /\ job'[j].status = "COMPLETED" =>
                            WorkerLog(j)' = Complete(AnalysisOf[job'[j].result] \in Flagged)
                      /\ job'[j].status = "FAILED" => WorkerLog(j)' = Append(Begun, "RUN_FAILED")
    BY DEF QuietInv
  <1>1. faults = 0 /\ ~Fault
    BY FaultsMove DEF IInv, RunsTypeOK, Fault
  <1>2. CASE Unowned(j)
    <2>1. WorkerLog(j)' = WorkerLog(j)
      BY <1>2, UnownedLogKept DEF WorkerLog
    <2>2. CASE job'[j] = job[j]
      BY <1>1, <1>2, <2>1, <2>2 DEF QuietInv
    <2>3. CASE job'[j] # job[j] /\ job'[j].status \in Terminal
      <3>1. PICK a \in Reviews :
              /\ Saving(a, j) /\ job[j].status \in Terminal /\ job'[j].status = "COMPLETED"
              /\ AnalysisOf[job'[j].result] = AnalysisOf[review[a].existing.result]
        BY <1>2, <2>3, RowsChange DEF RowSteps, Unowned
      <3>2. job[j].status = "COMPLETED"
        BY <1>1, <3>1 DEF KeptInv, CopiesInv, Terminal
      <3>3. AnalysisOf[job[j].result] = AnalysisOf[review[a].existing.result]
        BY <3>1, <3>2 DEF KeptInv, CopiesInv
      <3>4. WorkerLog(j) = Complete(AnalysisOf[job[j].result] \in Flagged)
        BY <1>1, <1>2, <3>2 DEF QuietInv
      <3>5. QED
        BY <2>1, <3>1, <3>3, <3>4
    <2>4. CASE job'[j].status \notin Terminal
      BY <2>4 DEF Terminal
    <2>5. QED
      BY <2>2, <2>3, <2>4
  <1>3. CASE ~Unowned(j)
    <2>1. PICK l \in Loops : Owns(l, j)
      BY <1>3 DEF Unowned
    <2>2. ~Owns(l, j)'
      BY DEF Unowned
    <2>3. /\ UNCHANGED job
          /\ \/ loop[l].pc = "persist" /\ UNCHANGED events
             \/ loop[l].pc = "announceFail" /\ AppendRunEvent(j, "RUN_FAILED")
      BY <1>1, <2>1, <2>2, QuietRelease DEF DrainInv
    <2>4. loop[l].run = j /\ RunOfLoop(l) /\ LogOfHolder(l)
      BY <2>1 DEF Owns, IInv, OwnershipInv, LogInv
    <2>5. CASE loop[l].pc = "persist"
      <3>1. /\ job[j].status = "COMPLETED" /\ AnalysisOf[job[j].result] = loop[l].result
            /\ Kept(events[j], WorkerEvents) = Complete(loop[l].result \in Flagged)
        BY <2>4, <2>5 DEF RunOfLoop, LogOfHolder, WorkerLog, KeptInv, CatchInv
      <3>2. job' = job /\ events' = events
        BY <2>3, <2>5
      <3>3. QED
        BY <3>1, <3>2 DEF WorkerLog
    <2>6. CASE loop[l].pc = "announceFail"
      <3>1. job[j].status = "FAILED" /\ Kept(events[j], WorkerEvents) = Begun
        BY <1>1, <2>4, <2>6 DEF RunOfLoop, Terminal, LogOfHolder, WorkerLog, KeptInv, CatchInv
      <3>2. "RUN_FAILED" \in EventType /\ "RUN_FAILED" \in WorkerEvents
        BY DEF EventType, WorkerEvents
      <3>3. Kept(events'[j], WorkerEvents) = Append(Begun, "RUN_FAILED")
        BY <2>3, <2>6, <3>1, <3>2, AppendLog
      <3>4. QED
        BY <2>3, <3>1, <3>3 DEF WorkerLog
    <2>7. QED
      BY <2>3, <2>5, <2>6
  <1>4. QED
    BY <1>2, <1>3

(* While no store call has failed and no process has died, the log of a    *)
(* run that no loop holds tells its outcome exactly, whatever the          *)
(* interleaving of workers, requests, stops and restarts.                  *)
THEOREM QuietLogsTellOutcomes ==
  ASSUME OneLoopPerWorker PROVE Spec => []QuietLogTellsOutcome
  <1>1. Init => QuietInv /\ DrainInv
    <2> SUFFICES ASSUME Init PROVE QuietInv /\ DrainInv
      OBVIOUS
    <2>1. Orphans = {} /\ QuietInv
      BY DEF Init, StoreInit, NoJob, Orphans, QuietInv
    <2>2. IsFiniteSet({}) /\ Cardinality({}) = 0
      BY FS_EmptySet
    <2>3. QED
      BY <2>1, <2>2 DEF Init, DrainInv, LatestLoops, Down
  <1>2. IInv /\ LogInv /\ DrainInv /\ QuietInv => QuietLogTellsOutcome
    <2> SUFFICES ASSUME IInv, LogInv, DrainInv, QuietInv, NEW j \in Jobs, faults = 0, Unowned(j)
                 PROVE  WorkerLog(j) = CASE job[j].status = "COMPLETED" ->
                                               SuccessPath(AnalysisOf[job[j].result] \in Flagged)
                                         [] job[j].status = "FAILED" ->
                                               <<"RUN_CLAIMED", "LLM_STARTED", "RUN_FAILED">>
                                         [] OTHER -> << >>
      BY DEF QuietLogTellsOutcome
    <2>1. job[j].status # "RUNNING"
      <3>1. Cardinality(Orphans) \in Nat /\ IsFiniteSet(Orphans)
        BY FS_CardinalityType DEF DrainInv
      <3>2. Cardinality(Orphans) = 0
        BY <3>1 DEF DrainInv
      <3>3. Orphans = {}
        BY <3>1, <3>2, FS_EmptySet
      <3>4. QED
        BY <3>3 DEF Orphans
    <2>2. job[j].status \in {"ABSENT", "QUEUED", "COMPLETED", "FAILED"}
      BY <2>1 DEF IInv, RunsTypeOK, StoreTypeOK, JobRecord, Status
    <2>3. job[j].status \in {"ABSENT", "QUEUED"} => WorkerLog(j) = << >>
      BY DEF LogInv
    <2>4. job[j].status = "COMPLETED" => WorkerLog(j) = SuccessPath(AnalysisOf[job[j].result] \in Flagged)
      <3> DEFINE flagged == AnalysisOf[job[j].result] \in Flagged
      <3>1. flagged \in BOOLEAN
        OBVIOUS
      <3>2. SuccessPath(flagged) = Complete(flagged)
        BY <3>1, CompleteIs
      <3>3. QED
        BY <3>2 DEF QuietInv
    <2>5. job[j].status = "FAILED" => WorkerLog(j) = <<"RUN_CLAIMED", "LLM_STARTED", "RUN_FAILED">>
      BY Triples DEF QuietInv
    <2>6. CASE job[j].status = "COMPLETED"
      BY <2>4, <2>6
    <2>7. CASE job[j].status = "FAILED"
      BY <2>5, <2>7
    <2>8. CASE job[j].status \in {"ABSENT", "QUEUED"}
      BY <2>3, <2>8
    <2>9. QED
      BY <2>2, <2>6, <2>7, <2>8
  <1>3. QED
    BY <1>1, <1>2, DrainStep, QuietStep, Inductive, LogInvHolds, KeptHolds, PTL DEF Spec
=============================================================================
