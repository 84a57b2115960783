--------------------------- MODULE ReviewWorkflow ---------------------------
(***************************************************************************)
(* Analysts at work on one COMPLETED run: POST /v1/runs/:id/assignment,    *)
(* /comments and /review.  Each handler reads the whole record of the run, *)
(* may wait for the tenant's admin configuration (a JSON file), writes the *)
(* whole record back and then logs what it did.  Other handlers, the PUT   *)
(* of the configuration and the loop that completed the run may take steps *)
(* between any two awaits.  A store call may throw, with its write applied *)
(* or not; a process that dies is the case where the next calls of all its *)
(* handlers throw.                                                         *)
(***************************************************************************)
EXTENDS SequenceFilters, FiniteSets

CONSTANTS Requests,     \* review requests; one stands for its actor and its text too
          Kind,         \* Kind[r]: which of the three handlers serves r
          Decision,     \* Decision[r]: the decision of a review request
          Labelled,     \* the review requests that carry a sentiment label
          Policies,     \* the assignment policies an administrator may save
          Nothing,      \* an absent field
          MaxInFlight,  \* bound on `limit`
          MaxPuts,      \* bound: PUTs of the admin configuration
          MaxFaults     \* bound: calls that throw

ReviewState == {"VERIFIED", "UNCERTAIN", "NEEDS_REVIEW"}
DecisionKind == {"VERIFY", "MARK_UNCERTAIN", "KEEP_NEEDS_REVIEW"}
Policy == [mode : {"MANUAL", "AUTO_ASSIGN_SELF"}, require : BOOLEAN]

ASSUME ReviewAssumption ==
    /\ Kind \in [Requests -> {"assign", "comment", "decide"}]
    /\ Decision \in [Requests -> DecisionKind]
    /\ Labelled \subseteq Requests
    /\ Policies \subseteq Policy
    /\ Nothing \notin Requests \cup Policies
    /\ MaxInFlight \in Nat /\ MaxPuts \in Nat /\ MaxFaults \in Nat

VARIABLES row,        \* the record of the run: its status, result.review
          log,        \* the ANALYST_* events of the run, in order
          audit,      \* the requests with an audit event
          sample,     \* the label in the run's calibration sample
          handler,    \* handler[r]: where the handler of r is, and its locals
          config,     \* the admin configuration file: a policy, or unreadable
          putting,    \* the policy a PUT is writing
          announcer,  \* the loop that completed the run, until it is done with it
          lenient,    \* history: the requests that were told a lenient policy
          puts, faults,
          limit       \* bound: review requests served at the same time

vars == <<row, log, audit, sample, handler, config, putting, announcer, lenient,
          puts, faults, limit>>

MaybeRequest == Requests \cup {Nothing}
Entry == [kind : {"ASSIGNED", "COMMENT", "DECISION"}, by : Requests]
Review == [state : ReviewState, assignment : MaybeRequest, comments : Seq(Requests),
           resolution : MaybeRequest, analystSentiment : MaybeRequest, history : Seq(Entry)]
EventType == {"ANALYST_ASSIGNED", "ANALYST_COMMENT_ADDED", "ANALYST_REVIEW_RECORDED"}

InService == {"fetch", "config", "save", "logAssigned", "log", "sample", "audit"}
Answered == {"ok", "refused", "error"}

(* The review verifyCanonicalAnalysis left, before any analyst saw it.     *)
Fresh(state) == [state |-> state, assignment |-> Nothing, comments |-> << >>,
                 resolution |-> Nothing, analystSentiment |-> Nothing, history |-> << >>]

(* A failed run has no result, so no review. *)
FailedRow == [status |-> "FAILED", review |-> Fresh("NEEDS_REVIEW")]

At(pc) == [pc |-> pc, seen |-> Fresh("NEEDS_REVIEW"), auto |-> FALSE]

TypeOK ==
    /\ row \in [status : {"COMPLETED", "FAILED"}, review : Review]
    /\ log \in Seq([type : EventType, by : Requests])
    /\ audit \subseteq Requests
    /\ sample \in MaybeRequest
    /\ handler \in [Requests -> [pc : InService \cup Answered \cup {"unsent"},
                                 seen : Review, auto : BOOLEAN]]
    /\ config \in Policies \cup {Nothing}
    /\ putting \in Policies \cup {Nothing}
    /\ announcer \in {"announce", "fail", "done"}
    /\ lenient \subseteq Requests
    /\ puts \in 0..MaxPuts
    /\ faults \in 0..MaxFaults
    /\ limit \in 1..MaxInFlight

Init ==
    /\ \E state \in ReviewState : row = [status |-> "COMPLETED", review |-> Fresh(state)]
    /\ log = << >> /\ audit = {} /\ sample = Nothing
    /\ handler = [r \in Requests |-> At("unsent")]
    /\ config \in Policies
    /\ putting = Nothing
    /\ announcer = "announce"
    /\ lenient = {}
    /\ puts = 0 /\ faults = 0
    /\ limit \in 1..MaxInFlight
-----------------------------------------------------------------------------
Fault == faults < MaxFaults /\ faults' = faults + 1

Goto(r, pc) == handler' = [handler EXCEPT ![r].pc = pc]
Answer(r, code) == handler' = [handler EXCEPT ![r] = At(code)]

InFlight == {r \in Requests : handler[r].pc \in InService}

(* The route reads the run first and answers 409 when it is not ready.  (A *)
(* read that throws here is a request that was never sent.)                *)
CheckRun(r) ==
    /\ handler[r].pc = "unsent"
    /\ Cardinality(InFlight) < limit
    /\ \/ row.status = "COMPLETED" /\ Goto(r, "fetch")
       \/ row.status # "COMPLETED" /\ Answer(r, "refused")
    /\ UNCHANGED <<row, log, audit, sample, config, putting, announcer, lenient, puts, faults, limit>>

(* getJob of the service: the copy the new record will be built from.      *)
FetchRun(r) ==
    /\ handler[r].pc = "fetch"
    /\ \/ /\ row.status = "COMPLETED"
          /\ handler' = [handler EXCEPT ![r] =
                [At(IF Kind[r] = "assign" THEN "save" ELSE "config") EXCEPT !.seen = row.review]]
          /\ UNCHANGED faults
       \/ row.status # "COMPLETED" /\ Answer(r, "error") /\ UNCHANGED faults
       \/ Fault /\ Answer(r, "error")
    /\ UNCHANGED <<row, log, audit, sample, config, putting, announcer, lenient, puts, limit>>

(* A configuration file that cannot be parsed, because a PUT has truncated *)
(* it and not written it yet, reads as the default policy; so does one     *)
(* that cannot be read, whatever the error.                                *)
DefaultPolicy == [mode |-> "MANUAL", require |-> FALSE]
PolicyRead == IF config = Nothing THEN DefaultPolicy ELSE config

(* The policy assigns the analyst, or demands an assignment first. *)
Strict(p) == p.require \/ p.mode = "AUTO_ASSIGN_SELF"
Noted(r, policy) == lenient' = IF Strict(policy) THEN lenient ELSE lenient \cup {r}

(* Slip: a decision is not refused when the run is unassigned. *)
applyPolicyWithoutRefusal(r, policy) ==
    LET auto == handler[r].seen.assignment = Nothing /\ policy.mode = "AUTO_ASSIGN_SELF"
    IN  handler' = [handler EXCEPT ![r].pc = "save", ![r].auto = auto] /\ Noted(r, policy)

(* applyAssignmentPolicy and the refusal of a decision on a run that had   *)
(* to be assigned first.                                                   *)
applyAssignmentPolicy(r, policy) ==
    LET unassigned == handler[r].seen.assignment = Nothing
        auto == unassigned /\ policy.mode = "AUTO_ASSIGN_SELF"
        refused == Kind[r] = "decide" /\ policy.require /\ unassigned /\ ~auto
    IN  /\ \/ refused /\ Answer(r, "error")
           \/ ~refused /\ handler' = [handler EXCEPT ![r].pc = "save", ![r].auto = auto]
        /\ Noted(r, policy)

(* resolveTenantAdminConfig: an error is not told from a missing file.     *)
ReadPolicy(r) ==
    /\ handler[r].pc = "config"
    /\ \/ applyAssignmentPolicy(r, PolicyRead) /\ UNCHANGED faults
       \/ applyAssignmentPolicy(r, DefaultPolicy) /\ Fault
    /\ UNCHANGED <<row, log, audit, sample, config, putting, announcer, puts, limit>>
-----------------------------------------------------------------------------
(* The review each request makes of the one it has seen. *)

Recorded(review, kind, r) == [review EXCEPT !.history = Append(@, [kind |-> kind, by |-> r])]

(* Slip: an assignment without its entry. *)
AssignedUnrecorded(review, r) == [review EXCEPT !.assignment = r]

Assigned(review, r) == [Recorded(review, "ASSIGNED", r) EXCEPT !.assignment = r]
Commented(review, r) == [Recorded(review, "COMMENT", r) EXCEPT !.comments = Append(@, r)]

Resulting(decision) == CASE decision = "VERIFY" -> "VERIFIED"
                         [] decision = "MARK_UNCERTAIN" -> "UNCERTAIN"
                         [] decision = "KEEP_NEEDS_REVIEW" -> "NEEDS_REVIEW"

(* Slip: a decision starts a new history. *)
DecidedAfresh(review, r) ==
    [review EXCEPT !.state = Resulting(Decision[r]), !.resolution = r,
        !.analystSentiment = IF r \in Labelled THEN r ELSE @,
        !.history = <<[kind |-> "DECISION", by |-> r]>>]

Decided(review, r) ==
    [Recorded(review, "DECISION", r) EXCEPT
        !.state = Resulting(Decision[r]),
        !.resolution = r,
        !.analystSentiment = IF r \in Labelled THEN r ELSE @]

NewReview(r) ==
    LET seen == handler[r].seen
        base == IF handler[r].auto THEN Assigned(seen, r) ELSE seen
    IN  CASE Kind[r] = "assign" -> Assigned(seen, r)
          [] Kind[r] = "comment" -> Commented(base, r)
          [] Kind[r] = "decide" -> Decided(base, r)

(* updateJob writes the whole record, COMPLETED as it was when it was read.*)
SaveReview(r) ==
    /\ handler[r].pc = "save"
    /\ \/ /\ row' = [status |-> "COMPLETED", review |-> NewReview(r)]
          /\ handler' = [handler EXCEPT
                ![r].pc = IF handler[r].auto THEN "logAssigned" ELSE "log",
                ![r].seen = NewReview(r)]
          /\ UNCHANGED faults
       \/ /\ Fault
          /\ row' \in {row, [status |-> "COMPLETED", review |-> NewReview(r)]}
          /\ Answer(r, "error")
    /\ UNCHANGED <<log, audit, sample, config, putting, announcer, lenient, puts, limit>>
-----------------------------------------------------------------------------
(* What a handler logs after its write. *)

EventOf(r) == CASE Kind[r] = "assign" -> "ANALYST_ASSIGNED"
                [] Kind[r] = "comment" -> "ANALYST_COMMENT_ADDED"
                [] Kind[r] = "decide" -> "ANALYST_REVIEW_RECORDED"

LogStep(r, from, type, to) ==
    LET logged == Append(log, [type |-> type, by |-> r])
    IN  /\ handler[r].pc = from
        /\ \/ log' = logged /\ Goto(r, to) /\ UNCHANGED faults
           \/ Fault /\ log' \in {log, logged} /\ Answer(r, "error")
        /\ UNCHANGED <<row, audit, sample, config, putting, announcer, lenient, puts, limit>>

(* Slip: the handler returns after the event of the policy. *)
LogAutoAssignmentOnly(r) == LogStep(r, "logAssigned", "ANALYST_ASSIGNED", "audit")

(* emitAutoAssignmentEvent *)
LogAutoAssignment(r) == LogStep(r, "logAssigned", "ANALYST_ASSIGNED", "log")

LogAction(r) ==
    LogStep(r, "log", EventOf(r),
            IF Kind[r] = "decide" /\ handler[r].seen.analystSentiment # Nothing
            THEN "sample" ELSE "audit")

SampleStep(r, inserted) ==
    /\ handler[r].pc = "sample"
    /\ \/ sample' = inserted /\ UNCHANGED faults
       \/ Fault /\ sample' \in {sample, inserted}
    /\ Goto(r, "audit")
    /\ UNCHANGED <<row, log, audit, config, putting, announcer, lenient, puts, limit>>

(* Slip: the sample is written over the one that is there. *)
ReplaceSample(r) == SampleStep(r, handler[r].seen.analystSentiment)

(* persistCalibrationSampleFromReview: the sample has one id per run and   *)
(* is inserted unless the id is there, so the first one stays; an error of *)
(* the sentiment store is swallowed.                                       *)
SaveSample(r) ==
    SampleStep(r, IF sample = Nothing THEN handler[r].seen.analystSentiment ELSE sample)

(* The route appends the audit event and answers. *)
AppendAudit(r) ==
    /\ handler[r].pc = "audit"
    /\ \/ audit' = audit \cup {r} /\ Answer(r, "ok") /\ UNCHANGED faults
       \/ Fault /\ audit' \in {audit, audit \cup {r}} /\ Answer(r, "error")
    /\ UNCHANGED <<row, log, sample, config, putting, announcer, lenient, puts, limit>>
-----------------------------------------------------------------------------
(* The rest of the system: the configuration, and the loop of the run.     *)

(* writeFile truncates the file and then writes it. *)
TruncateConfig(p) ==
    /\ putting = Nothing /\ puts < MaxPuts
    /\ puts' = puts + 1
    /\ config' = Nothing /\ putting' = p
    /\ UNCHANGED <<row, log, audit, sample, handler, announcer, lenient, faults, limit>>

WriteConfig ==
    /\ putting # Nothing
    /\ config' = putting /\ putting' = Nothing
    /\ UNCHANGED <<row, log, audit, sample, handler, announcer, lenient, puts, faults, limit>>

(* RUN_COMPLETED is logged, or logging it throws and the catch block of    *)
(* processClaimedJob writes its FAILED record over whatever is there.      *)
Announce ==
    /\ announcer = "announce"
    /\ \/ announcer' = "done" /\ UNCHANGED faults
       \/ announcer' = "fail" /\ Fault
    /\ UNCHANGED <<row, log, audit, sample, handler, config, putting, lenient, puts, limit>>

FailRun ==
    /\ announcer = "fail"
    /\ \/ row' = FailedRow /\ UNCHANGED faults
       \/ Fault /\ row' \in {row, FailedRow}
    /\ announcer' = "done"
    /\ UNCHANGED <<log, audit, sample, handler, config, putting, lenient, puts, limit>>
-----------------------------------------------------------------------------
Serve(r) == \/ FetchRun(r) \/ ReadPolicy(r) \/ SaveReview(r) \/ LogAutoAssignment(r)
            \/ LogAction(r) \/ SaveSample(r) \/ AppendAudit(r)

Next == \/ \E r \in Requests : CheckRun(r) \/ Serve(r)
        \/ (\E p \in Policies : TruncateConfig(p)) \/ WriteConfig
        \/ Announce \/ FailRun

Spec == Init /\ [][Next]_vars
-----------------------------------------------------------------------------
(* Properties. *)

EntriesOf(review, kind) == Kept(review.history, [kind : {kind}, by : Requests])
LabelsOf(review) == Kept(review.history, [kind : {"DECISION"}, by : Labelled])
LastBy(entries) == IF entries = << >> THEN Nothing ELSE entries[Len(entries)].by

(* A review is what replaying its own history gives: its assignee, its     *)
(* comments, its resolution, its state and its sentiment label are those   *)
(* of the entries, however many handlers write over each other.  It holds  *)
(* of the row and of the copy every handler carries.                       *)
ReplaysHistory(review) ==
    LET decisions == EntriesOf(review, "DECISION")
        comments == EntriesOf(review, "COMMENT")
    IN  /\ review.assignment = LastBy(EntriesOf(review, "ASSIGNED"))
        /\ review.comments = [i \in DOMAIN comments |-> comments[i].by]
        /\ review.resolution = LastBy(decisions)
        /\ review.analystSentiment = LastBy(LabelsOf(review))
        /\ decisions # << >> => review.state = Resulting(Decision[LastBy(decisions)])

ReviewReplaysHistory ==
    ReplaysHistory(row.review) /\ \A r \in Requests : ReplaysHistory(handler[r].seen)

(* A decision is recorded on an unassigned review only by a request that   *)
(* was told a lenient policy, though the check is made on a copy that      *)
(* other handlers may be changing, and the record is theirs as often as    *)
(* its own; and if the policy is strict from the start, no request is told *)
(* a lenient one unless a PUT has begun, which leaves the file torn for a  *)
(* while, or a read has failed: both read as the default policy.           *)
(* (conversation-intelligence-service.ts:458-470,                          *)
(* file-tenant-admin-config-registry.ts:41-49.)                            *)
DecidedUnassigned(history) ==
    {history[i].by : i \in {j \in DOMAIN history :
        /\ history[j].kind = "DECISION"
        /\ \A k \in 1..(j - 1) : history[k].kind # "ASSIGNED"}}
DecisionsAreAssigned ==
    /\ DecidedUnassigned(row.review.history) \subseteq lenient
    /\ puts = 0 /\ faults = 0 /\ Strict(config) => lenient = {}

(* A request answered with 200 left all its traces: its audit event and    *)
(* its run event, its assignment by policy logged before its own action,   *)
(* and none of them twice.                                                 *)
AnsweredIsLogged ==
    \A r \in Requests : handler[r].pc = "ok" =>
        LET mine == Kept(log, [type : EventType, by : {r}])
            own == [type |-> EventOf(r), by |-> r]
        IN  /\ r \in audit
            /\ mine \in {<<own>>, <<[type |-> "ANALYST_ASSIGNED", by |-> r], own>>}

(* When review requests are served one at a time, the run events tell the  *)
(* same story as the history of the record: each event has its entry, in   *)
(* the same order; and without errors each entry has its event.            *)
EventFor(entry) == [type |-> CASE entry.kind = "ASSIGNED" -> "ANALYST_ASSIGNED"
                               [] entry.kind = "COMMENT" -> "ANALYST_COMMENT_ADDED"
                               [] entry.kind = "DECISION" -> "ANALYST_REVIEW_RECORDED",
                    by |-> entry.by]
Told(history) == [i \in DOMAIN history |-> EventFor(history[i])]
LogMatchesHistory ==
    LET told == Told(row.review.history)
    IN  limit = 1 /\ row.status = "COMPLETED" /\ InFlight = {} =>
            /\ log = Kept(told, {log[i] : i \in DOMAIN log})
            /\ faults = 0 => log = told

(* When review requests are served one at a time and no call fails, the    *)
(* calibration sample of the run carries the first label an analyst gave   *)
(* it: a later decision, labelled or not, must neither lose the sample nor *)
(* count the run a second time with another label.                         *)
FirstBy(entries) == IF entries = << >> THEN Nothing ELSE entries[1].by
SampleIsFirstLabel ==
    limit = 1 /\ faults = 0 /\ InFlight = {} => sample = FirstBy(LabelsOf(row.review))

(* When review requests are served one at a time, nothing an analyst did   *)
(* leaves the record of a completed run: its history only grows.           *)
IsBeginning(s, t) == Len(s) <= Len(t) /\ s = SubSeq(t, 1, Len(s))
HistoryOnlyGrows ==
    [][limit = 1 /\ row.status = "COMPLETED" /\ row'.status = "COMPLETED" =>
          IsBeginning(row.review.history, row'.review.history)]_vars

(* Review history and comments are persisted (IMPLEMENTATION_ARCHITECTURE, *)
(* the review flow): what was answered with 200 is in the record of a run  *)
(* that is COMPLETED.                                                      *)
AnsweredIsPersisted ==
    \A r \in Requests : handler[r].pc = "ok" /\ row.status = "COMPLETED" =>
        \E i \in DOMAIN row.review.history : row.review.history[i].by = r
=============================================================================
