------------------------ MODULE ReviewWorkflowProofs ------------------------
(***************************************************************************)
(* Proofs about ReviewWorkflow: for any set of requests of any kinds, any  *)
(* policies and any number of requests served at the same time.            *)
(***************************************************************************)
EXTENDS ReviewWorkflow, SequenceFilterProofs, SequenceTheorems, FiniteSetTheorems

USE ReviewAssumption

HandlerState == [pc : InService \cup Answered \cup {"unsent"}, seen : Review, auto : BOOLEAN]

LEMMA FreshType == \A state \in ReviewState : Fresh(state) \in Review
  BY DEF Fresh, Review, MaybeRequest, Entry

LEMMA FailedRowType == FailedRow \in [status : {"COMPLETED", "FAILED"}, review : Review]
  BY FreshType DEF FailedRow, ReviewState

LEMMA AtType ==
  ASSUME NEW pc \in InService \cup Answered \cup {"unsent"} PROVE At(pc) \in HandlerState
  BY FreshType DEF At, HandlerState, ReviewState

(* What a handler's step does to the handlers. *)
LEMMA GotoIs ==
  ASSUME TypeOK, NEW r \in Requests, NEW pc \in InService \cup Answered, Goto(r, pc)
  PROVE  /\ handler' \in [Requests -> HandlerState]
         /\ handler'[r].pc = pc /\ handler'[r].seen = handler[r].seen
         /\ handler'[r].auto = handler[r].auto
         /\ \A q \in Requests \ {r} : handler'[q] = handler[q]
  <1>1. handler \in [Requests -> HandlerState] /\ handler[r] \in HandlerState
    BY DEF TypeOK, HandlerState
  <1>2. handler' = [handler EXCEPT ![r] = [handler[r] EXCEPT !.pc = pc]]
    BY <1>1 DEF Goto
  <1>3. [handler[r] EXCEPT !.pc = pc] \in HandlerState
    BY <1>1 DEF HandlerState
  <1>4. QED
    BY <1>1, <1>2, <1>3 DEF HandlerState

LEMMA AnswerIs ==
  ASSUME TypeOK, NEW r \in Requests, NEW code \in Answered, Answer(r, code)
  PROVE  /\ handler' \in [Requests -> HandlerState]
         /\ handler'[r].pc = code /\ handler'[r].seen = Fresh("NEEDS_REVIEW")
         /\ handler'[r].auto = FALSE
         /\ \A q \in Requests \ {r} : handler'[q] = handler[q]
  <1>1. handler \in [Requests -> HandlerState] /\ At(code) \in HandlerState
    BY AtType DEF TypeOK, HandlerState
  <1>2. QED
    BY <1>1 DEF Answer, At

(* The reviews a request makes. *)
LEMMA RecordedIs ==
  ASSUME NEW review \in Review, NEW kind \in {"ASSIGNED", "COMMENT", "DECISION"}, NEW r \in Requests
  PROVE  /\ [kind |-> kind, by |-> r] \in Entry
         /\ Recorded(review, kind, r) \in Review
         /\ Recorded(review, kind, r).history = Append(review.history, [kind |-> kind, by |-> r])
         /\ Recorded(review, kind, r).state = review.state
         /\ Recorded(review, kind, r).assignment = review.assignment
         /\ Recorded(review, kind, r).comments = review.comments
         /\ Recorded(review, kind, r).resolution = review.resolution
         /\ Recorded(review, kind, r).analystSentiment = review.analystSentiment
  <1>1. [kind |-> kind, by |-> r] \in Entry
    BY DEF Entry
  <1> DEFINE e == [kind |-> kind, by |-> r]
  <1>2. Append(review.history, e) \in Seq(Entry)
    BY <1>1 DEF Review
  <1> HIDE DEF e
  <1>3. QED
    BY <1>1, <1>2 DEF Recorded, Review, e

LEMMA AssignedIs ==
  ASSUME NEW review \in Review, NEW r \in Requests
  PROVE  /\ Assigned(review, r) \in Review
         /\ Assigned(review, r).history = Append(review.history, [kind |-> "ASSIGNED", by |-> r])
         /\ Assigned(review, r).state = review.state
         /\ Assigned(review, r).assignment = r
         /\ Assigned(review, r).comments = review.comments
         /\ Assigned(review, r).resolution = review.resolution
         /\ Assigned(review, r).analystSentiment = review.analystSentiment
  <1> DEFINE new == Recorded(review, "ASSIGNED", r)
  <1>1. /\ new \in Review /\ new.history = Append(review.history, [kind |-> "ASSIGNED", by |-> r])
        /\ new.state = review.state /\ new.comments = review.comments
        /\ new.resolution = review.resolution
        /\ new.analystSentiment = review.analystSentiment
    BY RecordedIs
  <1> HIDE DEF new
  <1>2. Assigned(review, r) = [new EXCEPT !.assignment = r]
    BY DEF Assigned, new
  <1>3. r \in MaybeRequest
    BY DEF MaybeRequest
  <1>4. QED
    BY <1>1, <1>2, <1>3 DEF Review

LEMMA CommentedIs ==
  ASSUME NEW review \in Review, NEW r \in Requests
  PROVE  /\ Commented(review, r) \in Review
         /\ Commented(review, r).history = Append(review.history, [kind |-> "COMMENT", by |-> r])
         /\ Commented(review, r).state = review.state
         /\ Commented(review, r).assignment = review.assignment
         /\ Commented(review, r).comments = Append(review.comments, r)
         /\ Commented(review, r).resolution = review.resolution
         /\ Commented(review, r).analystSentiment = review.analystSentiment
  <1> DEFINE new == Recorded(review, "COMMENT", r)
  <1>1. /\ new \in Review /\ new.history = Append(review.history, [kind |-> "COMMENT", by |-> r])
        /\ new.state = review.state /\ new.comments = review.comments
        /\ new.assignment = review.assignment /\ new.resolution = review.resolution
        /\ new.analystSentiment = review.analystSentiment
    BY RecordedIs
  <1> HIDE DEF new
  <1>2. Commented(review, r) = [new EXCEPT !.comments = Append(new.comments, r)]
    BY DEF Commented, new
  <1>3. Append(new.comments, r) \in Seq(Requests)
    BY <1>1 DEF Review
  <1>4. QED
    BY <1>1, <1>2, <1>3 DEF Review

LEMMA DecidedIs ==
  ASSUME NEW review \in Review, NEW r \in Requests
  PROVE  /\ Decided(review, r) \in Review
         /\ Decided(review, r).history = Append(review.history, [kind |-> "DECISION", by |-> r])
         /\ Decided(review, r).state = Resulting(Decision[r])
         /\ Decided(review, r).assignment = review.assignment
         /\ Decided(review, r).comments = review.comments
         /\ Decided(review, r).resolution = r
         /\ Decided(review, r).analystSentiment =
               IF r \in Labelled THEN r ELSE review.analystSentiment
  <1> DEFINE new == Recorded(review, "DECISION", r)
             label == IF r \in Labelled THEN r ELSE new.analystSentiment
  <1>1. /\ new \in Review /\ new.history = Append(review.history, [kind |-> "DECISION", by |-> r])
        /\ new.state = review.state /\ new.comments = review.comments
        /\ new.assignment = review.assignment /\ new.resolution = review.resolution
        /\ new.analystSentiment = review.analystSentiment
    BY RecordedIs
  <1> HIDE DEF new
  <1>2. Decided(review, r) = [new EXCEPT !.state = Resulting(Decision[r]), !.resolution = r,
                                         !.analystSentiment = label]
    BY DEF Decided, new
  <1>3. r \in MaybeRequest /\ label \in MaybeRequest
    BY <1>1 DEF MaybeRequest, Review
  <1>4. Resulting(Decision[r]) \in ReviewState
    <2>1. Decision[r] \in DecisionKind
      OBVIOUS
    <2>2. QED
      BY <2>1 DEF DecisionKind, Resulting, ReviewState
  <1>5. QED
    BY <1>1, <1>2, <1>3, <1>4 DEF Review

KindOfEntry(r) == CASE Kind[r] = "assign" -> "ASSIGNED"
                    [] Kind[r] = "comment" -> "COMMENT"
                    [] Kind[r] = "decide" -> "DECISION"
Entered(r) == [kind |-> KindOfEntry(r), by |-> r]
AssignedEntry(r) == [kind |-> "ASSIGNED", by |-> r]

LEMMA KindsAre ==
  ASSUME NEW r \in Requests
  PROVE  /\ Kind[r] \in {"assign", "comment", "decide"}
         /\ KindOfEntry(r) \in {"ASSIGNED", "COMMENT", "DECISION"}
         /\ Entered(r) \in Entry /\ AssignedEntry(r) \in Entry
  <1>1. Kind[r] \in {"assign", "comment", "decide"}
    OBVIOUS
  <1>2. QED
    BY <1>1 DEF KindOfEntry, Entered, AssignedEntry, Entry

(* The review a request starts from, once the policy has been applied.     *)
Base(r) == IF handler[r].auto THEN Assigned(handler[r].seen, r) ELSE handler[r].seen

LEMMA NewReviewIs ==
  ASSUME TypeOK, NEW r \in Requests
  PROVE  /\ handler[r].seen \in Review /\ Base(r) \in Review /\ NewReview(r) \in Review
         /\ Kind[r] = "assign" => NewReview(r) = Assigned(handler[r].seen, r)
         /\ Kind[r] = "comment" => NewReview(r) = Commented(Base(r), r)
         /\ Kind[r] = "decide" => NewReview(r) = Decided(Base(r), r)
         /\ NewReview(r).history =
               IF handler[r].auto /\ Kind[r] # "assign"
               THEN Append(Append(handler[r].seen.history, AssignedEntry(r)), Entered(r))
               ELSE Append(handler[r].seen.history, Entered(r))
  <1> DEFINE seen == handler[r].seen
             auto == handler[r].auto
             base == Base(r)
             new == NewReview(r)
  <1>1. seen \in Review
    BY DEF TypeOK
  <1>2. Kind[r] \in {"assign", "comment", "decide"}
    BY KindsAre
  <1>3. base = IF auto THEN Assigned(seen, r) ELSE seen
    BY DEF Base
  <1>4. /\ Kind[r] = "assign" => new = Assigned(seen, r)
        /\ Kind[r] = "comment" => new = Commented(base, r)
        /\ Kind[r] = "decide" => new = Decided(base, r)
    BY <1>2 DEF NewReview, Base
  <1> HIDE DEF seen, auto, base, new
  <1>5. base \in Review
    BY <1>1, <1>3, AssignedIs
  <1>6. new \in Review
    <2>1. Kind[r] = "assign" => new \in Review
      BY <1>1, <1>4, AssignedIs
    <2>2. Kind[r] = "comment" => new \in Review
      BY <1>4, <1>5, CommentedIs
    <2>3. Kind[r] = "decide" => new \in Review
      BY <1>4, <1>5, DecidedIs
    <2>4. QED
      BY <1>2, <2>1, <2>2, <2>3
  <1>7. /\ Kind[r] = "assign" => Entered(r) = [kind |-> "ASSIGNED", by |-> r]
        /\ Kind[r] = "comment" => Entered(r) = [kind |-> "COMMENT", by |-> r]
        /\ Kind[r] = "decide" => Entered(r) = [kind |-> "DECISION", by |-> r]
    BY DEF Entered, KindOfEntry
  <1>8. base.history = IF auto THEN Append(seen.history, AssignedEntry(r)) ELSE seen.history
    BY <1>1, <1>3, AssignedIs DEF AssignedEntry
  <1>9. new.history = IF auto /\ Kind[r] # "assign"
                      THEN Append(Append(seen.history, AssignedEntry(r)), Entered(r))
                      ELSE Append(seen.history, Entered(r))
    <2>1. CASE Kind[r] = "assign"
      BY <1>1, <1>4, <1>7, <2>1, AssignedIs
    <2>2. CASE Kind[r] = "comment"
      <3>1. new.history = Append(base.history, Entered(r))
        BY <1>4, <1>5, <1>7, <2>2, CommentedIs
      <3>2. QED
        BY <1>8, <2>2, <3>1
    <2>3. CASE Kind[r] = "decide"
      <3>1. new.history = Append(base.history, Entered(r))
        BY <1>4, <1>5, <1>7, <2>3, DecidedIs
      <3>2. QED
        BY <1>8, <2>3, <3>1
    <2>4. QED
      BY <1>2, <2>1, <2>2, <2>3
  <1>10. QED
    BY <1>1, <1>4, <1>5, <1>6, <1>9 DEF seen, auto, base, new
-----------------------------------------------------------------------------
(* What the steps of a handler do, field by field. *)
Others(r) == \A q \in Requests \ {r} : handler'[q] = handler[q]
Refused(r) == /\ handler'[r].pc \in Answered /\ handler'[r].seen = Fresh("NEEDS_REVIEW")
              /\ handler'[r].auto = FALSE

LEMMA CheckIs ==
  ASSUME TypeOK, NEW r \in Requests, CheckRun(r)
  PROVE  /\ handler' \in [Requests -> HandlerState] /\ Others(r)
         /\ handler[r].pc = "unsent"
         /\ \/ /\ handler'[r].pc = "fetch" /\ handler'[r].seen = handler[r].seen
               /\ handler'[r].auto = handler[r].auto /\ row.status = "COMPLETED"
            \/ Refused(r) /\ handler'[r].pc = "refused"
  BY GotoIs, AnswerIs, ZenonT(60) DEF CheckRun, InService, Answered, Others, Refused

LEMMA FetchIs ==
  ASSUME TypeOK, NEW r \in Requests, FetchRun(r)
  PROVE  /\ handler' \in [Requests -> HandlerState] /\ Others(r)
         /\ handler[r].pc = "fetch" /\ faults' \in {faults, faults + 1}
         /\ \/ /\ handler'[r].pc = (IF Kind[r] = "assign" THEN "save" ELSE "config")
               /\ handler'[r].seen = row.review /\ handler'[r].auto = FALSE
               /\ row.status = "COMPLETED"
            \/ Refused(r) /\ handler'[r].pc = "error"
  <1>1. CASE Answer(r, "error")
    BY <1>1, AnswerIs DEF FetchRun, Answered, Others, Refused, Fault
  <1>2. CASE ~Answer(r, "error")
    <2> DEFINE pc == IF Kind[r] = "assign" THEN "save" ELSE "config"
               new == [At(pc) EXCEPT !.seen = row.review]
    <2>1. row.status = "COMPLETED" /\ handler' = [handler EXCEPT ![r] = new]
          /\ handler[r].pc = "fetch" /\ faults' = faults
      BY <1>2 DEF FetchRun
    <2>2. pc \in InService /\ row.review \in Review
      BY DEF InService, TypeOK
    <2> HIDE DEF pc
    <2>3. At(pc) \in HandlerState /\ At(pc).pc = pc /\ At(pc).auto = FALSE
      BY <2>2, AtType DEF At
    <2>4. new \in HandlerState /\ new.pc = pc /\ new.auto = FALSE /\ new.seen = row.review
      BY <2>2, <2>3 DEF HandlerState
    <2>5. handler \in [Requests -> HandlerState]
      BY DEF TypeOK, HandlerState
    <2> HIDE DEF new
    <2>6. handler' \in [Requests -> HandlerState] /\ Others(r) /\ handler'[r] = new
      BY <2>1, <2>4, <2>5 DEF Others
    <2>7. QED
      BY <2>1, <2>4, <2>6 DEF pc
  <1>3. QED
    BY <1>1, <1>2

(* One answer of the policy, read or defaulted.                            *)
LEMMA AppliedIs ==
  ASSUME TypeOK, NEW r \in Requests, NEW policy \in Policy, handler[r].pc = "config",
         applyAssignmentPolicy(r, policy)
  PROVE  /\ handler' \in [Requests -> HandlerState] /\ Others(r)
         /\ lenient' = IF Strict(policy) THEN lenient ELSE lenient \cup {r}
         /\ \/ /\ handler'[r].pc = "save" /\ handler'[r].seen = handler[r].seen
               /\ handler'[r].auto = (/\ handler[r].seen.assignment = Nothing
                                      /\ policy.mode = "AUTO_ASSIGN_SELF")
               /\ \/ Kind[r] # "decide" \/ ~policy.require
                  \/ handler[r].seen.assignment # Nothing \/ handler'[r].auto
            \/ Refused(r) /\ handler'[r].pc = "error"
  <1>1. CASE Answer(r, "error")
    BY <1>1, AnswerIs DEF applyAssignmentPolicy, Noted, Answered, Others, Refused
  <1>2. CASE ~Answer(r, "error")
    <2> DEFINE auto == handler[r].seen.assignment = Nothing /\ policy.mode = "AUTO_ASSIGN_SELF"
               new == [handler[r] EXCEPT !.pc = "save", !.auto = auto]
    <2>1. /\ handler' = [handler EXCEPT ![r].pc = "save", ![r].auto = auto]
          /\ lenient' = IF Strict(policy) THEN lenient ELSE lenient \cup {r}
          /\ \/ Kind[r] # "decide" \/ ~policy.require
             \/ handler[r].seen.assignment # Nothing \/ auto
      BY <1>2 DEF applyAssignmentPolicy, Noted
    <2>2. handler \in [Requests -> HandlerState] /\ handler[r] \in HandlerState
      BY DEF TypeOK, HandlerState
    <2>3. auto \in BOOLEAN
      OBVIOUS
    <2> HIDE DEF auto
    <2>4. new \in HandlerState /\ handler' = [handler EXCEPT ![r] = new]
      BY <2>1, <2>2, <2>3 DEF HandlerState, InService
    <2>5. new.pc = "save" /\ new.seen = handler[r].seen /\ new.auto = auto
      BY <2>2 DEF HandlerState
    <2> HIDE DEF new
    <2>6. handler' \in [Requests -> HandlerState] /\ Others(r) /\ handler'[r] = new
      BY <2>2, <2>4 DEF Others
    <2>7. QED
      BY <2>1, <2>5, <2>6 DEF auto
  <1>3. QED
    BY <1>1, <1>2

LEMMA PolicyRange == TypeOK => PolicyRead \in Policy /\ DefaultPolicy \in Policy
  <1>1. DefaultPolicy \in Policy
    BY DEF DefaultPolicy, Policy
  <1>2. QED
    BY <1>1 DEF TypeOK, PolicyRead

LEMMA PolicyIs ==
  ASSUME TypeOK, NEW r \in Requests, ReadPolicy(r)
  PROVE  /\ handler' \in [Requests -> HandlerState] /\ Others(r)
         /\ handler[r].pc = "config"
         /\ lenient' \in {lenient, lenient \cup {r}}
         /\ faults' = faults \/ Fault
         /\ lenient' = lenient \/ ~Strict(PolicyRead) \/ Fault
         /\ \/ /\ handler'[r].pc = "save" /\ handler'[r].seen = handler[r].seen
               /\ handler'[r].auto \in BOOLEAN
               /\ handler'[r].auto => handler[r].seen.assignment = Nothing
               /\ \/ Kind[r] # "decide" \/ r \in lenient'
                  \/ handler[r].seen.assignment # Nothing \/ handler'[r].auto
            \/ Refused(r) /\ handler'[r].pc = "error"
  <1>1. PICK policy \in Policy : /\ applyAssignmentPolicy(r, policy) /\ handler[r].pc = "config"
                                 /\ \/ policy = PolicyRead /\ faults' = faults
                                    \/ Fault
    BY PolicyRange DEF ReadPolicy
  <1>2. Strict(policy) <=> (policy.mode = "AUTO_ASSIGN_SELF" \/ policy.require)
    BY DEF Strict
  <1>3. policy.require \in BOOLEAN
    BY DEF Policy
  <1> DEFINE auto == handler[r].seen.assignment = Nothing /\ policy.mode = "AUTO_ASSIGN_SELF"
  <1>4. /\ handler' \in [Requests -> HandlerState] /\ Others(r)
        /\ lenient' = IF Strict(policy) THEN lenient ELSE lenient \cup {r}
        /\ \/ /\ handler'[r].pc = "save" /\ handler'[r].seen = handler[r].seen
              /\ handler'[r].auto = auto
              /\ \/ Kind[r] # "decide" \/ ~policy.require
                 \/ handler[r].seen.assignment # Nothing \/ handler'[r].auto
           \/ Refused(r) /\ handler'[r].pc = "error"
    BY <1>1, AppliedIs
  <1>5. lenient' \in {lenient, lenient \cup {r}} /\ (lenient' = lenient \/ ~Strict(policy))
        /\ (~Strict(policy) => r \in lenient')
    BY <1>4
  <1>6. auto => handler[r].seen.assignment = Nothing
    OBVIOUS
  <1>7. auto \in BOOLEAN
    OBVIOUS
  <1>8. ~policy.require /\ Strict(policy) => policy.mode = "AUTO_ASSIGN_SELF"
    BY <1>2
  <1>9. ~policy.require /\ handler[r].seen.assignment = Nothing /\ ~auto => r \in lenient'
    BY <1>5, <1>8
  <1> HIDE DEF auto
  <1>10. QED
    BY <1>1, <1>4, <1>5, <1>6, <1>7, <1>9, Zenon

LEMMA SaveIs ==
  ASSUME TypeOK, NEW r \in Requests, SaveReview(r)
  PROVE  /\ handler' \in [Requests -> HandlerState] /\ Others(r)
         /\ handler[r].pc = "save"
         /\ \/ /\ handler'[r].pc = (IF handler[r].auto THEN "logAssigned" ELSE "log")
               /\ handler'[r].seen = NewReview(r) /\ handler'[r].auto = handler[r].auto
               /\ row' = [status |-> "COMPLETED", review |-> NewReview(r)]
               /\ faults' = faults
            \/ /\ Refused(r) /\ handler'[r].pc = "error" /\ Fault
               /\ row' \in {row, [status |-> "COMPLETED", review |-> NewReview(r)]}
  <1>1. CASE Answer(r, "error") /\ Fault
    BY <1>1, AnswerIs DEF SaveReview, Answered, Others, Refused
  <1>2. CASE ~(Answer(r, "error") /\ Fault)
    <2> DEFINE pc == IF handler[r].auto THEN "logAssigned" ELSE "log"
               new == [handler[r] EXCEPT !.pc = pc, !.seen = NewReview(r)]
    <2>1. /\ handler' = [handler EXCEPT ![r].pc = pc, ![r].seen = NewReview(r)]
          /\ row' = [status |-> "COMPLETED", review |-> NewReview(r)]
          /\ handler[r].pc = "save" /\ faults' = faults
      BY <1>2 DEF SaveReview
    <2>2. handler \in [Requests -> HandlerState] /\ handler[r] \in HandlerState
      BY DEF TypeOK, HandlerState
    <2>3. pc \in InService /\ NewReview(r) \in Review
      BY NewReviewIs DEF InService
    <2> HIDE DEF pc
    <2>4. new \in HandlerState /\ handler' = [handler EXCEPT ![r] = new]
      BY <2>1, <2>2, <2>3 DEF HandlerState
    <2>5. new.pc = pc /\ new.seen = NewReview(r) /\ new.auto = handler[r].auto
      BY <2>2 DEF HandlerState
    <2> HIDE DEF new
    <2>6. handler' \in [Requests -> HandlerState] /\ Others(r) /\ handler'[r] = new
      BY <2>2, <2>4 DEF Others
    <2>7. QED
      BY <2>1, <2>5, <2>6 DEF pc
  <1>3. QED
    BY <1>1, <1>2

LEMMA LogIs ==
  ASSUME TypeOK, NEW r \in Requests, LogAutoAssignment(r) \/ LogAction(r)
  PROVE  LET type == IF handler[r].pc = "logAssigned" THEN "ANALYST_ASSIGNED" ELSE EventOf(r)
             logged == Append(log, [type |-> type, by |-> r])
         IN  /\ handler' \in [Requests -> HandlerState] /\ Others(r)
             /\ handler[r].pc \in {"logAssigned", "log"}
             /\ LogAutoAssignment(r) => handler[r].pc = "logAssigned"
             /\ UNCHANGED <<row, audit, sample, config, putting, announcer, lenient, puts, limit>>
             /\ \/ /\ log' = logged /\ faults' = faults
                   /\ handler'[r].pc =
                         IF handler[r].pc = "logAssigned" THEN "log"
                         ELSE IF Kind[r] = "decide" /\ handler[r].seen.analystSentiment # Nothing
                         THEN "sample" ELSE "audit"
                   /\ handler'[r].seen = handler[r].seen /\ handler'[r].auto = handler[r].auto
                \/ Fault /\ log' \in {log, logged} /\ Refused(r) /\ handler'[r].pc = "error"
  <1>1. CASE LogAutoAssignment(r)
    BY <1>1, GotoIs, AnswerIs DEF LogAutoAssignment, LogStep, InService, Answered, Others, Refused
  <1>2. CASE LogAction(r)
    <2> DEFINE to == IF Kind[r] = "decide" /\ handler[r].seen.analystSentiment # Nothing
                     THEN "sample" ELSE "audit"
               logged == Append(log, [type |-> EventOf(r), by |-> r])
    <2>1. to \in InService
      BY DEF InService
    <2>2. /\ handler[r].pc = "log"
          /\ UNCHANGED <<row, audit, sample, config, putting, announcer, lenient, puts, limit>>
          /\ \/ log' = logged /\ Goto(r, to) /\ UNCHANGED faults
             \/ Fault /\ log' \in {log, logged} /\ Answer(r, "error")
      BY <1>2 DEF LogAction, LogStep
    <2>3. ~LogAutoAssignment(r)
      BY <2>2 DEF LogAutoAssignment, LogStep
    <2> HIDE DEF logged, to
    <2>4. CASE log' = logged /\ Goto(r, to) /\ UNCHANGED faults
      BY <2>1, <2>2, <2>3, <2>4, GotoIs DEF Others, logged, to
    <2>5. CASE Fault /\ log' \in {log, logged} /\ Answer(r, "error")
      BY <2>2, <2>3, <2>5, AnswerIs DEF Others, Refused, Answered, logged
    <2>6. QED
      BY <2>2, <2>4, <2>5
  <1>3. QED
    BY <1>1, <1>2

LEMMA SampleIs ==
  ASSUME TypeOK, NEW r \in Requests, SaveSample(r)
  PROVE  LET kept == IF sample = Nothing THEN handler[r].seen.analystSentiment ELSE sample
         IN  /\ handler' \in [Requests -> HandlerState] /\ Others(r)
             /\ handler[r].pc = "sample" /\ handler'[r].pc = "audit"
             /\ handler'[r].seen = handler[r].seen /\ handler'[r].auto = handler[r].auto
             /\ (sample' = kept /\ faults' = faults) \/ (Fault /\ sample' \in {sample, kept})
             /\ UNCHANGED <<row, log, audit, config, putting, announcer, lenient, puts, limit>>
  BY GotoIs DEF SaveSample, SampleStep, InService, Others

LEMMA AuditIs ==
  ASSUME TypeOK, NEW r \in Requests, AppendAudit(r)
  PROVE  /\ handler' \in [Requests -> HandlerState] /\ Others(r)
         /\ handler[r].pc = "audit" /\ Refused(r)
         /\ \/ handler'[r].pc = "ok" /\ audit' = audit \cup {r} /\ faults' = faults
            \/ handler'[r].pc = "error" /\ audit' \in {audit, audit \cup {r}} /\ Fault
         /\ UNCHANGED <<row, log, sample, config, putting, announcer, lenient, puts, limit>>
  BY AnswerIs DEF AppendAudit, Answered, Others, Refused
-----------------------------------------------------------------------------
LEMMA TypeStep == TypeOK /\ [Next]_vars => TypeOK'
  <1> SUFFICES ASSUME TypeOK, [Next]_vars PROVE TypeOK'
    OBVIOUS
  <1>0. Fault => faults' \in 0..MaxFaults
    BY DEF Fault, TypeOK
  <1>1. ASSUME NEW r \in Requests, CheckRun(r) PROVE TypeOK'
    BY <1>1, CheckIs DEF CheckRun, TypeOK, HandlerState
  <1>2. ASSUME NEW r \in Requests, FetchRun(r) PROVE TypeOK'
    BY <1>0, <1>2, FetchIs DEF FetchRun, TypeOK, HandlerState
  <1>3. ASSUME NEW r \in Requests, ReadPolicy(r) PROVE TypeOK'
    <2>1. handler' \in [Requests -> HandlerState] /\ lenient' \subseteq Requests
          /\ faults' \in 0..MaxFaults
      BY <1>0, <1>3, PolicyIs DEF TypeOK
    <2>2. QED
      BY <1>3, <2>1 DEF ReadPolicy, TypeOK, HandlerState
  <1>4. ASSUME NEW r \in Requests, SaveReview(r) PROVE TypeOK'
    <2>1. row' \in [status : {"COMPLETED", "FAILED"}, review : Review]
      BY <1>4, SaveIs, NewReviewIs DEF TypeOK
    <2>2. handler' \in [Requests -> HandlerState] /\ faults' \in 0..MaxFaults
      BY <1>0, <1>4, SaveIs DEF TypeOK
    <2>3. QED
      BY <1>4, <2>1, <2>2 DEF SaveReview, TypeOK, HandlerState
  <1>5. ASSUME NEW r \in Requests, LogAutoAssignment(r) \/ LogAction(r) PROVE TypeOK'
    <2> DEFINE type == IF handler[r].pc = "logAssigned" THEN "ANALYST_ASSIGNED" ELSE EventOf(r)
               e == [type |-> type, by |-> r]
    <2>1. type \in EventType
      BY KindsAre DEF EventOf, EventType
    <2> HIDE DEF type
    <2>2. e \in [type : EventType, by : Requests]
      BY <2>1
    <2>3. log' \in {log, Append(log, e)} /\ handler' \in [Requests -> HandlerState]
          /\ UNCHANGED <<row, audit, sample, config, putting, announcer, lenient, puts, limit>>
          /\ faults' \in 0..MaxFaults
      BY <1>0, <1>5, LogIs DEF TypeOK, type
    <2> HIDE DEF e
    <2>4. log' \in Seq([type : EventType, by : Requests])
      <3> DEFINE S == [type : EventType, by : Requests]
      <3>1. log \in Seq(S) /\ e \in S
        BY <2>2 DEF TypeOK
      <3> HIDE DEF S
      <3>2. log' \in Seq(S)
        BY <2>3, <3>1
      <3>3. QED
        BY <3>2 DEF S
    <2>5. QED
      BY <2>3, <2>4 DEF TypeOK, HandlerState
  <1>6. ASSUME NEW r \in Requests, SaveSample(r) PROVE TypeOK'
    <2>1. handler[r].seen.analystSentiment \in MaybeRequest
      BY DEF TypeOK, Review
    <2>2. sample' \in MaybeRequest
      BY <1>6, <2>1, SampleIs DEF TypeOK
    <2>3. QED
      BY <1>0, <1>6, <2>2, SampleIs DEF TypeOK, HandlerState
  <1>7. ASSUME NEW r \in Requests, AppendAudit(r) PROVE TypeOK'
    <2>1. audit' \subseteq Requests /\ faults' \in 0..MaxFaults
      BY <1>0, <1>7, AuditIs DEF TypeOK
    <2>2. QED
      BY <1>7, <2>1, AuditIs DEF TypeOK, HandlerState
  <1>8. ASSUME NEW p \in Policies, TruncateConfig(p) PROVE TypeOK'
    BY <1>8 DEF TruncateConfig, TypeOK
  <1>9. CASE WriteConfig
    BY <1>9 DEF WriteConfig, TypeOK
  <1>10. CASE Announce
    BY <1>0, <1>10 DEF Announce, TypeOK
  <1>11. CASE FailRun
    BY <1>0, <1>11, FailedRowType DEF FailRun, TypeOK
  <1>12. CASE UNCHANGED vars
    BY <1>12 DEF vars, TypeOK
  <1>13. QED
    BY <1>1, <1>2, <1>3, <1>4, <1>5, <1>6, <1>7, <1>8, <1>9, <1>10, <1>11, <1>12
       DEF Next, Serve

LEMMA TypeInit == Init => TypeOK
  <1> SUFFICES ASSUME Init PROVE TypeOK
    OBVIOUS
  <1>1. At("unsent") \in HandlerState
    BY AtType
  <1>2. handler \in [Requests -> HandlerState]
    BY <1>1 DEF Init
  <1>3. row \in [status : {"COMPLETED", "FAILED"}, review : Review]
    BY FreshType DEF Init
  <1>4. QED
    BY <1>2, <1>3 DEF Init, TypeOK, HandlerState, MaybeRequest

(* Every reachable state is well typed: the records, the log and the locals *)
(* of every handler are what the code says they are.                       *)
THEOREM Typed == Spec => []TypeOK
  BY TypeInit, TypeStep, PTL DEF Spec
-----------------------------------------------------------------------------
(* One more entry in a history. *)
LEMMA EntriesType ==
  ASSUME NEW review \in Review
  PROVE  /\ review.history \in Seq(Entry) /\ LabelsOf(review) \in Seq(Entry)
         /\ \A kind : EntriesOf(review, kind) \in Seq(Entry)
  <1>1. review.history \in Seq(Entry)
    BY DEF Review
  <1>2. QED
    BY <1>1, KeptType DEF EntriesOf, LabelsOf

LEMMA EntriesAppend ==
  ASSUME NEW review \in Review, NEW new \in Review, NEW e \in Entry,
         new.history = Append(review.history, e)
  PROVE  /\ \A kind : EntriesOf(new, kind) = IF e.kind = kind THEN Append(EntriesOf(review, kind), e)
                                             ELSE EntriesOf(review, kind)
         /\ LabelsOf(new) = IF e.kind = "DECISION" /\ e.by \in Labelled
                            THEN Append(LabelsOf(review), e) ELSE LabelsOf(review)
  <1>1. review.history \in Seq(Entry)
    BY EntriesType
  <1>2. ASSUME NEW keep
        PROVE  Kept(new.history, keep) = IF e \in keep THEN Append(Kept(review.history, keep), e)
                                         ELSE Kept(review.history, keep)
    <2> DEFINE h == review.history
               g == new.history
    <2>1. h \in Seq(Entry) /\ g = Append(h, e)
      BY <1>1
    <2> HIDE DEF h, g
    <2>2. Kept(Append(h, e), keep) = IF e \in keep THEN Append(Kept(h, keep), e) ELSE Kept(h, keep)
      BY <2>1, KeptAppend
    <2>3. Kept(g, keep) = IF e \in keep THEN Append(Kept(h, keep), e) ELSE Kept(h, keep)
      BY <2>1, <2>2
    <2>4. QED
      BY <2>3 DEF g, h
  <1>3. \A kind : e \in [kind : {kind}, by : Requests] <=> e.kind = kind
    BY DEF Entry
  <1>4. e \in [kind : {"DECISION"}, by : Labelled] <=> e.kind = "DECISION" /\ e.by \in Labelled
    BY DEF Entry
  <1>5. QED
    BY <1>2, <1>3, <1>4 DEF EntriesOf, LabelsOf

LEMMA LastAppend ==
  ASSUME NEW s \in Seq(Entry), NEW e \in Entry
  PROVE  /\ LastBy(Append(s, e)) = e.by /\ Append(s, e) # << >>
         /\ LastBy(<< >>) = Nothing /\ FirstBy(<< >>) = Nothing
         /\ FirstBy(Append(s, e)) = IF s = << >> THEN e.by ELSE FirstBy(s)
  <1> DEFINE t == Append(s, e)
  <1>1. t \in Seq(Entry) /\ Len(t) = Len(s) + 1 /\ t[Len(t)] = e /\ Len(s) \in Nat
    OBVIOUS
  <1>2. t # << >>
    BY <1>1, EmptySeq
  <1>3. s = << >> <=> Len(s) = 0
    BY EmptySeq
  <1>4. s # << >> => t[1] = s[1]
    <2>1. s # << >> => 1 \in 1..Len(s)
      BY <1>1, <1>3
    <2>2. \A i \in 1..Len(s) : t[i] = s[i]
      OBVIOUS
    <2>3. QED
      BY <2>1, <2>2
  <1>5. s = << >> => t[1] = e
    BY <1>1, <1>3
  <1> HIDE DEF t
  <1>6. LastBy(t) = e.by /\ FirstBy(t) = (IF s = << >> THEN e.by ELSE FirstBy(s))
    BY <1>1, <1>2, <1>4, <1>5 DEF LastBy, FirstBy
  <1>7. QED
    BY <1>2, <1>6 DEF LastBy, FirstBy, t

LEMMA ByAppend ==
  ASSUME NEW s \in Seq(Entry), NEW e \in Entry
  PROVE  LET t == Append(s, e) IN
         [i \in DOMAIN t |-> t[i].by] = Append([i \in DOMAIN s |-> s[i].by], e.by)
  <1> DEFINE t == Append(s, e)
             a == [i \in DOMAIN t |-> t[i].by]
             c == [i \in DOMAIN s |-> s[i].by]
             b == Append(c, e.by)
  <1>1. /\ t \in Seq(Entry) /\ Len(s) \in Nat /\ Len(t) = Len(s) + 1 /\ t[Len(t)] = e
        /\ DOMAIN t = 1..Len(t) /\ DOMAIN s = 1..Len(s)
        /\ \A i \in 1..Len(s) : t[i] = s[i]
    OBVIOUS
  <1>2. /\ \A i \in 1..Len(s) : s[i].by \in Requests
        /\ e.by \in Requests
        /\ \A i \in 1..Len(t) : t[i].by \in Requests
    <2>1. \A x \in Entry : x.by \in Requests
      BY DEF Entry
    <2> HIDE DEF t
    <2>2. (\A i \in 1..Len(s) : s[i] \in Entry) /\ \A i \in 1..Len(t) : t[i] \in Entry
      BY <1>1
    <2>3. QED
      BY <2>1, <2>2
  <1> HIDE DEF t
  <1>3. a \in Seq(Requests) /\ Len(a) = Len(t)
    BY <1>1, <1>2
  <1>4. c \in Seq(Requests) /\ Len(c) = Len(s)
    BY <1>1, <1>2
  <1>5. \A i \in 1..Len(t) : a[i] = t[i].by
    BY <1>1
  <1>6. \A i \in 1..Len(s) : c[i] = s[i].by
    BY <1>1
  <1> HIDE DEF a, c
  <1>7. b \in Seq(Requests) /\ Len(b) = Len(s) + 1 /\ b[Len(s) + 1] = e.by
        /\ \A i \in 1..Len(s) : b[i] = c[i]
    BY <1>2, <1>4
  <1> HIDE DEF b
  <1>8. Len(a) = Len(b) /\ \A i \in 1..Len(a) : a[i] = b[i]
    BY <1>1, <1>3, <1>5, <1>6, <1>7
  <1>9. a = b
    BY <1>3, <1>7, <1>8, SeqEqual
  <1>10. QED
    BY <1>9 DEF a, b, c, t

(* The reviews of the three handlers replay the histories they extend.     *)
LEMMA AssignedReplays ==
  ASSUME NEW review \in Review, ReplaysHistory(review), NEW r \in Requests
  PROVE  ReplaysHistory(Assigned(review, r))
  <1> DEFINE new == Assigned(review, r)
             e == [kind |-> "ASSIGNED", by |-> r]
  <1>1. /\ new \in Review /\ new.history = Append(review.history, e) /\ new.state = review.state
        /\ new.assignment = r /\ new.comments = review.comments
        /\ new.resolution = review.resolution /\ new.analystSentiment = review.analystSentiment
    BY AssignedIs
  <1>2. e \in Entry /\ e.kind = "ASSIGNED" /\ e.by = r
    BY DEF Entry
  <1> HIDE DEF new, e
  <1>3. /\ EntriesOf(new, "DECISION") = EntriesOf(review, "DECISION")
        /\ EntriesOf(new, "COMMENT") = EntriesOf(review, "COMMENT")
        /\ EntriesOf(new, "ASSIGNED") = Append(EntriesOf(review, "ASSIGNED"), e)
        /\ LabelsOf(new) = LabelsOf(review)
    BY <1>1, <1>2, EntriesAppend
  <1>4. LastBy(EntriesOf(new, "ASSIGNED")) = r
    <2>1. EntriesOf(review, "ASSIGNED") \in Seq(Entry)
      BY EntriesType
    <2>2. QED
      BY <1>2, <1>3, <2>1, LastAppend
  <1>5. ReplaysHistory(new)
    BY <1>1, <1>3, <1>4 DEF ReplaysHistory
  <1>6. QED
    BY <1>5 DEF new

LEMMA CommentedReplays ==
  ASSUME NEW review \in Review, ReplaysHistory(review), NEW r \in Requests
  PROVE  ReplaysHistory(Commented(review, r))
  <1> DEFINE new == Commented(review, r)
             e == [kind |-> "COMMENT", by |-> r]
             old == EntriesOf(review, "COMMENT")
  <1>1. /\ new \in Review /\ new.history = Append(review.history, e) /\ new.state = review.state
        /\ new.assignment = review.assignment /\ new.comments = Append(review.comments, r)
        /\ new.resolution = review.resolution /\ new.analystSentiment = review.analystSentiment
    BY CommentedIs
  <1>2. e \in Entry /\ e.kind = "COMMENT" /\ e.by = r
    BY DEF Entry
  <1> HIDE DEF new, e
  <1>3. /\ EntriesOf(new, "DECISION") = EntriesOf(review, "DECISION")
        /\ EntriesOf(new, "ASSIGNED") = EntriesOf(review, "ASSIGNED")
        /\ EntriesOf(new, "COMMENT") = Append(old, e)
        /\ LabelsOf(new) = LabelsOf(review)
    BY <1>1, <1>2, EntriesAppend
  <1>4. old \in Seq(Entry) /\ review.comments = [i \in DOMAIN old |-> old[i].by]
    BY EntriesType DEF ReplaysHistory
  <1> HIDE DEF old
  <1>5. new.comments = [i \in DOMAIN Append(old, e) |-> Append(old, e)[i].by]
    BY <1>1, <1>2, <1>4, ByAppend
  <1>6. ReplaysHistory(new)
    BY <1>1, <1>3, <1>5 DEF ReplaysHistory
  <1>7. QED
    BY <1>6 DEF new

LEMMA DecidedReplays ==
  ASSUME NEW review \in Review, ReplaysHistory(review), NEW r \in Requests
  PROVE  ReplaysHistory(Decided(review, r))
  <1> DEFINE new == Decided(review, r)
             e == [kind |-> "DECISION", by |-> r]
  <1>1. /\ new \in Review /\ new.history = Append(review.history, e)
        /\ new.state = Resulting(Decision[r])
        /\ new.assignment = review.assignment /\ new.comments = review.comments
        /\ new.resolution = r
        /\ new.analystSentiment = IF r \in Labelled THEN r ELSE review.analystSentiment
    BY DecidedIs
  <1>2. e \in Entry /\ e.kind = "DECISION" /\ e.by = r
    BY DEF Entry
  <1> HIDE DEF new, e
  <1>3. /\ EntriesOf(new, "DECISION") = Append(EntriesOf(review, "DECISION"), e)
        /\ EntriesOf(new, "ASSIGNED") = EntriesOf(review, "ASSIGNED")
        /\ EntriesOf(new, "COMMENT") = EntriesOf(review, "COMMENT")
        /\ LabelsOf(new) = IF r \in Labelled THEN Append(LabelsOf(review), e) ELSE LabelsOf(review)
    BY <1>1, <1>2, EntriesAppend
  <1>4. LastBy(EntriesOf(new, "DECISION")) = r
    <2>1. EntriesOf(review, "DECISION") \in Seq(Entry)
      BY EntriesType
    <2>2. QED
      BY <1>2, <1>3, <2>1, LastAppend
  <1>5. LastBy(LabelsOf(new)) = IF r \in Labelled THEN r ELSE LastBy(LabelsOf(review))
    BY <1>2, <1>3, LastAppend, EntriesType
  <1>6. ReplaysHistory(new)
    BY <1>1, <1>3, <1>4, <1>5 DEF ReplaysHistory
  <1>7. QED
    BY <1>6 DEF new

LEMMA FreshReplays == \A state \in ReviewState : ReplaysHistory(Fresh(state))
  <1> TAKE state \in ReviewState
  <1> DEFINE new == Fresh(state)
  <1>1. new.history = << >> /\ new.comments = << >> /\ new.assignment = Nothing
        /\ new.resolution = Nothing /\ new.analystSentiment = Nothing
    BY DEF Fresh
  <1>2. (\A kind : EntriesOf(new, kind) = << >>) /\ LabelsOf(new) = << >>
    BY <1>1, KeptEmpty DEF EntriesOf, LabelsOf
  <1> HIDE DEF new
  <1>3. << >> = [i \in DOMAIN << >> |-> << >>[i].by]
    OBVIOUS
  <1>4. ReplaysHistory(new)
    BY <1>1, <1>2, <1>3 DEF ReplaysHistory, LastBy
  <1>5. QED
    BY <1>4 DEF new

(* Every review there is, in the record and in the handlers, is one there  *)
(* was, a fresh one, or the new review of a request.                       *)
LEMMA ReviewsMove ==
  ASSUME TypeOK, [Next]_vars
  PROVE  LET old == {row.review} \cup {handler[r].seen : r \in Requests}
                       \cup {Fresh(state) : state \in ReviewState}
             new == {NewReview(r) : r \in {q \in Requests : SaveReview(q)}}
         IN  /\ row'.review \in old \cup new
             /\ \A r \in Requests : handler'[r].seen \in old \cup new
  <1> DEFINE old == {row.review} \cup {handler[r].seen : r \in Requests}
                       \cup {Fresh(state) : state \in ReviewState}
             new == {NewReview(r) : r \in {q \in Requests : SaveReview(q)}}
  <1>1. "NEEDS_REVIEW" \in ReviewState
    BY DEF ReviewState
  <1>2. ASSUME NEW r \in Requests, CheckRun(r) \/ Serve(r)
        PROVE  row'.review \in old \cup new /\ \A q \in Requests : handler'[q].seen \in old \cup new
    <2>1. Others(r) => \A q \in Requests \ {r} : handler'[q].seen \in old
      BY DEF Others
    <2>2. Refused(r) => handler'[r].seen \in old
      BY <1>1 DEF Refused
    <2>3. CASE CheckRun(r)
      BY <2>1, <2>2, <2>3, CheckIs DEF CheckRun
    <2>4. CASE FetchRun(r)
      BY <2>1, <2>2, <2>4, FetchIs DEF FetchRun
    <2>5. CASE ReadPolicy(r)
      <3>1. Others(r) /\ (handler'[r].seen = handler[r].seen \/ Refused(r)) /\ row' = row
        BY <2>5, PolicyIs DEF ReadPolicy
      <3>2. QED
        BY <2>1, <2>2, <3>1
    <2>6. CASE SaveReview(r)
      <3>1. NewReview(r) \in new /\ row.review \in old
        BY <2>6
      <3> HIDE DEF old, new
      <3>2. row'.review \in old \cup new
        BY <2>6, <3>1, SaveIs
      <3>3. handler'[r].seen \in old \cup new
        BY <2>2, <2>6, <3>1, SaveIs
      <3>4. Others(r)
        BY <2>6, SaveIs
      <3>5. QED
        BY <2>1, <3>2, <3>3, <3>4
    <2>7. CASE LogAutoAssignment(r) \/ LogAction(r)
      BY <2>1, <2>2, <2>7, LogIs
    <2>8. CASE SaveSample(r) \/ AppendAudit(r)
      BY <2>1, <2>2, <2>8, SampleIs, AuditIs
    <2>9. QED
      BY <1>2, <2>3, <2>4, <2>5, <2>6, <2>7, <2>8 DEF Serve
  <1>3. CASE FailRun
    <2>1. row'.review \in old
      BY <1>1, <1>3 DEF FailRun, FailedRow
    <2>2. QED
      BY <1>3, <2>1 DEF FailRun
  <1>4. CASE UNCHANGED <<row, handler>>
    BY <1>4
  <1>5. QED
    BY <1>2, <1>3, <1>4 DEF Next, vars, TruncateConfig, WriteConfig, Announce

(* However many handlers write over each other, and whatever fails, the    *)
(* record of a run and every copy a handler carries is what replaying its  *)
(* own history gives.                                                      *)
THEOREM RecordsReplay == Spec => []ReviewReplaysHistory
  <1>1. Init => ReviewReplaysHistory
    <2> SUFFICES ASSUME Init PROVE ReviewReplaysHistory
      OBVIOUS
    <2>1. \A r \in Requests : handler[r].seen = Fresh("NEEDS_REVIEW")
      BY DEF Init, At
    <2>2. ReplaysHistory(row.review)
      BY FreshReplays DEF Init
    <2>3. QED
      BY <2>1, <2>2, FreshReplays DEF ReviewReplaysHistory, ReviewState
  <1>2. TypeOK /\ ReviewReplaysHistory /\ [Next]_vars => ReviewReplaysHistory'
    <2> SUFFICES ASSUME TypeOK, ReviewReplaysHistory, [Next]_vars PROVE ReviewReplaysHistory'
      OBVIOUS
    <2>1. ASSUME NEW r \in Requests PROVE ReplaysHistory(NewReview(r))
      <3>1. ReplaysHistory(handler[r].seen) /\ handler[r].seen \in Review /\ Base(r) \in Review
        BY NewReviewIs DEF ReviewReplaysHistory
      <3>2. ReplaysHistory(Base(r))
        BY <3>1, AssignedReplays DEF Base
      <3>3. CASE Kind[r] = "assign"
        BY <3>1, <3>3, NewReviewIs, AssignedReplays
      <3>4. CASE Kind[r] = "comment"
        BY <3>1, <3>2, <3>4, NewReviewIs, CommentedReplays
      <3>5. CASE Kind[r] = "decide"
        BY <3>1, <3>2, <3>5, NewReviewIs, DecidedReplays
      <3>6. QED
        BY <3>3, <3>4, <3>5, KindsAre
    <2> DEFINE old == {row.review} \cup {handler[r].seen : r \in Requests}
                         \cup {Fresh(state) : state \in ReviewState}
               new == {NewReview(r) : r \in {q \in Requests : SaveReview(q)}}
    <2>2. \A review \in old \cup new : ReplaysHistory(review)
      BY <2>1, FreshReplays DEF ReviewReplaysHistory
    <2>3. row'.review \in old \cup new /\ \A r \in Requests : handler'[r].seen \in old \cup new
      BY ReviewsMove
    <2> HIDE DEF old, new
    <2>4. ReplaysHistory(row'.review) /\ \A r \in Requests : ReplaysHistory(handler'[r].seen)
      BY <2>2, <2>3
    <2>5. QED
      BY <2>4 DEF ReviewReplaysHistory, ReplaysHistory, EntriesOf, LabelsOf
  <1>3. QED
    BY <1>1, <1>2, Typed, PTL DEF Spec

LEMMA PairAppend ==
  ASSUME NEW T, NEW a \in T, NEW b \in T
  PROVE  Append(<< >>, a) = <<a>> /\ Append(Append(<< >>, a), b) = <<a, b>>
  <1> DEFINE s == Append(Append(<< >>, a), b)
             t == <<a, b>>
  <1>1. Append(<< >>, a) = <<a>>
    <2> DEFINE x == Append(<< >>, a)
               y == <<a>>
    <2>1. x \in Seq(T) /\ y \in Seq(T) /\ Len(x) = 1 /\ Len(y) = 1 /\ x[1] = a /\ y[1] = a
      OBVIOUS
    <2> HIDE DEF x, y
    <2>2. \A i \in 1..Len(x) : x[i] = y[i]
      BY <2>1
    <2>3. x = y
      BY <2>1, <2>2, SeqEqual
    <2>4. QED
      BY <2>3 DEF x, y
  <1>2. s \in Seq(T) /\ t \in Seq(T) /\ Len(s) = 2 /\ Len(t) = 2
    OBVIOUS
  <1>3. s[1] = a /\ s[2] = b /\ t[1] = a /\ t[2] = b
    OBVIOUS
  <1> HIDE DEF s, t
  <1>4. ASSUME NEW i \in 1..Len(s) PROVE s[i] = t[i]
    <2>1. i = 1 \/ i = 2
      BY <1>2
    <2>2. QED
      BY <1>3, <2>1
  <1>5. s = t
    BY <1>2, <1>4, SeqEqual
  <1>6. QED
    BY <1>1, <1>5 DEF s, t
-----------------------------------------------------------------------------
(* Where a handler is before its write.                                    *)
Before == {"unsent", "fetch", "config", "save"}

Own(r) == [type |-> EventOf(r), by |-> r]
AutoLogged(r) == [type |-> "ANALYST_ASSIGNED", by |-> r]
EventsBy(r) == [type : EventType, by : {r}]
Mine(r) == Kept(log, EventsBy(r))

(* What a handler has logged is told by where it is.                       *)
LoggedOnce(r) ==
    LET pc == handler[r].pc IN
    /\ pc \in Before \cup {"logAssigned"} => Mine(r) = << >>
    /\ pc = "log" => Mine(r) \in {<< >>, Append(<< >>, AutoLogged(r))}
    /\ pc \in {"sample", "audit", "ok"} =>
          Mine(r) \in {Append(<< >>, Own(r)), Append(Append(<< >>, AutoLogged(r)), Own(r))}
    /\ pc = "ok" => r \in audit
LoggedInv == \A r \in Requests : LoggedOnce(r)

Event == [type : EventType, by : Requests]

LEMMA EventsAre ==
  ASSUME NEW r \in Requests PROVE Own(r) \in Event /\ AutoLogged(r) \in Event
  <1>1. EventOf(r) \in EventType /\ "ANALYST_ASSIGNED" \in EventType
    BY KindsAre DEF EventOf, EventType
  <1>2. QED
    BY <1>1 DEF Own, AutoLogged, Event

LEMMA LogAppend ==
  ASSUME TypeOK, NEW q \in Requests, NEW e \in Event, e.by = q, log' = Append(log, e)
  PROVE  \A r \in Requests : Mine(r)' = IF r = q THEN Append(Mine(r), e) ELSE Mine(r)
  <1>1. log \in Seq(Event)
    BY DEF TypeOK, Event
  <1>2. \A r \in Requests : e \in EventsBy(r) <=> r = q
    BY DEF Event, EventsBy
  <1>3. ASSUME NEW r \in Requests
        PROVE  Kept(log', EventsBy(r)) = IF r = q THEN Append(Kept(log, EventsBy(r)), e)
                                         ELSE Kept(log, EventsBy(r))
    BY <1>1, <1>2, KeptAppend
  <1>4. QED
    BY <1>3 DEF Mine, EventsBy

LEMMA LoggedFrame ==
  ASSUME LoggedInv, UNCHANGED log, audit \subseteq audit', NEW r \in Requests,
         \/ handler'[r].pc = handler[r].pc
         \/ handler[r].pc \in Before /\ handler'[r].pc \in Before \cup {"logAssigned", "log"}
         \/ handler[r].pc \in {"sample", "audit"} /\ handler'[r].pc \in {"sample", "audit"}
         \/ handler[r].pc = "audit" /\ handler'[r].pc = "ok" /\ r \in audit'
         \/ handler'[r].pc \in {"error", "refused"}
  PROVE  LoggedOnce(r)'
  <1>1. LoggedOnce(r) /\ Mine(r)' = Mine(r)
    BY DEF LoggedInv, Mine, EventsBy
  <1>2. Own(r)' = Own(r) /\ AutoLogged(r)' = AutoLogged(r)
    BY DEF Own, AutoLogged, EventOf
  <1>3. QED
    BY <1>1, <1>2 DEF LoggedOnce, Before

LEMMA LoggedStep == TypeOK /\ LoggedInv /\ [Next]_vars => LoggedInv'
  <1> SUFFICES ASSUME TypeOK, LoggedInv, [Next]_vars PROVE LoggedInv'
    OBVIOUS
  <1>1. ASSUME NEW q \in Requests, CheckRun(q) \/ FetchRun(q) \/ ReadPolicy(q) \/ SaveReview(q)
                                     \/ SaveSample(q)
        PROVE  LoggedInv'
    <2>1. UNCHANGED <<log, audit>> /\ Others(q)
          /\ \/ handler[q].pc \in Before /\ handler'[q].pc \in Before \cup {"logAssigned", "log"}
             \/ handler[q].pc = "sample" /\ handler'[q].pc = "audit"
             \/ handler'[q].pc \in {"error", "refused"}
      <3>1. CASE CheckRun(q)
        BY <3>1, CheckIs DEF CheckRun, Before
      <3>2. CASE FetchRun(q)
        BY <3>2, FetchIs DEF FetchRun, Before
      <3>3. CASE ReadPolicy(q)
        BY <3>3, PolicyIs DEF ReadPolicy, Before
      <3>4. CASE SaveReview(q)
        BY <3>4, SaveIs DEF SaveReview, Before
      <3>5. CASE SaveSample(q)
        BY <3>5, SampleIs
      <3>6. QED
        BY <1>1, <3>1, <3>2, <3>3, <3>4, <3>5
    <2>2. ASSUME NEW r \in Requests PROVE LoggedOnce(r)'
      <3>1. CASE r = q
        BY <2>1, <3>1, LoggedFrame
      <3>2. CASE r # q
        BY <2>1, <3>2, LoggedFrame DEF Others
      <3>3. QED
        BY <3>1, <3>2
    <2>3. QED
      BY <2>2 DEF LoggedInv
  <1>2. ASSUME NEW q \in Requests, LogAutoAssignment(q) \/ LogAction(q) PROVE LoggedInv'
    <2> DEFINE e == IF handler[q].pc = "logAssigned" THEN AutoLogged(q) ELSE Own(q)
    <2>1. /\ Others(q) /\ handler[q].pc \in {"logAssigned", "log"} /\ audit' = audit
          /\ \/ /\ log' = Append(log, e)
                /\ \/ handler[q].pc = "logAssigned" /\ handler'[q].pc = "log"
                   \/ handler[q].pc = "log" /\ handler'[q].pc \in {"sample", "audit"}
             \/ log' \in {log, Append(log, e)} /\ handler'[q].pc = "error"
      BY <1>2, LogIs DEF Own, AutoLogged
    <2>2. e \in Event /\ e.by = q
      BY EventsAre DEF Own, AutoLogged
    <2>3. e = IF handler[q].pc = "logAssigned" THEN AutoLogged(q) ELSE Own(q)
      OBVIOUS
    <2> HIDE DEF e
    <2>4. CASE log' = log
      <3>1. ASSUME NEW r \in Requests PROVE LoggedOnce(r)'
        <4>1. log # Append(log, e)
          BY <2>2 DEF TypeOK, Event
        <4>2. handler'[q].pc = "error"
          BY <2>1, <2>4, <4>1
        <4>3. QED
          BY <2>1, <2>4, <4>2, LoggedFrame DEF Others
      <3>2. QED
        BY <3>1 DEF LoggedInv
    <2>5. CASE log' = Append(log, e)
      <3>1. \A r \in Requests : Mine(r)' = IF r = q THEN Append(Mine(r), e) ELSE Mine(r)
        BY <2>2, <2>5, LogAppend
      <3>2. \A r \in Requests : Own(r)' = Own(r) /\ AutoLogged(r)' = AutoLogged(r)
        BY DEF Own, AutoLogged, EventOf
      <3>3. LoggedOnce(q)'
        <4>1. CASE handler[q].pc = "logAssigned"
          BY <2>1, <2>3, <3>1, <3>2, <4>1 DEF LoggedInv, LoggedOnce, Before
        <4>2. CASE handler[q].pc = "log"
          BY <2>1, <2>3, <3>1, <3>2, <4>2 DEF LoggedInv, LoggedOnce, Before
        <4>3. QED
          BY <2>1, <4>1, <4>2
      <3>4. ASSUME NEW r \in Requests \ {q} PROVE LoggedOnce(r)'
        BY <2>1, <3>1, <3>2 DEF LoggedInv, LoggedOnce, Others
      <3>5. QED
        BY <3>3, <3>4 DEF LoggedInv
    <2>6. QED
      BY <2>1, <2>4, <2>5
  <1>3. ASSUME NEW q \in Requests, AppendAudit(q) PROVE LoggedInv'
    <2>1. ASSUME NEW r \in Requests PROVE LoggedOnce(r)'
      BY <1>3, AuditIs, LoggedFrame DEF Others
    <2>2. QED
      BY <2>1 DEF LoggedInv
  <1>4. CASE UNCHANGED <<log, audit, handler>>
    <2>1. ASSUME NEW r \in Requests PROVE LoggedOnce(r)'
      BY <1>4, LoggedFrame
    <2>2. QED
      BY <2>1 DEF LoggedInv
  <1>5. QED
    BY <1>1, <1>2, <1>3, <1>4
       DEF Next, Serve, vars, TruncateConfig, WriteConfig, Announce, FailRun

(* A request that was answered with 200 left its run events once, in their *)
(* order, and its audit event, beside any number of other requests.        *)
THEOREM AnswersAreLogged == Spec => []AnsweredIsLogged
  <1>1. Init => LoggedInv
    <2> SUFFICES ASSUME Init PROVE LoggedInv
      OBVIOUS
    <2>1. \A r \in Requests : handler[r].pc = "unsent" /\ Mine(r) = << >>
      BY KeptEmpty DEF Init, At, Mine
    <2>2. QED
      BY <2>1 DEF LoggedInv, LoggedOnce
  <1>2. LoggedInv => AnsweredIsLogged
    <2> SUFFICES ASSUME LoggedInv, NEW r \in Requests, handler[r].pc = "ok"
                 PROVE  /\ r \in audit
                        /\ Kept(log, [type : EventType, by : {r}]) \in
                              {<<Own(r)>>, <<AutoLogged(r), Own(r)>>}
      BY DEF AnsweredIsLogged, Own, AutoLogged
    <2>1. r \in audit /\ Mine(r) \in {Append(<< >>, Own(r)), Append(Append(<< >>, AutoLogged(r)), Own(r))}
      BY DEF LoggedInv, LoggedOnce
    <2>2. ASSUME NEW a \in Event, NEW b \in Event
          PROVE  Append(<< >>, a) = <<a>> /\ Append(Append(<< >>, a), b) = <<a, b>>
      BY PairAppend
    <2>3. QED
      BY <2>1, <2>2, EventsAre DEF Mine, EventsBy
  <1>3. QED
    BY <1>1, <1>2, LoggedStep, Typed, PTL DEF Spec
-----------------------------------------------------------------------------
(* A review with an assignee has an entry for one; a decision of an        *)
(* unassigned review was told a lenient policy; and one about to be        *)
(* written has, or brings, an assignee, or was told so.                    *)
SomeAssigned(history) == \E i \in DOMAIN history : history[i].kind = "ASSIGNED"
HasAssigned(review) == review.assignment # Nothing => SomeAssigned(review.history)
Orderly(review) == DecidedUnassigned(review.history) \subseteq lenient

Prepared(r) == handler[r].pc = "save" /\ Kind[r] = "decide" =>
                   handler[r].auto \/ handler[r].seen.assignment # Nothing \/ r \in lenient

AssignedInv ==
    /\ HasAssigned(row.review) /\ Orderly(row.review)
    /\ \A r \in Requests :
          HasAssigned(handler[r].seen) /\ Orderly(handler[r].seen) /\ Prepared(r)

(* Who told a lenient policy, as long as no PUT has touched the file.      *)
PolicyInv ==
    puts = 0 => /\ config \in Policies /\ putting = Nothing
                /\ faults = 0 /\ Strict(config) => lenient = {}

LEMMA HistoryAppend ==
  ASSUME NEW h \in Seq(Entry), NEW e \in Entry
  PROVE  /\ SomeAssigned(h) \/ e.kind = "ASSIGNED" => SomeAssigned(Append(h, e))
         /\ DecidedUnassigned(Append(h, e)) \subseteq DecidedUnassigned(h) \cup {e.by}
         /\ e.kind # "DECISION" \/ SomeAssigned(h) =>
               DecidedUnassigned(Append(h, e)) \subseteq DecidedUnassigned(h)
  <1> DEFINE t == Append(h, e)
             Bare(s, j) == s[j].kind = "DECISION" /\ \A k \in 1..(j - 1) : s[k].kind # "ASSIGNED"
  <1>1. /\ Len(h) \in Nat /\ DOMAIN h = 1..Len(h) /\ DOMAIN t = 1..(Len(h) + 1)
        /\ t[Len(h) + 1] = e /\ \A i \in 1..Len(h) : t[i] = h[i]
    OBVIOUS
  <1> HIDE DEF t
  <1>2. SomeAssigned(h) => SomeAssigned(t)
    <2>1. \A i \in 1..Len(h) : i \in 1..(Len(h) + 1)
      BY <1>1
    <2>2. QED
      BY <1>1, <2>1 DEF SomeAssigned
  <1>3. e.kind = "ASSIGNED" => SomeAssigned(t)
    <2>1. Len(h) + 1 \in 1..(Len(h) + 1)
      BY <1>1
    <2>2. QED
      BY <1>1, <2>1 DEF SomeAssigned
  <1>4. \A s : DecidedUnassigned(s) = {s[i].by : i \in {j \in DOMAIN s : Bare(s, j)}}
    BY DEF DecidedUnassigned
  <1>5. ASSUME NEW x \in DecidedUnassigned(t)
        PROVE  \/ x \in DecidedUnassigned(h)
               \/ x = e.by /\ e.kind = "DECISION" /\ ~SomeAssigned(h)
    <2>1. PICK i \in DOMAIN t : Bare(t, i) /\ x = t[i].by
      BY <1>4, <1>5
    <2>2. CASE i \in 1..Len(h)
      <3>1. \A k \in 1..(i - 1) : k \in 1..Len(h)
        BY <1>1, <2>2
      <3>2. Bare(h, i)
        BY <1>1, <2>1, <2>2, <3>1
      <3>3. QED
        BY <1>1, <1>4, <2>1, <2>2, <3>2
    <2>3. CASE i = Len(h) + 1
      <3>1. \A k \in 1..Len(h) : t[k].kind # "ASSIGNED"
        BY <1>1, <2>1, <2>3
      <3>2. ~SomeAssigned(h)
        BY <1>1, <3>1 DEF SomeAssigned
      <3>3. QED
        BY <1>1, <2>1, <2>3, <3>2
    <2>4. QED
      BY <1>1, <2>2, <2>3
  <1>6. QED
    BY <1>2, <1>3, <1>5 DEF t

LEMMA AssignedBase ==
  ASSUME TypeOK, NEW r \in Requests, HasAssigned(handler[r].seen), Orderly(handler[r].seen)
  PROVE  /\ HasAssigned(Base(r)) /\ Orderly(Base(r))
         /\ handler[r].auto \/ handler[r].seen.assignment # Nothing => SomeAssigned(Base(r).history)
  <1> DEFINE seen == handler[r].seen
             e == [kind |-> "ASSIGNED", by |-> r]
  <1>1. seen \in Review /\ seen.history \in Seq(Entry) /\ e \in Entry /\ e.kind = "ASSIGNED"
    BY NewReviewIs, EntriesType DEF Entry
  <1>2. Assigned(seen, r).history = Append(seen.history, e)
    BY <1>1, AssignedIs
  <1>3. CASE handler[r].auto
    <2>1. Base(r).history = Append(seen.history, e)
      BY <1>2, <1>3 DEF Base
    <2>2. SomeAssigned(Base(r).history)
      BY <1>1, <2>1, HistoryAppend
    <2>3. DecidedUnassigned(Base(r).history) \subseteq DecidedUnassigned(seen.history)
      BY <1>1, <2>1, HistoryAppend
    <2>4. QED
      BY <2>2, <2>3 DEF HasAssigned, Orderly
  <1>4. CASE ~handler[r].auto
    BY <1>4 DEF Base, HasAssigned
  <1>5. QED
    BY <1>3, <1>4

LEMMA NewAssigned ==
  ASSUME TypeOK, NEW r \in Requests, HasAssigned(handler[r].seen), Orderly(handler[r].seen),
         Kind[r] = "decide" =>
            handler[r].auto \/ handler[r].seen.assignment # Nothing \/ r \in lenient
  PROVE  HasAssigned(NewReview(r)) /\ Orderly(NewReview(r))
  <1> DEFINE seen == handler[r].seen
             base == Base(r)
             new == NewReview(r)
  <1>1. /\ seen \in Review /\ seen.history \in Seq(Entry)
        /\ base \in Review /\ base.history \in Seq(Entry)
    BY NewReviewIs, EntriesType
  <1>2. /\ HasAssigned(base) /\ Orderly(base) /\ Orderly(seen)
        /\ Kind[r] = "decide" => SomeAssigned(base.history) \/ r \in lenient
    BY AssignedBase
  <1>3. /\ Kind[r] = "assign" => new = Assigned(seen, r)
        /\ Kind[r] = "comment" => new = Commented(base, r)
        /\ Kind[r] = "decide" => new = Decided(base, r)
    BY NewReviewIs
  <1>4. \A k \in {"ASSIGNED", "COMMENT", "DECISION"} : [kind |-> k, by |-> r] \in Entry
    BY DEF Entry
  <1> HIDE DEF seen, base, new
  <1>5. CASE Kind[r] = "assign"
    <2>1. new.history = Append(seen.history, [kind |-> "ASSIGNED", by |-> r])
      BY <1>1, <1>3, <1>5, AssignedIs
    <2>2. /\ SomeAssigned(new.history)
          /\ DecidedUnassigned(new.history) \subseteq DecidedUnassigned(seen.history)
      BY <1>1, <1>4, <2>1, HistoryAppend
    <2>3. QED
      BY <1>2, <2>2 DEF HasAssigned, Orderly, new
  <1>6. CASE Kind[r] = "comment"
    <2>1. /\ new.history = Append(base.history, [kind |-> "COMMENT", by |-> r])
          /\ new.assignment = base.assignment
      BY <1>1, <1>3, <1>6, CommentedIs
    <2>2. /\ SomeAssigned(base.history) => SomeAssigned(new.history)
          /\ DecidedUnassigned(new.history) \subseteq DecidedUnassigned(base.history)
      BY <1>1, <1>4, <2>1, HistoryAppend
    <2>3. QED
      BY <1>2, <2>1, <2>2 DEF HasAssigned, Orderly, new
  <1>7. CASE Kind[r] = "decide"
    <2>1. /\ new.history = Append(base.history, [kind |-> "DECISION", by |-> r])
          /\ new.assignment = base.assignment
      BY <1>1, <1>3, <1>7, DecidedIs
    <2>2. /\ SomeAssigned(base.history) => SomeAssigned(new.history)
          /\ DecidedUnassigned(new.history) \subseteq DecidedUnassigned(base.history) \cup {r}
          /\ SomeAssigned(base.history) =>
                DecidedUnassigned(new.history) \subseteq DecidedUnassigned(base.history)
      BY <1>1, <1>4, <2>1, HistoryAppend
    <2>3. QED
      BY <1>2, <1>7, <2>1, <2>2 DEF HasAssigned, Orderly, new
  <1>8. QED
    BY <1>5, <1>6, <1>7, KindsAre

LEMMA FreshAssigned == \A state \in ReviewState : HasAssigned(Fresh(state)) /\ Orderly(Fresh(state))
  <1> TAKE state \in ReviewState
  <1>1. Fresh(state).history = << >> /\ Fresh(state).assignment = Nothing /\ DOMAIN << >> = {}
    BY DEF Fresh
  <1>2. QED
    BY <1>1 DEF HasAssigned, Orderly, DecidedUnassigned

(* Who is told a policy, and which; no call that failed is forgotten.      *)
LEMMA LenientGrows ==
  ASSUME TypeOK, [Next]_vars
  PROVE  /\ lenient \subseteq lenient'
         /\ faults' = faults \/ (faults' = faults + 1)
         /\ lenient' = lenient \/ ~Strict(PolicyRead) \/ faults' = faults + 1
  <1>1. ASSUME NEW r \in Requests, ReadPolicy(r)
        PROVE  /\ lenient \subseteq lenient'
               /\ faults' = faults \/ faults' = faults + 1
               /\ lenient' = lenient \/ ~Strict(PolicyRead) \/ faults' = faults + 1
    BY <1>1, PolicyIs DEF Fault
  <1>2. CASE ~\E r \in Requests : ReadPolicy(r)
    BY <1>2 DEF Next, vars, CheckRun, Serve, FetchRun, SaveReview, LogAutoAssignment,
       LogAction, LogStep, SaveSample, SampleStep, AppendAudit, TruncateConfig, WriteConfig,
       Announce, FailRun, Fault
  <1>3. QED
    BY <1>1, <1>2

(* Until the first PUT nothing changes the policy. *)
LEMMA PolicyStep == TypeOK /\ PolicyInv /\ [Next]_vars => PolicyInv'
  <1> SUFFICES ASSUME TypeOK, PolicyInv, [Next]_vars, puts' = 0
               PROVE  /\ config' \in Policies /\ putting' = Nothing
                      /\ faults' = 0 /\ Strict(config') => lenient' = {}
    BY DEF PolicyInv, Strict
  <1>1. puts = 0
    <2>1. puts' = puts \/ puts' = puts + 1
      BY DEF Next, vars, CheckRun, Serve, FetchRun, ReadPolicy, SaveReview, LogAutoAssignment,
         LogAction, LogStep, SaveSample, SampleStep, AppendAudit, TruncateConfig, WriteConfig,
         Announce, FailRun
    <2>2. puts \in Nat
      BY DEF TypeOK
    <2>3. QED
      BY <2>1, <2>2
  <1>2. putting = Nothing /\ config \in Policies /\ (faults = 0 /\ Strict(config) => lenient = {})
    BY <1>1 DEF PolicyInv
  <1>3. ~WriteConfig
    BY <1>2 DEF WriteConfig
  <1>4. \A p : ~TruncateConfig(p)
    BY <1>1 DEF TruncateConfig
  <1>5. config' = config /\ putting' = putting
    BY <1>3, <1>4 DEF Next, vars, CheckRun, Serve, FetchRun, ReadPolicy, SaveReview,
       LogAutoAssignment, LogAction, LogStep, SaveSample, SampleStep, AppendAudit, Announce, FailRun
  <1>6. PolicyRead = config
    BY <1>2 DEF PolicyRead
  <1>7. ASSUME faults' = 0, Strict(config) PROVE lenient' = {}
    <2>1. faults \in Nat
      BY DEF TypeOK
    <2>2. faults = 0 /\ faults' # faults + 1
      BY <1>7, <2>1, LenientGrows
    <2>3. QED
      BY <1>2, <1>6, <1>7, <2>2, LenientGrows
  <1>8. QED
    BY <1>2, <1>5, <1>7

LEMMA PreparedStep ==
  ASSUME TypeOK, [Next]_vars, \A r \in Requests : Prepared(r)
  PROVE  \A r \in Requests : Prepared(r)'
  <1>1. lenient \subseteq lenient'
    BY LenientGrows
  <1> SUFFICES ASSUME NEW r \in Requests, handler'[r] # handler[r], handler'[r].pc = "save",
                      Kind[r] = "decide"
               PROVE  handler'[r].auto \/ handler'[r].seen.assignment # Nothing \/ r \in lenient'
    BY <1>1 DEF Prepared
  <1>2. ASSUME NEW q \in Requests, CheckRun(q) \/ Serve(q)
        PROVE  q = r /\ ReadPolicy(r)
    <2>1. Others(q)
      BY <1>2, CheckIs, FetchIs, PolicyIs, SaveIs, LogIs, SampleIs, AuditIs DEF Serve
    <2>2. q = r
      BY <2>1 DEF Others
    <2>3. ~CheckRun(r)
      BY CheckIs DEF Refused, Answered
    <2>4. ~FetchRun(r)
      BY FetchIs DEF Refused, Answered
    <2>5. ~SaveReview(r)
      BY SaveIs DEF Refused, Answered
    <2>6. ~LogAutoAssignment(r) /\ ~LogAction(r)
      BY LogIs DEF Refused, Answered
    <2>7. ~SaveSample(r) /\ ~AppendAudit(r)
      BY SampleIs, AuditIs DEF Refused, Answered
    <2>8. QED
      BY <1>2, <2>2, <2>3, <2>4, <2>5, <2>6, <2>7 DEF Serve
  <1>3. ReadPolicy(r)
    BY <1>2 DEF Next, vars, TruncateConfig, WriteConfig, Announce, FailRun
  <1>4. /\ handler'[r].seen = handler[r].seen
        /\ r \in lenient' \/ handler[r].seen.assignment # Nothing \/ handler'[r].auto
    BY <1>3, PolicyIs DEF Refused, Answered
  <1>5. QED
    BY <1>4

LEMMA AssignedStep == TypeOK /\ AssignedInv /\ [Next]_vars => AssignedInv'
  <1> SUFFICES ASSUME TypeOK, AssignedInv, [Next]_vars PROVE AssignedInv'
    OBVIOUS
  <1> DEFINE old == {row.review} \cup {handler[r].seen : r \in Requests}
                       \cup {Fresh(state) : state \in ReviewState}
             new == {NewReview(r) : r \in {q \in Requests : SaveReview(q)}}
  <1>1. row'.review \in old \cup new /\ \A r \in Requests : handler'[r].seen \in old \cup new
    BY ReviewsMove
  <1>2. \A review \in old : HasAssigned(review) /\ Orderly(review)
    BY FreshAssigned DEF AssignedInv
  <1>3. \A review \in new : HasAssigned(review) /\ Orderly(review)
    <2>1. ASSUME NEW r \in Requests, SaveReview(r)
          PROVE  HasAssigned(NewReview(r)) /\ Orderly(NewReview(r))
      <3>1. /\ handler[r].pc = "save" /\ Prepared(r)
            /\ HasAssigned(handler[r].seen) /\ Orderly(handler[r].seen)
        BY <2>1 DEF AssignedInv, SaveReview
      <3>2. QED
        BY <3>1, NewAssigned DEF Prepared
    <2>2. QED
      BY <2>1
  <1> HIDE DEF old, new
  <1>4. lenient \subseteq lenient'
    BY LenientGrows
  <1>5. \A review \in old \cup new :
           HasAssigned(review) /\ DecidedUnassigned(review.history) \subseteq lenient'
    BY <1>2, <1>3, <1>4 DEF Orderly
  <1>6. HasAssigned(row'.review) /\ DecidedUnassigned(row'.review.history) \subseteq lenient'
    BY <1>1, <1>5
  <1>7. ASSUME NEW r \in Requests
        PROVE  /\ HasAssigned(handler'[r].seen)
               /\ DecidedUnassigned(handler'[r].seen.history) \subseteq lenient'
    BY <1>1, <1>5
  <1>8. \A r \in Requests : Prepared(r)'
    BY PreparedStep DEF AssignedInv
  <1>9. QED
    BY <1>6, <1>7, <1>8 DEF AssignedInv, HasAssigned, SomeAssigned, Orderly, DecidedUnassigned

(* Every decision on an unassigned review comes from a request that was    *)
(* told a lenient policy, although each handler checks a copy of the       *)
(* record that others may be writing; and without a PUT and without a      *)
(* failed call a strict policy is never told as a lenient one.             *)
THEOREM DecisionsFollowAssignments == Spec => []DecisionsAreAssigned
  <1>1. Init => AssignedInv /\ PolicyInv
    <2> SUFFICES ASSUME Init PROVE AssignedInv /\ PolicyInv
      OBVIOUS
    <2>1. \A r \in Requests : handler[r].pc = "unsent" /\ handler[r].seen = Fresh("NEEDS_REVIEW")
      BY DEF Init, At
    <2>2. HasAssigned(row.review) /\ Orderly(row.review)
      BY FreshAssigned DEF Init
    <2>3. PolicyInv
      BY DEF Init, PolicyInv
    <2>4. QED
      BY <2>1, <2>2, <2>3, FreshAssigned DEF AssignedInv, Prepared, ReviewState
  <1>2. AssignedInv /\ PolicyInv => DecisionsAreAssigned
    BY DEF AssignedInv, PolicyInv, DecisionsAreAssigned, Orderly
  <1>3. QED
    BY <1>1, <1>2, AssignedStep, PolicyStep, Typed, PTL DEF Spec
-----------------------------------------------------------------------------
(* One request at a time. *)
FlightInv == IsFiniteSet(InFlight) /\ (limit = 1 => \A q, r \in InFlight : q = r)

(* Which handler steps, and from where. *)
LEMMA HandlersMove ==
  ASSUME TypeOK, [Next]_vars
  PROVE  /\ limit' = limit
         /\ \/ handler' = handler
            \/ \E r \in Requests : CheckRun(r) /\ Others(r)
            \/ \E r \in Requests : Serve(r) /\ Others(r) /\ r \in InFlight
  <1>1. limit' = limit
    BY DEF Next, vars, CheckRun, Serve, FetchRun, ReadPolicy, SaveReview, LogAutoAssignment,
       LogAction, LogStep, SaveSample, SampleStep, AppendAudit, TruncateConfig, WriteConfig,
       Announce, FailRun
  <1>2. ASSUME NEW r \in Requests, CheckRun(r) PROVE Others(r)
    BY <1>2, CheckIs
  <1>3. ASSUME NEW r \in Requests, Serve(r) PROVE Others(r) /\ r \in InFlight
    BY <1>3, FetchIs, PolicyIs, SaveIs, LogIs, SampleIs, AuditIs DEF Serve, InFlight, InService
  <1>4. QED
    BY <1>1, <1>2, <1>3 DEF Next, vars, TruncateConfig, WriteConfig, Announce, FailRun

LEMMA FlightStep == TypeOK /\ FlightInv /\ [Next]_vars => FlightInv'
  <1> SUFFICES ASSUME TypeOK, FlightInv, [Next]_vars PROVE FlightInv'
    OBVIOUS
  <1>1. CASE InFlight' \subseteq InFlight
    BY <1>1, FS_Subset, HandlersMove DEF FlightInv
  <1>2. ASSUME NEW r \in Requests, CheckRun(r), Others(r) PROVE FlightInv'
    <2>1. InFlight' \subseteq InFlight \cup {r}
      BY <1>2 DEF InFlight, Others
    <2>2. IsFiniteSet(InFlight \cup {r})
      BY FS_AddElement DEF FlightInv
    <2>3. limit = 1 => InFlight = {}
      <3>1. Cardinality(InFlight) \in Nat
        BY FS_CardinalityType DEF FlightInv
      <3>2. limit = 1 => Cardinality(InFlight) = 0
        BY <1>2, <3>1 DEF CheckRun
      <3>3. QED
        BY <3>2, FS_EmptySet DEF FlightInv
    <2>4. IsFiniteSet(InFlight')
      BY <2>1, <2>2, FS_Subset
    <2>5. QED
      BY <2>1, <2>3, <2>4, HandlersMove DEF FlightInv
  <1>3. ASSUME NEW r \in Requests, Others(r), r \in InFlight PROVE InFlight' \subseteq InFlight
    BY <1>3 DEF InFlight, Others
  <1>4. CASE handler' = handler
    BY <1>1, <1>4 DEF InFlight
  <1>5. QED
    BY <1>1, <1>2, <1>3, <1>4, HandlersMove

(* With one request at a time, the one that is being served is the one     *)
(* that steps, and none is being served when another is let in.            *)
LEMMA Alone ==
  ASSUME TypeOK, FlightInv, [Next]_vars, limit = 1, NEW q \in Requests, CheckRun(q) \/ Serve(q),
         NEW r \in Requests, handler[r].pc \in InService \/ handler'[r].pc \in InService
  PROVE  r = q
  <1>1. Others(q) /\ (Serve(q) => q \in InFlight)
    BY CheckIs, FetchIs, PolicyIs, SaveIs, LogIs, SampleIs, AuditIs DEF Serve, InFlight, InService
  <1>2. CASE Serve(q)
    BY <1>1, <1>2 DEF FlightInv, InFlight, Others
  <1>3. CASE CheckRun(q)
    <2>1. Cardinality(InFlight) \in Nat /\ Cardinality(InFlight) < 1
      BY <1>3, FS_CardinalityType DEF FlightInv, CheckRun
    <2>2. InFlight = {}
      BY <2>1, FS_EmptySet DEF FlightInv
    <2>3. QED
      BY <1>1, <2>2 DEF InFlight, Others
  <1>4. QED
    BY <1>2, <1>3

(* The one request works on the record there is. *)
Working == {"config", "save", "logAssigned", "log", "sample"}
SeenInv == limit = 1 /\ row.status = "COMPLETED" =>
    \A r \in Requests : handler[r].pc \in Working => handler[r].seen = row.review

LEMMA SeenStep == TypeOK /\ FlightInv /\ SeenInv /\ [Next]_vars => SeenInv'
  <1> SUFFICES ASSUME TypeOK, FlightInv, SeenInv, [Next]_vars, limit = 1,
                      row'.status = "COMPLETED", NEW r \in Requests, handler'[r].pc \in Working
               PROVE  handler'[r].seen = row'.review
    BY HandlersMove DEF SeenInv
  <1>1. ASSUME NEW q \in Requests, CheckRun(q) \/ Serve(q) PROVE handler'[r].seen = row'.review
    <2>1. r = q
      BY <1>1, Alone DEF Working, InService
    <2>2. CASE CheckRun(r)
      BY <2>2, CheckIs DEF Refused, Answered, Working
    <2>3. CASE FetchRun(r)
      <3>1. row' = row
        BY <2>3 DEF FetchRun
      <3>2. QED
        BY <2>3, <3>1, FetchIs DEF Refused, Answered, Working
    <2>4. CASE ReadPolicy(r)
      <3>1. row' = row
        BY <2>4 DEF ReadPolicy
      <3>2. handler[r].pc = "config" /\ handler'[r].seen = handler[r].seen
        BY <2>4, PolicyIs DEF Refused, Answered, Working
      <3>3. QED
        BY <3>1, <3>2 DEF SeenInv, Working
    <2>5. CASE SaveReview(r)
      <3>1. handler'[r].seen = NewReview(r) /\ row' = [status |-> "COMPLETED", review |-> NewReview(r)]
        BY <2>5, SaveIs DEF Refused, Answered, Working
      <3>2. QED
        BY <3>1
    <2>6. CASE LogAutoAssignment(r) \/ LogAction(r)
      <3>1. row' = row /\ handler[r].pc \in Working /\ handler'[r].seen = handler[r].seen
        BY <2>6, LogIs DEF Refused, Answered, Working
      <3>2. QED
        BY <3>1 DEF SeenInv
    <2>7. ~SaveSample(r) /\ ~AppendAudit(r)
      BY SampleIs, AuditIs DEF Refused, Answered, Working
    <2>8. QED
      BY <1>1, <2>1, <2>2, <2>3, <2>4, <2>5, <2>6, <2>7 DEF Serve
  <1>2. CASE handler' = handler /\ (row' = row \/ row' = FailedRow)
    BY <1>2 DEF SeenInv, FailedRow
  <1>3. QED
    BY <1>1, <1>2 DEF Next, vars, TruncateConfig, WriteConfig, Announce, FailRun

LEMMA OneAtATimeHolds == Spec => [](TypeOK /\ FlightInv /\ SeenInv)
  <1>1. Init => FlightInv /\ SeenInv
    <2> SUFFICES ASSUME Init PROVE FlightInv /\ SeenInv
      OBVIOUS
    <2>1. \A r \in Requests : handler[r].pc = "unsent"
      BY DEF Init, At
    <2>2. InFlight = {}
      BY <2>1 DEF InFlight, InService
    <2>3. QED
      BY <2>1, <2>2, FS_EmptySet DEF FlightInv, SeenInv, Working
  <1>2. QED
    BY <1>1, FlightStep, SeenStep, Typed, PTL DEF Spec

LEMMA BeginningAppend ==
  ASSUME NEW T, NEW s \in Seq(T), NEW d \in T, NEW e \in T
  PROVE  IsBeginning(s, Append(s, e)) /\ IsBeginning(s, Append(Append(s, d), e))
  <1>1. ASSUME NEW t \in Seq(T), Len(s) <= Len(t), \A i \in 1..Len(s) : t[i] = s[i]
        PROVE  IsBeginning(s, t)
    <2> DEFINE u == SubSeq(t, 1, Len(s))
    <2>1. u \in Seq(T) /\ Len(u) = Len(s) /\ \A i \in 1..Len(s) : u[i] = t[i]
      BY <1>1
    <2> HIDE DEF u
    <2>2. s = u
      BY <1>1, <2>1, SeqEqual
    <2>3. QED
      BY <1>1, <2>2 DEF IsBeginning, u
  <1> DEFINE a == Append(s, e)
             b == Append(Append(s, d), e)
  <1>2. a \in Seq(T) /\ Len(s) <= Len(a) /\ \A i \in 1..Len(s) : a[i] = s[i]
    OBVIOUS
  <1>3. b \in Seq(T) /\ Len(s) <= Len(b) /\ \A i \in 1..Len(s) : b[i] = s[i]
    OBVIOUS
  <1> HIDE DEF a, b
  <1>4. IsBeginning(s, a) /\ IsBeginning(s, b)
    BY <1>1, <1>2, <1>3
  <1>5. QED
    BY <1>4 DEF a, b

(* Served one at a time, requests only add to the history of a run that    *)
(* stays COMPLETED, whatever fails on the way.                             *)
THEOREM HistoriesOnlyGrow == Spec => HistoryOnlyGrows
  <1>1. TypeOK /\ SeenInv /\ [Next]_vars
          => [limit = 1 /\ row.status = "COMPLETED" /\ row'.status = "COMPLETED" =>
                IsBeginning(row.review.history, row'.review.history)]_vars
    <2> SUFFICES ASSUME TypeOK, SeenInv, [Next]_vars, limit = 1, row.status = "COMPLETED",
                        row'.status = "COMPLETED"
                 PROVE  IsBeginning(row.review.history, row'.review.history)
      OBVIOUS
    <2> DEFINE h == row.review.history
    <2>1. h \in Seq(Entry)
      BY EntriesType DEF TypeOK
    <2>2. CASE row' = row
      <3> HIDE DEF h
      <3>1. h = SubSeq(h, 1, Len(h)) /\ Len(h) <= Len(h)
        BY <2>1, SubSeqFull, LenProperties
      <3>2. IsBeginning(h, h)
        BY <3>1 DEF IsBeginning
      <3>3. QED
        BY <2>2, <3>2 DEF h
    <2>3. ASSUME NEW r \in Requests, SaveReview(r), row' # row
          PROVE  IsBeginning(row.review.history, row'.review.history)
      <3>1. row'.review = NewReview(r) /\ handler[r].pc = "save"
        BY <2>3, SaveIs
      <3>2. handler[r].seen = row.review
        BY <3>1 DEF SeenInv, Working
      <3>3. NewReview(r).history \in {Append(Append(h, AssignedEntry(r)), Entered(r)),
                                      Append(h, Entered(r))}
        BY <3>2, NewReviewIs
      <3> HIDE DEF h
      <3>4. /\ IsBeginning(h, Append(h, Entered(r)))
            /\ IsBeginning(h, Append(Append(h, AssignedEntry(r)), Entered(r)))
        <4>1. Entered(r) \in Entry /\ AssignedEntry(r) \in Entry
          BY KindsAre
        <4>2. QED
          BY <2>1, <4>1, BeginningAppend
      <3>5. IsBeginning(h, NewReview(r).history)
        BY <3>3, <3>4
      <3>6. QED
        BY <3>1, <3>5 DEF h
    <2>4. ~FailRun \/ row' = row
      BY DEF FailRun, FailedRow
    <2>5. QED
      BY <2>2, <2>3, <2>4
         DEF Next, vars, CheckRun, Serve, FetchRun, ReadPolicy, LogAutoAssignment,
             LogAction, LogStep, SaveSample, SampleStep, AppendAudit, TruncateConfig,
             WriteConfig, Announce
  <1>2. QED
    BY <1>1, OneAtATimeHolds, PTL DEF Spec, HistoryOnlyGrows
-----------------------------------------------------------------------------
(* The labels of a review. *)
LEMMA LabelEnds ==
  ASSUME NEW review \in Review
  PROVE  LET labels == LabelsOf(review)
         IN  /\ labels \in Seq(Entry) /\ Len(labels) \in Nat
             /\ FirstBy(labels) = Nothing <=> labels = << >>
             /\ LastBy(labels) = Nothing <=> labels = << >>
             /\ Len(labels) <= 1 => LastBy(labels) = FirstBy(labels)
  <1> DEFINE labels == LabelsOf(review)
  <1>1. labels \in Seq(Entry) /\ Len(labels) \in Nat
    BY EntriesType
  <1> HIDE DEF labels
  <1>2. labels # << >> => Len(labels) \in 1..Len(labels) /\ 1 \in 1..Len(labels)
    BY <1>1, EmptySeq
  <1>3. \A i \in 1..Len(labels) : labels[i].by \in Requests
    <2>1. \A i \in 1..Len(labels) : labels[i] \in Entry
      BY <1>1
    <2>2. \A x \in Entry : x.by \in Requests
      BY DEF Entry
    <2>3. QED
      BY <2>1, <2>2
  <1>4. labels # << >> => labels[1].by # Nothing /\ labels[Len(labels)].by # Nothing
    BY <1>2, <1>3
  <1>5. Len(labels) <= 1 => labels = << >> \/ Len(labels) = 1
    <2>1. labels = << >> <=> Len(labels) = 0
      BY <1>1, EmptySeq
    <2>2. ASSUME NEW n \in Nat, n <= 1 PROVE n = 0 \/ n = 1
      BY <2>2
    <2>3. QED
      BY <1>1, <2>1, <2>2, Zenon
  <1>6. QED
    BY <1>1, <1>4, <1>5 DEF FirstBy, LastBy, labels

LEMMA LabelsGrow ==
  ASSUME TypeOK, NEW r \in Requests
  PROVE  LET labels == LabelsOf(handler[r].seen)
         IN  LabelsOf(NewReview(r)) =
                IF Kind[r] = "decide" /\ r \in Labelled THEN Append(labels, Entered(r)) ELSE labels
  <1> DEFINE keep == [kind : {"DECISION"}, by : Labelled]
             h == handler[r].seen.history
             g == Append(h, AssignedEntry(r))
  <1>1. Entered(r) \in Entry /\ AssignedEntry(r) \in Entry
    BY KindsAre
  <1>2. h \in Seq(Entry)
    BY NewReviewIs, EntriesType
  <1>3. AssignedEntry(r) \notin keep
    BY DEF AssignedEntry
  <1>4. Entered(r) \in keep <=> Kind[r] = "decide" /\ r \in Labelled
    BY KindsAre DEF Entered, KindOfEntry
  <1> HIDE DEF keep, h
  <1>5. g \in Seq(Entry)
    BY <1>1, <1>2
  <1> HIDE DEF g
  <1>6. Kept(Append(h, AssignedEntry(r)), keep) = Kept(h, keep)
    BY <1>1, <1>2, <1>3, KeptAppend
  <1>7. /\ Kept(Append(g, Entered(r)), keep) = IF Entered(r) \in keep
              THEN Append(Kept(g, keep), Entered(r)) ELSE Kept(g, keep)
        /\ Kept(Append(h, Entered(r)), keep) = IF Entered(r) \in keep
              THEN Append(Kept(h, keep), Entered(r)) ELSE Kept(h, keep)
    BY <1>1, <1>2, <1>5, KeptAppend
  <1>8. NewReview(r).history \in {Append(g, Entered(r)), Append(h, Entered(r))}
    BY NewReviewIs DEF g, h
  <1>9. Kept(NewReview(r).history, keep) =
           IF Kind[r] = "decide" /\ r \in Labelled THEN Append(Kept(h, keep), Entered(r))
           ELSE Kept(h, keep)
    BY <1>4, <1>6, <1>7, <1>8 DEF g
  <1>10. QED
    BY <1>9 DEF LabelsOf, keep, h

(* Without errors the run stays COMPLETED. *)
FaultlessInv == faults = 0 => row.status = "COMPLETED" /\ announcer # "fail"

LEMMA FaultlessStep == TypeOK /\ FaultlessInv /\ [Next]_vars => FaultlessInv'
  <1> SUFFICES ASSUME TypeOK, FaultlessInv, [Next]_vars, faults' = 0
               PROVE  row'.status = "COMPLETED" /\ announcer' # "fail"
    BY DEF FaultlessInv
  <1>1. ~Fault
    BY DEF Fault, TypeOK
  <1>2. ASSUME NEW r \in Requests, CheckRun(r) \/ Serve(r)
        PROVE  /\ row'.status = row.status \/ row'.status = "COMPLETED"
               /\ faults' = faults /\ announcer' = announcer
    <2>1. CASE SaveReview(r)
      <3>1. row' = [status |-> "COMPLETED", review |-> NewReview(r)] /\ faults' = faults
        BY <1>1, <2>1, SaveIs
      <3>2. QED
        BY <2>1, <3>1 DEF SaveReview
    <2>2. CASE ~SaveReview(r)
      BY <1>1, <1>2, <2>2
         DEF CheckRun, Serve, FetchRun, ReadPolicy, LogAutoAssignment, LogAction, LogStep,
             SaveSample, SampleStep, AppendAudit
    <2>3. QED
      BY <2>1, <2>2
  <1>3. QED
    BY <1>1, <1>2 DEF FaultlessInv, Next, vars, TruncateConfig, WriteConfig, Announce, FailRun

LEMMA FaultsGrow ==
  ASSUME TypeOK, [Next]_vars
  PROVE  /\ faults' = faults \/ Fault
         /\ faults' = 0 => faults = 0
  <1>1. faults' = faults \/ Fault
    BY DEF Next, vars, CheckRun, Serve, FetchRun, ReadPolicy, SaveReview, LogAutoAssignment,
       LogAction, LogStep, SaveSample, SampleStep, AppendAudit, TruncateConfig, WriteConfig,
       Announce, FailRun
  <1>2. QED
    BY <1>1 DEF Fault, TypeOK

(* The sample while the one request in flight may be about to take it.     *)
Sampling == {"logAssigned", "log", "sample"}
FirstLabel == FirstBy(LabelsOf(row.review))
SampleInv == limit = 1 /\ faults = 0 =>
    /\ (\A r \in Requests : handler[r].pc \notin Sampling) => sample = FirstLabel
    /\ \A r \in Requests : handler[r].pc \in Sampling =>
          /\ sample = FirstLabel \/ (sample = Nothing /\ Len(LabelsOf(row.review)) <= 1)
          /\ Kind[r] # "decide" => sample = FirstLabel

LEMMA SampleInvStep ==
  ASSUME TypeOK, FlightInv, SeenInv, FaultlessInv, ReviewReplaysHistory, SampleInv, [Next]_vars
  PROVE  SampleInv'
  <1> SUFFICES ASSUME limit = 1, faults' = 0
               PROVE  (/\ (\A r \in Requests : handler[r].pc \notin Sampling) => sample = FirstLabel
                       /\ \A r \in Requests : handler[r].pc \in Sampling =>
                             /\ \/ sample = FirstLabel
                                \/ sample = Nothing /\ Len(LabelsOf(row.review)) <= 1
                             /\ Kind[r] # "decide" => sample = FirstLabel)'
    BY HandlersMove DEF SampleInv
  <1>1. ~Fault
    BY DEF Fault, TypeOK
  <1>2. faults = 0
    BY FaultsGrow
  <1>3. row.status = "COMPLETED" /\ announcer # "fail"
    BY <1>2 DEF FaultlessInv
  <1> DEFINE labels == LabelsOf(row.review)
  <1>4. /\ labels \in Seq(Entry) /\ Len(labels) \in Nat
        /\ FirstBy(labels) = Nothing <=> labels = << >>
        /\ LastBy(labels) = Nothing <=> labels = << >>
        /\ Len(labels) <= 1 => LastBy(labels) = FirstBy(labels)
        /\ row.review.analystSentiment = LastBy(labels)
    <2>1. row.review \in Review
      BY DEF TypeOK
    <2>2. QED
      BY <2>1, LabelEnds DEF ReviewReplaysHistory, ReplaysHistory
  <1>5. FirstLabel = FirstBy(labels)
    BY DEF FirstLabel
  <1> HIDE DEF labels
  <1>6. ASSUME NEW q \in Requests, CheckRun(q) \/ Serve(q)
        PROVE  /\ \A r \in Requests \ {q} : handler[r].pc \notin Sampling /\ handler'[r].pc \notin Sampling
               /\ handler[q].pc \in Working => handler[q].seen = row.review
               /\ handler[q].pc \notin Sampling => sample = FirstLabel
    BY <1>2, <1>3, <1>6, Alone DEF Sampling, InService, SeenInv, SampleInv
  <1>7. ASSUME NEW q \in Requests, CheckRun(q) \/ FetchRun(q) \/ ReadPolicy(q) \/ AppendAudit(q)
        PROVE  /\ handler[q].pc \notin Sampling /\ handler'[q].pc \notin Sampling
               /\ row' = row /\ sample' = sample
    BY <1>7, CheckIs, FetchIs, PolicyIs, AuditIs
       DEF CheckRun, FetchRun, ReadPolicy, AppendAudit, Refused, Answered, Sampling
  <1>8. ASSUME NEW q \in Requests, CheckRun(q) \/ Serve(q),
               handler'[q].pc \notin Sampling, row' = row, sample' = FirstLabel
        PROVE  SampleInv'
    BY <1>6, <1>8 DEF SampleInv, FirstLabel
  <1>9. ASSUME NEW q \in Requests, CheckRun(q) \/ FetchRun(q) \/ ReadPolicy(q) \/ AppendAudit(q)
        PROVE  SampleInv'
    BY <1>6, <1>7, <1>8, <1>9 DEF Serve
  <1>10. ASSUME NEW q \in Requests, SaveReview(q) PROVE SampleInv'
    <2>1. /\ handler'[q].pc \in Sampling /\ row'.review = NewReview(q)
          /\ handler[q].pc = "save"
      BY <1>1, <1>10, SaveIs DEF Sampling
    <2>2. sample' = sample /\ sample = FirstLabel
      BY <1>6, <1>10, <2>1 DEF SaveReview, Serve, Sampling
    <2>3. LabelsOf(row'.review) = IF Kind[q] = "decide" /\ q \in Labelled
                                  THEN Append(labels, Entered(q)) ELSE labels
      BY <1>6, <1>10, <2>1, LabelsGrow DEF labels, Serve, Working
    <2>4. Entered(q) \in Entry
      BY KindsAre
    <2>5. labels # << >> => FirstBy(Append(labels, Entered(q))) = FirstBy(labels)
      BY <1>4, <2>4, LastAppend
    <2>6. labels = << >> => Len(Append(labels, Entered(q))) <= 1
      BY <2>4
    <2>7. \/ sample' = FirstBy(LabelsOf(row'.review))
          \/ Kind[q] = "decide" /\ sample' = Nothing /\ Len(LabelsOf(row'.review)) <= 1
      BY <1>4, <1>5, <2>2, <2>3, <2>5, <2>6
    <2>8. QED
      BY <1>6, <1>10, <2>1, <2>7 DEF SampleInv, FirstLabel, Serve
  <1>11. ASSUME NEW q \in Requests, LogAutoAssignment(q) \/ LogAction(q) PROVE SampleInv'
    <2>1. /\ row' = row /\ sample' = sample /\ handler[q].pc \in Sampling /\ handler[q].pc \in Working
          /\ handler'[q].pc \in Sampling
             \/ Kind[q] # "decide" \/ handler[q].seen.analystSentiment = Nothing
      BY <1>1, <1>11, LogIs DEF Sampling, Working
    <2>2. /\ sample = FirstLabel \/ (sample = Nothing /\ Len(labels) <= 1)
          /\ Kind[q] # "decide" => sample = FirstLabel
      BY <1>2, <2>1 DEF SampleInv, labels
    <2>3. CASE handler'[q].pc \in Sampling
      BY <1>6, <1>11, <2>1, <2>2, <2>3 DEF SampleInv, FirstLabel, labels, Serve
    <2>4. CASE handler'[q].pc \notin Sampling
      <3>1. Kind[q] = "decide" => labels = << >>
        BY <1>4, <1>6, <1>11, <2>1, <2>4 DEF Serve
      <3>2. sample = FirstLabel
        BY <1>4, <1>5, <2>2, <3>1
      <3>3. QED
        BY <1>8, <1>11, <2>1, <2>4, <3>2 DEF Serve
    <2>5. QED
      BY <2>3, <2>4
  <1>12. ASSUME NEW q \in Requests, SaveSample(q) PROVE SampleInv'
    <2>1. /\ row' = row /\ handler[q].pc = "sample" /\ handler'[q].pc = "audit"
          /\ sample' = IF sample = Nothing THEN handler[q].seen.analystSentiment ELSE sample
      BY <1>1, <1>12, SampleIs
    <2>2. /\ sample = FirstLabel \/ (sample = Nothing /\ Len(labels) <= 1)
          /\ handler[q].seen = row.review
      BY <1>2, <1>6, <1>12, <2>1 DEF SampleInv, labels, Sampling, Working, Serve
    <2>3. sample' = FirstLabel
      BY <1>4, <1>5, <2>1, <2>2
    <2>4. QED
      BY <1>8, <1>12, <2>1, <2>3 DEF Serve, Sampling
  <1>13. ASSUME UNCHANGED <<row, handler, sample>> PROVE SampleInv'
    BY <1>2, <1>13 DEF SampleInv, FirstLabel
  <1>14. ~FailRun
    BY <1>3 DEF FailRun
  <1>15. SampleInv'
    <2>1. ASSUME NEW q \in Requests, CheckRun(q) \/ Serve(q) PROVE SampleInv'
      BY <1>9, <1>10, <1>11, <1>12, <2>1 DEF Serve
    <2>2. \/ \E q \in Requests : CheckRun(q) \/ Serve(q)
          \/ UNCHANGED <<row, handler, sample>>
      BY <1>14 DEF Next, vars, TruncateConfig, WriteConfig, Announce
    <2>3. QED
      BY <1>13, <2>1, <2>2
  <1>16. limit' = 1
    BY HandlersMove
  <1>17. QED
    BY <1>15, <1>16 DEF SampleInv

(* Served one at a time and without errors, requests leave the run the     *)
(* calibration sample of the first label an analyst gave it, whatever they *)
(* decide afterwards.                                                      *)
THEOREM SamplesAreFirstLabels == Spec => []SampleIsFirstLabel
  <1>1. Init => FaultlessInv /\ SampleInv
    <2> SUFFICES ASSUME Init PROVE FaultlessInv /\ SampleInv
      OBVIOUS
    <2>1. \A r \in Requests : handler[r].pc = "unsent"
      BY DEF Init, At
    <2>2. PICK state \in ReviewState : row = [status |-> "COMPLETED", review |-> Fresh(state)]
      BY DEF Init
    <2>3. LabelsOf(row.review) = << >>
      BY <2>2, KeptEmpty DEF LabelsOf, Fresh
    <2>4. sample = FirstLabel
      BY <2>3 DEF FirstLabel, FirstBy, Init
    <2>5. QED
      BY <2>1, <2>2, <2>4 DEF Init, FaultlessInv, SampleInv, Sampling
  <1>2. SampleInv => SampleIsFirstLabel
    BY DEF SampleInv, SampleIsFirstLabel, InFlight, FirstLabel, Sampling, InService
  <1>3. QED
    BY <1>1, <1>2, FaultlessStep, SampleInvStep, OneAtATimeHolds, RecordsReplay, PTL DEF Spec
-----------------------------------------------------------------------------
(* What a log l tells of a history h: the same story, less what l lacks.   *)
Heard(l) == {l[i] : i \in DOMAIN l}
Tells(l, h) == l = Kept(Told(h), Heard(l))

LEMMA EventsFor ==
  /\ \A e \in Entry : EventFor(e) \in Event /\ EventFor(e).by = e.by
  /\ \A d \in Entry, e \in Entry : EventFor(d) = EventFor(e) => d = e
  /\ \A r \in Requests : EventFor(Entered(r)) = Own(r) /\ EventFor(AssignedEntry(r)) = AutoLogged(r)
  <1>1. ASSUME NEW e \in Entry
        PROVE  /\ e.by \in Requests /\ e.kind \in {"ASSIGNED", "COMMENT", "DECISION"}
               /\ e = [kind |-> e.kind, by |-> e.by] /\ EventFor(e) \in Event /\ EventFor(e).by = e.by
               /\ e.kind = "ASSIGNED" <=> EventFor(e).type = "ANALYST_ASSIGNED"
               /\ e.kind = "COMMENT" <=> EventFor(e).type = "ANALYST_COMMENT_ADDED"
               /\ e.kind = "DECISION" <=> EventFor(e).type = "ANALYST_REVIEW_RECORDED"
    <2>1. e.by \in Requests /\ e.kind \in {"ASSIGNED", "COMMENT", "DECISION"}
          /\ e = [kind |-> e.kind, by |-> e.by]
      BY DEF Entry
    <2>2. QED
      BY <2>1 DEF EventFor, Event, EventType
  <1>2. ASSUME NEW d \in Entry, NEW e \in Entry, EventFor(d) = EventFor(e) PROVE d = e
    <2>1. d.by = e.by /\ d.kind = e.kind
      BY <1>1, <1>2
    <2>2. QED
      BY <1>1, <2>1
  <1>3. ASSUME NEW r \in Requests
        PROVE  EventFor(Entered(r)) = Own(r) /\ EventFor(AssignedEntry(r)) = AutoLogged(r)
    BY KindsAre DEF EventFor, Own, AutoLogged, Entered, AssignedEntry, KindOfEntry, EventOf
  <1>4. QED
    BY <1>1, <1>2, <1>3

LEMMA ToldAppend ==
  ASSUME NEW h \in Seq(Entry), NEW e \in Entry
  PROVE  /\ Told(h) \in Seq(Event) /\ Len(Told(h)) = Len(h)
         /\ \A i \in 1..Len(h) : Told(h)[i] = EventFor(h[i])
         /\ Told(Append(h, e)) = Append(Told(h), EventFor(e))
  <1>1. ASSUME NEW g \in Seq(Entry)
        PROVE  /\ Told(g) \in Seq(Event) /\ Len(Told(g)) = Len(g)
               /\ \A i \in 1..Len(g) : Told(g)[i] = EventFor(g[i])
    <2>1. DOMAIN g = 1..Len(g) /\ Len(g) \in Nat /\ \A i \in 1..Len(g) : g[i] \in Entry
      OBVIOUS
    <2>2. \A i \in 1..Len(g) : EventFor(g[i]) \in Event
      BY <2>1, EventsFor
    <2>3. Told(g) = [i \in 1..Len(g) |-> EventFor(g[i])]
      BY <2>1 DEF Told
    <2>4. QED
      BY <2>1, <2>2, <2>3
  <1> DEFINE g == Append(h, e)
             a == Told(g)
             b == Append(Told(h), EventFor(e))
  <1>2. g \in Seq(Entry) /\ Len(g) = Len(h) + 1 /\ g[Len(h) + 1] = e /\ Len(h) \in Nat
        /\ \A i \in 1..Len(h) : g[i] = h[i]
    OBVIOUS
  <1> HIDE DEF g
  <1>3. a \in Seq(Event) /\ Len(a) = Len(h) + 1 /\ \A i \in 1..(Len(h) + 1) : a[i] = EventFor(g[i])
    BY <1>1, <1>2
  <1>4. b \in Seq(Event) /\ Len(b) = Len(h) + 1 /\ b[Len(h) + 1] = EventFor(e)
        /\ \A i \in 1..Len(h) : b[i] = EventFor(h[i])
    BY <1>1, <1>2, EventsFor
  <1> HIDE DEF a, b
  <1>5. \A i \in 1..Len(a) : a[i] = b[i]
    BY <1>2, <1>3, <1>4, SMTT(60)
  <1>6. a = b
    BY <1>3, <1>4, <1>5, SeqEqual
  <1>7. QED
    BY <1>1, <1>6 DEF a, b, g

(* An entry whose event is missing from the log. *)
LEMMA TellsUnheard ==
  ASSUME NEW l \in Seq(Event), NEW h \in Seq(Entry), NEW e \in Entry, Tells(l, h),
         \A i \in 1..Len(l) : l[i] # EventFor(e)
  PROVE  Tells(l, Append(h, e))
  <1>1. EventFor(e) \notin Heard(l)
    BY DEF Heard
  <1>2. Told(h) \in Seq(Event) /\ EventFor(e) \in Event
        /\ Told(Append(h, e)) = Append(Told(h), EventFor(e))
    BY ToldAppend, EventsFor
  <1>3. Kept(Append(Told(h), EventFor(e)), Heard(l)) = Kept(Told(h), Heard(l))
    BY <1>1, <1>2, KeptAppend
  <1>4. QED
    BY <1>2, <1>3 DEF Tells

(* An entry whose event the log gets. *)
LEMMA TellsHeard ==
  ASSUME NEW l \in Seq(Event), NEW h \in Seq(Entry), NEW e \in Entry, Tells(l, h),
         \A i \in 1..Len(h) : h[i] # e
  PROVE  Tells(Append(l, EventFor(e)), Append(h, e))
  <1> DEFINE x == EventFor(e)
             t == Told(h)
             k == Append(l, x)
  <1>1. x \in Event /\ t \in Seq(Event) /\ Len(t) \in Nat /\ Told(Append(h, e)) = Append(t, x)
    BY ToldAppend, EventsFor
  <1>2. \A i \in 1..Len(t) : t[i] # x
    <2>1. Len(t) = Len(h) /\ \A i \in 1..Len(h) : t[i] = EventFor(h[i]) /\ h[i] \in Entry
      BY ToldAppend
    <2>2. QED
      BY <2>1, EventsFor
  <1> HIDE DEF x, t
  <1>3. Heard(k) = Heard(l) \cup {x}
    <2>1. DOMAIN k = 1..(Len(l) + 1) /\ DOMAIN l = 1..Len(l) /\ Len(l) \in Nat
          /\ k[Len(l) + 1] = x /\ \A i \in 1..Len(l) : k[i] = l[i]
      BY <1>1
    <2> HIDE DEF k
    <2>2. DOMAIN k = DOMAIN l \cup {Len(l) + 1}
      BY <2>1
    <2>3. QED
      BY <2>1, <2>2 DEF Heard
  <1>4. Kept(t, Heard(k)) = Kept(t, Heard(l))
    BY <1>1, <1>2, <1>3, KeptSame
  <1>5. x \in Heard(k)
    BY <1>3
  <1> HIDE DEF k
  <1>6. Kept(Append(t, x), Heard(k)) = Append(Kept(t, Heard(k)), x)
    BY <1>1, <1>5, KeptAppend
  <1>7. l = Kept(t, Heard(l))
    BY DEF Tells, t
  <1>8. k = Kept(Told(Append(h, e)), Heard(k))
    BY <1>1, <1>4, <1>6, <1>7 DEF k
  <1>9. QED
    BY <1>8 DEF Tells, k, x

(* Until its write a request has no entry in any review, and until it logs *)
(* it has no event.                                                        *)
NotBy(s, r) == \A i \in DOMAIN s : s[i].by # r
UnwrittenInv == \A r \in Requests : handler[r].pc \in Before =>
    /\ NotBy(row.review.history, r)
    /\ \A q \in Requests : NotBy(handler[q].seen.history, r)
UnheardInv == \A r \in Requests :
    /\ handler[r].pc \in Before \cup {"logAssigned"} => NotBy(log, r)
    /\ handler[r].pc = "log" => \A i \in DOMAIN log : log[i] # Own(r)
    /\ handler[r].pc \in {"config", "logAssigned"} \/ handler[r].auto => Kind[r] # "assign"

LEMMA NotByAppend ==
  ASSUME NEW T, NEW s \in Seq(T), NEW e \in T, NEW r
  PROVE  NotBy(s, r) /\ e.by # r => NotBy(Append(s, e), r)
  <1>1. /\ DOMAIN Append(s, e) = 1..(Len(s) + 1) /\ DOMAIN s = 1..Len(s) /\ Len(s) \in Nat
        /\ Append(s, e)[Len(s) + 1] = e /\ \A i \in 1..Len(s) : Append(s, e)[i] = s[i]
    OBVIOUS
  <1>2. QED
    BY <1>1 DEF NotBy

LEMMA BeforeBack ==
  ASSUME TypeOK, [Next]_vars, NEW r \in Requests, handler'[r].pc \in Before
  PROVE  handler[r].pc \in Before /\ ~SaveReview(r)
  <1>1. ASSUME NEW q \in Requests, CheckRun(q) \/ Serve(q) PROVE r # q => handler'[r] = handler[r]
    BY <1>1, CheckIs, FetchIs, PolicyIs, SaveIs, LogIs, SampleIs, AuditIs, ZenonT(60) DEF Serve, Others
  <1>2. ~SaveReview(r) /\ ~LogAutoAssignment(r) /\ ~LogAction(r) /\ ~SaveSample(r) /\ ~AppendAudit(r)
    BY SaveIs, LogIs, SampleIs, AuditIs DEF Before, Refused, Answered
  <1>3. CheckRun(r) \/ FetchRun(r) \/ ReadPolicy(r) => handler[r].pc \in Before
    BY CheckIs, FetchIs, PolicyIs DEF Before
  <1>4. QED
    BY <1>1, <1>2, <1>3
       DEF Next, vars, Serve, TruncateConfig, WriteConfig, Announce, FailRun

LEMMA UnwrittenStep == TypeOK /\ UnwrittenInv /\ [Next]_vars => UnwrittenInv'
  <1> SUFFICES ASSUME TypeOK, UnwrittenInv, [Next]_vars, NEW r \in Requests,
                      handler'[r].pc \in Before
               PROVE  /\ NotBy(row'.review.history, r)
                      /\ \A q \in Requests : NotBy(handler'[q].seen.history, r)
    BY DEF UnwrittenInv
  <1> DEFINE old == {row.review} \cup {handler[q].seen : q \in Requests}
                       \cup {Fresh(state) : state \in ReviewState}
             new == {NewReview(q) : q \in {p \in Requests : SaveReview(p)}}
  <1>1. handler[r].pc \in Before /\ ~SaveReview(r)
    BY BeforeBack
  <1>2. \A review \in old : NotBy(review.history, r)
    BY <1>1 DEF UnwrittenInv, Fresh, NotBy
  <1>3. ASSUME NEW q \in Requests, SaveReview(q) PROVE NotBy(NewReview(q).history, r)
    <2> DEFINE h == handler[q].seen.history
               g == Append(h, AssignedEntry(q))
    <2>1. h \in Seq(Entry) /\ Entered(q) \in Entry /\ AssignedEntry(q) \in Entry
      BY NewReviewIs, EntriesType, KindsAre
    <2>2. NewReview(q).history \in {Append(h, Entered(q)), Append(g, Entered(q))}
      BY NewReviewIs
    <2>3. NotBy(h, r) /\ Entered(q).by # r /\ AssignedEntry(q).by # r
      BY <1>1, <1>3 DEF UnwrittenInv, Entered, AssignedEntry
    <2> HIDE DEF h
    <2>4. g \in Seq(Entry) /\ NotBy(g, r) /\ NotBy(Append(h, Entered(q)), r)
      BY <2>1, <2>3, NotByAppend
    <2> HIDE DEF g
    <2>5. NotBy(Append(g, Entered(q)), r)
      BY <2>1, <2>3, <2>4, NotByAppend
    <2>6. QED
      BY <2>2, <2>4, <2>5
  <1>4. \A review \in old \cup new : NotBy(review.history, r)
    BY <1>2, <1>3
  <1>5. row'.review \in old \cup new /\ \A q \in Requests : handler'[q].seen \in old \cup new
    BY ReviewsMove
  <1> HIDE DEF old, new
  <1>6. QED
    BY <1>4, <1>5

LEMMA UnheardStep == TypeOK /\ UnheardInv /\ [Next]_vars => UnheardInv'
  <1> SUFFICES ASSUME TypeOK, UnheardInv, [Next]_vars, NEW r \in Requests
               PROVE  /\ handler'[r].pc \in Before \cup {"logAssigned"} => NotBy(log', r)
                      /\ handler'[r].pc = "log" => \A i \in DOMAIN log' : log'[i] # Own(r)
                      /\ handler'[r].pc \in {"config", "logAssigned"} \/ handler'[r].auto
                            => Kind[r] # "assign"
    BY DEF UnheardInv, Own, EventOf
  <1>1. log \in Seq(Event)
    BY DEF TypeOK, Event
  <1>2. Own(r) \in Event /\ Own(r).by = r /\ AutoLogged(r) \in Event /\ AutoLogged(r).by = r
    BY EventsAre DEF Own, AutoLogged
  <1>3. NotBy(log, r) => \A i \in DOMAIN log : log[i] # Own(r)
    BY <1>2 DEF NotBy
  <1>4. ASSUME log' = log,
               \/ handler'[r] = handler[r]
               \/ /\ handler'[r].pc \in Before \cup {"logAssigned", "log"} =>
                        handler[r].pc \in Before
                  /\ handler'[r].pc \in {"config", "logAssigned"} \/ handler'[r].auto
                        => Kind[r] # "assign"
        PROVE  /\ handler'[r].pc \in Before \cup {"logAssigned"} => NotBy(log', r)
               /\ handler'[r].pc = "log" => \A i \in DOMAIN log' : log'[i] # Own(r)
               /\ handler'[r].pc \in {"config", "logAssigned"} \/ handler'[r].auto
                     => Kind[r] # "assign"
    BY <1>3, <1>4 DEF UnheardInv, Before
  <1>5. ASSUME NEW q \in Requests, CheckRun(q) \/ FetchRun(q) \/ ReadPolicy(q) \/ SaveReview(q)
                                     \/ SaveSample(q) \/ AppendAudit(q)
        PROVE  /\ log' = log /\ Others(q)
               /\ handler'[q].pc \in Before \cup {"logAssigned", "log"} => handler[q].pc \in Before
               /\ handler'[q].pc \in {"config", "logAssigned"} \/ handler'[q].auto
                     => Kind[q] # "assign"
    <2> DEFINE Goal ==
          /\ log' = log /\ Others(q)
          /\ handler'[q].pc \in Before \cup {"logAssigned", "log"} => handler[q].pc \in Before
          /\ handler'[q].pc \in {"config", "logAssigned"} \/ handler'[q].auto => Kind[q] # "assign"
    <2>0. handler[q].pc \in {"config", "logAssigned"} \/ handler[q].auto => Kind[q] # "assign"
      BY DEF UnheardInv
    <2>1. CheckRun(q) => Goal
      BY <2>0, CheckIs DEF CheckRun, Before, Refused, Answered
    <2>2. FetchRun(q) => Goal
      BY <2>0, FetchIs DEF FetchRun, Before, Refused, Answered
    <2>3. ReadPolicy(q) => Goal
      BY <2>0, PolicyIs DEF ReadPolicy, Before, Refused, Answered
    <2>4. SaveReview(q) => Goal
      BY <2>0, SaveIs DEF SaveReview, Before, Refused, Answered
    <2>5. SaveSample(q) => Goal
      BY <2>0, SampleIs DEF Before
    <2>6. AppendAudit(q) => Goal
      BY <2>0, AuditIs DEF Before, Refused, Answered
    <2> HIDE DEF Goal
    <2>7. Goal
      BY <1>5, <2>1, <2>2, <2>3, <2>4, <2>5, <2>6
    <2>8. QED
      BY <2>7 DEF Goal
  <1>6. ASSUME NEW q \in Requests, CheckRun(q) \/ FetchRun(q) \/ ReadPolicy(q) \/ SaveReview(q)
                                     \/ SaveSample(q) \/ AppendAudit(q)
        PROVE  /\ handler'[r].pc \in Before \cup {"logAssigned"} => NotBy(log', r)
               /\ handler'[r].pc = "log" => \A i \in DOMAIN log' : log'[i] # Own(r)
               /\ handler'[r].pc \in {"config", "logAssigned"} \/ handler'[r].auto
                     => Kind[r] # "assign"
    BY <1>4, <1>5, <1>6 DEF Others
  <1>7. ASSUME NEW q \in Requests, LogAutoAssignment(q) \/ LogAction(q)
        PROVE  /\ handler'[r].pc \in Before \cup {"logAssigned"} => NotBy(log', r)
               /\ handler'[r].pc = "log" => \A i \in DOMAIN log' : log'[i] # Own(r)
               /\ handler'[r].pc \in {"config", "logAssigned"} \/ handler'[r].auto
                     => Kind[r] # "assign"
    <2> DEFINE e == IF handler[q].pc = "logAssigned" THEN AutoLogged(q) ELSE Own(q)
               logged == Append(log, e)
    <2>1. /\ Others(q) /\ handler[q].pc \in {"logAssigned", "log"} /\ log' \in {log, logged}
          /\ \/ /\ handler'[q].auto = handler[q].auto
                /\ \/ handler'[q].pc = "log" /\ handler[q].pc = "logAssigned"
                   \/ handler'[q].pc \in {"sample", "audit"}
             \/ handler'[q].auto = FALSE /\ handler'[q].pc = "error"
      BY <1>7, LogIs DEF Own, AutoLogged, Refused
    <2>2. e \in Event /\ e.by = q /\ (handler[q].pc = "logAssigned" => e = AutoLogged(q))
      BY EventsAre DEF Own, AutoLogged
    <2> HIDE DEF e
    <2>3. /\ DOMAIN logged = 1..(Len(log) + 1) /\ DOMAIN log = 1..Len(log) /\ Len(log) \in Nat
          /\ logged[Len(log) + 1] = e /\ \A i \in 1..Len(log) : logged[i] = log[i]
      BY <1>1, <2>2
    <2> HIDE DEF logged
    <2>4. CASE r # q
      <3>1. handler'[r] = handler[r] /\ e # Own(r)
        BY <1>2, <2>1, <2>2, <2>4 DEF Others
      <3>2. NotBy(log, r) => NotBy(logged, r)
        BY <2>2, <2>3, <2>4 DEF NotBy
      <3>3. (\A i \in DOMAIN log : log[i] # Own(r)) => \A i \in DOMAIN logged : logged[i] # Own(r)
        BY <2>3, <3>1
      <3>4. QED
        BY <2>1, <3>1, <3>2, <3>3 DEF UnheardInv
    <2>5. CASE r = q
      <3>1. handler'[r].auto => Kind[r] # "assign"
        BY <2>1, <2>5 DEF UnheardInv
      <3>2. handler'[r].pc = "log" => e # Own(r) /\ NotBy(log, r)
        <4>1. SUFFICES ASSUME handler[r].pc = "logAssigned" PROVE e # Own(r) /\ NotBy(log, r)
          BY <2>1, <2>5
        <4>2. Kind[r] \in {"comment", "decide"}
          BY <4>1, KindsAre DEF UnheardInv
        <4>3. EventOf(r) # "ANALYST_ASSIGNED"
          BY <4>2 DEF EventOf
        <4>4. QED
          BY <2>2, <2>5, <4>1, <4>3 DEF UnheardInv, AutoLogged, Own
      <3>3. handler'[r].pc = "log" => \A i \in DOMAIN log' : log'[i] # Own(r)
        BY <1>3, <2>1, <2>3, <3>2
      <3>4. handler'[r].pc \notin Before \cup {"logAssigned", "config"}
        BY <2>1, <2>5 DEF Before
      <3>5. QED
        BY <3>1, <3>3, <3>4
    <2>6. QED
      BY <2>4, <2>5
  <1>8. CASE UNCHANGED <<log, handler>>
    BY <1>4, <1>8
  <1>9. QED
    BY <1>6, <1>7, <1>8 DEF Next, vars, Serve, TruncateConfig, WriteConfig, Announce, FailRun

(* With one request at a time, the log tells what the record tells, until  *)
(* that request has written what it has yet to log: one entry, or two.     *)
Matches(h) == Tells(log, h) /\ (faults = 0 => log = Told(h))
Telling == {"logAssigned", "log"}
TwoToTell(r) == \E h \in Seq(Entry) :
    /\ Matches(h) /\ NotBy(h, r)
    /\ row.review.history = Append(Append(h, AssignedEntry(r)), Entered(r))
OneToTell(r) == \E h \in Seq(Entry) :
    /\ Matches(h) /\ (\A i \in DOMAIN h : h[i] # Entered(r))
    /\ row.review.history = Append(h, Entered(r))
StoryInv == limit = 1 =>
    /\ \A r \in Requests : handler[r].pc \in {"config", "save"} => Matches(handler[r].seen.history)
    /\ row.status = "COMPLETED" =>
        /\ (\A r \in Requests : handler[r].pc \notin Telling) => Matches(row.review.history)
        /\ \A r \in Requests : handler[r].pc = "logAssigned" => TwoToTell(r)
        /\ \A r \in Requests : handler[r].pc = "log" => OneToTell(r)

LEMMA MatchesKept ==
  ASSUME TypeOK, [Next]_vars, NEW h, Matches(h), UNCHANGED log
  PROVE  Matches(h)'
  BY FaultsGrow DEF Matches

(* The step of one request: where it leaves the story. *)
LEMMA MatchesUnheard ==
  ASSUME TypeOK, NEW h \in Seq(Entry), NEW e \in Entry, NEW l \in Seq(Event), Tells(l, h),
         \A i \in DOMAIN l : l[i] # EventFor(e), log' = l, Fault
  PROVE  Matches(Append(h, e))'
  <1>1. Tells(l, Append(h, e))
    BY TellsUnheard
  <1>2. faults' # 0
    BY DEF Fault, TypeOK
  <1>3. QED
    BY <1>1, <1>2 DEF Matches

LEMMA MatchesHeard ==
  ASSUME TypeOK, [Next]_vars, NEW h \in Seq(Entry), NEW e \in Entry, Matches(h),
         \A i \in DOMAIN h : h[i] # e, log' = Append(log, EventFor(e))
  PROVE  Matches(Append(h, e))'
  <1>1. log \in Seq(Event)
    BY DEF TypeOK, Event
  <1>2. Tells(log', Append(h, e))
    BY <1>1, TellsHeard DEF Matches
  <1>3. Told(Append(h, e)) = Append(Told(h), EventFor(e))
    BY ToldAppend
  <1>4. faults' = 0 => log' = Told(Append(h, e))
    BY <1>3, FaultsGrow DEF Matches
  <1>5. QED
    BY <1>2, <1>4 DEF Matches

(* A write, and a write that throws. *)
LEMMA StorySave ==
  ASSUME TypeOK, UnwrittenInv, UnheardInv, StoryInv, [Next]_vars, limit = 1,
         NEW q \in Requests, SaveReview(q)
  PROVE  \/ Fault /\ handler'[q].pc = "error" /\ row' = row
         \/ /\ Fault /\ handler'[q].pc = "error"
            /\ row'.status = "COMPLETED" /\ Matches(row.review.history)'
         \/ /\ row'.status = "COMPLETED"
            /\ \/ handler'[q].pc = "logAssigned" /\ TwoToTell(q)'
               \/ handler'[q].pc = "log" /\ OneToTell(q)'
  <1> DEFINE auto == handler[q].auto
             new == NewReview(q)
  <1>0. PICK h, a, e : h = handler[q].seen.history /\ a = AssignedEntry(q) /\ e = Entered(q)
    OBVIOUS
  <1>1. /\ handler[q].pc = "save"
        /\ \/ /\ handler'[q].pc = (IF auto THEN "logAssigned" ELSE "log")
              /\ row' = [status |-> "COMPLETED", review |-> new]
           \/ /\ handler'[q].pc = "error" /\ Fault
              /\ row' \in {row, [status |-> "COMPLETED", review |-> new]}
    BY SaveIs
  <1>2. h \in Seq(Entry) /\ a \in Entry /\ e \in Entry
    BY <1>0, NewReviewIs, EntriesType, KindsAre
  <1>3. new.history = IF auto THEN Append(Append(h, a), e) ELSE Append(h, e)
    <2>1. auto => Kind[q] # "assign"
      BY DEF UnheardInv
    <2>2. QED
      BY <1>0, <2>1, NewReviewIs
  <1>4. Matches(h) /\ NotBy(h, q) /\ NotBy(log, q) /\ log' = log
    BY <1>0, <1>1 DEF StoryInv, UnwrittenInv, UnheardInv, Before, SaveReview
  <1>5. a.by = q /\ e.by = q /\ EventFor(a).by = q /\ EventFor(e).by = q
    BY <1>0, <1>2, EventsFor DEF AssignedEntry, Entered
  <1> HIDE DEF new, auto
  <1>6. Matches(h)'
    BY <1>4, MatchesKept
  <1>7. ASSUME row' = [status |-> "COMPLETED", review |-> new],
               handler'[q].pc = (IF auto THEN "logAssigned" ELSE "log")
        PROVE  \/ handler'[q].pc = "logAssigned" /\ TwoToTell(q)'
               \/ handler'[q].pc = "log" /\ OneToTell(q)'
    <2>1. row'.review.history = new.history
      BY <1>7
    <2>2. CASE auto
      BY <1>0, <1>2, <1>3, <1>4, <1>6, <1>7, <2>1, <2>2 DEF TwoToTell
    <2>3. CASE ~auto
      <3>1. \A i \in DOMAIN h : h[i] # e
        BY <1>4, <1>5 DEF NotBy
      <3>2. QED
        BY <1>0, <1>2, <1>3, <1>6, <1>7, <2>1, <2>3, <3>1 DEF OneToTell
    <2>4. QED
      BY <2>2, <2>3
  <1>8. ASSUME Fault, row' = [status |-> "COMPLETED", review |-> new]
        PROVE  Matches(row.review.history)'
    <2>1. /\ log \in Seq(Event) /\ Tells(log, h)
          /\ \A i \in DOMAIN log : log[i] # EventFor(a) /\ log[i] # EventFor(e)
      BY <1>4, <1>5 DEF TypeOK, Event, Matches, NotBy
    <2>2. Append(h, a) \in Seq(Entry)
      BY <1>2
    <2>3. Tells(log, Append(h, a))
      BY <1>2, <2>1, TellsUnheard
    <2>4. Matches(Append(h, e))'
      BY <1>2, <1>4, <1>8, <2>1, MatchesUnheard
    <2>5. Matches(Append(Append(h, a), e))'
      BY <1>2, <1>4, <1>8, <2>1, <2>2, <2>3, MatchesUnheard
    <2>6. row'.review.history = new.history
      BY <1>8
    <2>7. QED
      BY <1>3, <2>4, <2>5, <2>6
  <1>9. QED
    BY <1>1, <1>7, <1>8

(* One of the two events, or the only one, is logged, or logging it throws.*)
LEMMA StoryLog ==
  ASSUME TypeOK, UnheardInv, StoryInv, [Next]_vars, limit = 1, row.status = "COMPLETED",
         NEW q \in Requests, LogAutoAssignment(q) \/ LogAction(q)
  PROVE  \/ handler'[q].pc = "log" /\ OneToTell(q)'
         \/ handler'[q].pc \in {"sample", "audit", "error"} /\ Matches(row.review.history)'
  <1>1. PICK a, e : a = AssignedEntry(q) /\ e = Entered(q)
    OBVIOUS
  <1>2. a \in Entry /\ e \in Entry /\ log \in Seq(Event) /\ EventFor(a) = AutoLogged(q) /\ EventFor(e) = Own(q)
    BY <1>1, KindsAre, EventsFor DEF TypeOK, Event
  <1>3. AutoLogged(q) \in Event /\ Own(q) \in Event /\ a.by = q /\ AutoLogged(q).by = q /\ Own(q).by = q
    BY <1>1, EventsAre DEF AssignedEntry, AutoLogged, Own
  <1>4. CASE handler[q].pc = "logAssigned"
    <2>1. PICK h \in Seq(Entry) : /\ Matches(h) /\ NotBy(h, q)
                                  /\ row.review.history = Append(Append(h, a), e)
      BY <1>1, <1>4 DEF StoryInv, TwoToTell
    <2>2. a # e /\ AutoLogged(q) # Own(q)
      <3>1. Kind[q] \in {"comment", "decide"}
        BY <1>4, KindsAre DEF UnheardInv
      <3>2. a.kind # e.kind
        BY <1>1, <3>1 DEF AssignedEntry, Entered, KindOfEntry
      <3>3. QED
        BY <1>2, <3>2, EventsFor
    <2>3. /\ \A i \in DOMAIN h : h[i] # a /\ h[i] # e
          /\ \A i \in DOMAIN log : log[i] # EventFor(a) /\ log[i] # EventFor(e)
      <3>1. e.by = q
        BY <1>1 DEF Entered
      <3>2. QED
        BY <1>2, <1>3, <1>4, <2>1, <3>1 DEF NotBy, UnheardInv
    <2>4. PICK g : g = Append(h, a)
      OBVIOUS
    <2>5. g \in Seq(Entry) /\ \A i \in DOMAIN g : g[i] # e
      <3>1. /\ DOMAIN g = 1..(Len(h) + 1) /\ DOMAIN h = 1..Len(h) /\ Len(h) \in Nat
            /\ g[Len(h) + 1] = a /\ \A i \in 1..Len(h) : g[i] = h[i]
        BY <1>2, <2>4
      <3>2. g \in Seq(Entry)
        BY <1>2, <2>4
      <3>3. QED
        BY <2>2, <2>3, <3>1, <3>2
    <2>6. row' = row /\ log' \in {log, Append(log, EventFor(a))}
          /\ \/ handler'[q].pc = "log" /\ log' = Append(log, EventFor(a))
             \/ handler'[q].pc = "error" /\ Fault
      BY <1>2, <1>4, LogIs DEF AutoLogged
    <2>7. log' = Append(log, EventFor(a)) => Matches(g)'
      BY <1>2, <2>1, <2>3, <2>4, MatchesHeard
    <2>8. row'.review.history = Append(g, e)
      BY <2>1, <2>4, <2>6
    <2>9. CASE handler'[q].pc = "log" /\ log' = Append(log, EventFor(a))
      BY <1>1, <2>5, <2>7, <2>8, <2>9 DEF OneToTell
    <2>10. CASE handler'[q].pc = "error" /\ Fault
      <3>1. log' \in Seq(Event) /\ Tells(log', g)
        <4>1. CASE log' = log
          BY <1>2, <2>1, <2>3, <2>4, <4>1, TellsUnheard DEF Matches
        <4>2. CASE log' = Append(log, EventFor(a))
          BY <1>2, <1>3, <2>7, <4>2 DEF Matches
        <4>3. QED
          BY <2>6, <4>1, <4>2
      <3>2. \A i \in DOMAIN log' : log'[i] # EventFor(e)
        <4>1. /\ DOMAIN log = 1..Len(log) /\ Len(log) \in Nat
              /\ DOMAIN Append(log, EventFor(a)) = 1..(Len(log) + 1)
              /\ Append(log, EventFor(a))[Len(log) + 1] = EventFor(a)
              /\ \A i \in 1..Len(log) : Append(log, EventFor(a))[i] = log[i]
          BY <1>2, <1>3
        <4>2. QED
          BY <1>2, <2>2, <2>3, <2>6, <4>1, SMTT(60)
      <3>3. PICK l : l = log'
        OBVIOUS
      <3>4. Matches(Append(g, e))'
        BY <1>2, <2>5, <2>10, <3>1, <3>2, <3>3, MatchesUnheard
      <3>5. QED
        BY <2>8, <2>10, <3>4
    <2>11. QED
      BY <2>6, <2>9, <2>10
  <1>5. CASE handler[q].pc = "log"
    <2>1. PICK h \in Seq(Entry) : /\ Matches(h) /\ (\A i \in DOMAIN h : h[i] # e)
                                  /\ row.review.history = Append(h, e)
      BY <1>1, <1>5 DEF StoryInv, OneToTell
    <2>2. \A i \in DOMAIN log : log[i] # EventFor(e)
      BY <1>2, <1>5 DEF UnheardInv
    <2>3. row' = row /\ log' \in {log, Append(log, EventFor(e))}
          /\ \/ handler'[q].pc \in {"sample", "audit"} /\ log' = Append(log, EventFor(e))
             \/ handler'[q].pc = "error" /\ Fault
      BY <1>2, <1>5, LogIs DEF Own
    <2>4. log' = Append(log, EventFor(e)) => Matches(Append(h, e))'
      BY <1>2, <2>1, MatchesHeard
    <2>5. log' = log /\ Fault => Matches(Append(h, e))'
      BY <1>2, <2>1, <2>2, MatchesUnheard DEF Matches
    <2>6. row'.review.history = Append(h, e)
      BY <2>1, <2>3
    <2>7. QED
      BY <2>3, <2>4, <2>5, <2>6
  <1>6. QED
    BY <1>4, <1>5, LogIs

LEMMA StoryStep ==
  ASSUME TypeOK, FlightInv, UnwrittenInv, UnheardInv, StoryInv, [Next]_vars
  PROVE  StoryInv'
  <1> SUFFICES ASSUME limit = 1
               PROVE  StoryInv'
    BY HandlersMove DEF StoryInv
  <1>1. limit' = 1
    BY HandlersMove
  <1>2. UNCHANGED log => \A h : Matches(h) => Matches(h)'
    BY MatchesKept
  <1>3. ASSUME NEW q \in Requests, CheckRun(q) \/ Serve(q)
        PROVE  /\ \A r \in Requests \ {q} : handler[r].pc \notin InService /\ handler'[r].pc \notin InService
               /\ (handler[q].pc \notin Telling /\ row.status = "COMPLETED") => Matches(row.review.history)
    BY <1>3, Alone DEF StoryInv, Telling, InService
  (* The story when the request that steps is the only one that matters.   *)
  <1>4. ASSUME NEW q \in Requests, CheckRun(q) \/ Serve(q),
               handler'[q].pc \in {"config", "save"} => Matches(handler[q].seen.history)',
               row'.status = "COMPLETED" =>
                  \/ handler'[q].pc \notin Telling /\ Matches(row.review.history)'
                  \/ handler'[q].pc = "logAssigned" /\ TwoToTell(q)'
                  \/ handler'[q].pc = "log" /\ OneToTell(q)'
        PROVE  StoryInv'
    <2>1. \A r \in Requests : handler'[r].pc \in {"config", "save", "logAssigned", "log"} => r = q
      BY <1>3, <1>4 DEF InService
    <2>2. ASSUME NEW r \in Requests, handler'[r].pc \in {"config", "save"}
          PROVE  Matches(handler[r].seen.history)'
      BY <1>4, <2>1, <2>2
    <2>3. ASSUME row'.status = "COMPLETED", \A r \in Requests : handler'[r].pc \notin Telling
          PROVE  Matches(row.review.history)'
      BY <1>4, <2>3 DEF Telling
    <2>4. ASSUME row'.status = "COMPLETED", NEW r \in Requests, handler'[r].pc = "logAssigned"
          PROVE  TwoToTell(r)'
      BY <1>4, <2>1, <2>4 DEF Telling
    <2>5. ASSUME row'.status = "COMPLETED", NEW r \in Requests, handler'[r].pc = "log"
          PROVE  OneToTell(r)'
      BY <1>4, <2>1, <2>5 DEF Telling
    <2>6. QED
      BY <2>2, <2>3, <2>4, <2>5 DEF StoryInv
  <1>5. ASSUME UNCHANGED <<row, log>>, row.status = "COMPLETED", Matches(row.review.history)
        PROVE  Matches(row.review.history)'
    BY <1>2, <1>5
  <1>6. ASSUME NEW q \in Requests, CheckRun(q) PROVE StoryInv'
    <2>1. /\ UNCHANGED <<row, log>> /\ handler[q].pc \notin Telling
          /\ handler'[q].pc \notin Telling \cup {"config", "save"}
      BY <1>6, CheckIs DEF CheckRun, Telling, Refused, Answered
    <2>2. QED
      BY <1>3, <1>4, <1>5, <1>6, <2>1
  <1>7. ASSUME NEW q \in Requests, FetchRun(q) PROVE StoryInv'
    <2>1. /\ UNCHANGED <<row, log>> /\ handler[q].pc \notin Telling /\ handler'[q].pc \notin Telling
          /\ handler'[q].pc \in {"config", "save"}
                => handler'[q].seen = row.review /\ row.status = "COMPLETED"
      BY <1>7, FetchIs DEF FetchRun, Telling, Refused, Answered
    <2>2. handler'[q].pc \in {"config", "save"} => Matches(handler[q].seen.history)'
      BY <1>2, <1>3, <1>7, <2>1 DEF Serve
    <2>3. QED
      BY <1>3, <1>4, <1>5, <1>7, <2>1, <2>2 DEF Serve
  <1>8. ASSUME NEW q \in Requests, ReadPolicy(q) PROVE StoryInv'
    <2>1. /\ UNCHANGED <<row, log>> /\ handler[q].pc \notin Telling /\ handler'[q].pc \notin Telling
          /\ handler'[q].pc \in {"config", "save"}
                => handler'[q].seen = handler[q].seen /\ handler[q].pc = "config"
      BY <1>8, PolicyIs DEF ReadPolicy, Telling, Refused, Answered
    <2>2. handler'[q].pc \in {"config", "save"} => Matches(handler[q].seen.history)'
      BY <1>2, <2>1 DEF StoryInv
    <2>3. QED
      BY <1>3, <1>4, <1>5, <1>8, <2>1, <2>2 DEF Serve
  <1>9. ASSUME NEW q \in Requests, SaveReview(q) PROVE StoryInv'
    <2>1. handler[q].pc \notin Telling /\ UNCHANGED log
      BY <1>9, SaveIs DEF SaveReview, Telling
    <2>2. handler'[q].pc \notin {"config", "save"}
      BY <1>9, SaveIs
    <2>3. row' = row /\ row.status = "COMPLETED" => Matches(row.review.history)'
      BY <1>3, <1>5, <1>9, <2>1 DEF Serve
    <2>4. row'.status = "COMPLETED" =>
                  \/ handler'[q].pc \notin Telling /\ Matches(row.review.history)'
                  \/ handler'[q].pc = "logAssigned" /\ TwoToTell(q)'
                  \/ handler'[q].pc = "log" /\ OneToTell(q)'
      BY <1>9, <2>3, StorySave DEF Telling
    <2>5. QED
      BY <1>4, <1>9, <2>2, <2>4 DEF Serve
  <1>10. ASSUME NEW q \in Requests, LogAutoAssignment(q) \/ LogAction(q) PROVE StoryInv'
    <2>1. row' = row /\ handler'[q].pc \notin {"config", "save"}
      BY <1>10, LogIs
    <2>2. QED
      BY <1>4, <1>10, <2>1, StoryLog DEF Serve, Telling
  <1>11. ASSUME NEW q \in Requests, SaveSample(q) \/ AppendAudit(q) PROVE StoryInv'
    <2>1. /\ UNCHANGED <<row, log>> /\ handler[q].pc \notin Telling
          /\ handler'[q].pc \notin Telling \cup {"config", "save"}
      BY <1>11, SampleIs, AuditIs DEF Telling, Refused, Answered
    <2>2. QED
      BY <1>3, <1>4, <1>5, <1>11, <2>1 DEF Serve
  <1>12. ASSUME UNCHANGED <<handler, log>>, row' = row \/ row' = FailedRow PROVE StoryInv'
    <2>1. row' = row => \A r \in Requests : /\ TwoToTell(r) => TwoToTell(r)'
                                            /\ OneToTell(r) => OneToTell(r)'
      BY <1>2, <1>12 DEF TwoToTell, OneToTell
    <2>2. row'.status = "COMPLETED" => row' = row
      BY <1>12 DEF FailedRow
    <2>3. QED
      BY <1>2, <1>5, <1>12, <2>1, <2>2 DEF StoryInv
  <1>13. ASSUME NEW q \in Requests, CheckRun(q) \/ Serve(q) PROVE StoryInv'
    BY <1>6, <1>7, <1>8, <1>9, <1>10, <1>11, <1>13 DEF Serve
  <1>14. \/ \E q \in Requests : CheckRun(q) \/ Serve(q)
         \/ UNCHANGED <<handler, log>> /\ (row' = row \/ row' = FailedRow)
    BY DEF Next, vars, TruncateConfig, WriteConfig, Announce, FailRun
  <1>15. QED
    BY <1>12, <1>13, <1>14

(* Served one at a time, requests leave a log that tells the story of the  *)
(* record: every event has its entry, in the same order, whatever failed;  *)
(* and every entry its event when nothing did.                             *)
THEOREM LogsTellHistories == Spec => []LogMatchesHistory
  <1>1. Init => UnwrittenInv /\ UnheardInv /\ StoryInv
    <2> SUFFICES ASSUME Init PROVE UnwrittenInv /\ UnheardInv /\ StoryInv
      OBVIOUS
    <2>1. \A r \in Requests : handler[r] = At("unsent")
      BY DEF Init
    <2>2. /\ row.review.history = << >> /\ log = << >>
          /\ \A r \in Requests : /\ handler[r].seen.history = << >> /\ handler[r].pc = "unsent"
                                 /\ handler[r].auto = FALSE
      BY <2>1 DEF Init, At, Fresh
    <2>3. UnwrittenInv /\ UnheardInv
      BY <2>2 DEF UnwrittenInv, UnheardInv, NotBy
    <2>4. Matches(<< >>)
      <3>1. Told(<< >>) = << >>
        BY DEF Told
      <3>2. QED
        BY <2>2, <3>1, KeptEmpty DEF Matches, Tells
    <2>5. QED
      BY <2>2, <2>3, <2>4 DEF StoryInv, Telling
  <1>2. StoryInv => LogMatchesHistory
    <2> SUFFICES ASSUME StoryInv, limit = 1, row.status = "COMPLETED", InFlight = {}
                 PROVE  /\ log = Kept(Told(row.review.history), {log[i] : i \in DOMAIN log})
                        /\ faults = 0 => log = Told(row.review.history)
      BY DEF LogMatchesHistory
    <2>1. \A r \in Requests : handler[r].pc \notin Telling
      BY DEF InFlight, InService, Telling
    <2>2. QED
      BY <2>1 DEF StoryInv, Matches, Tells, Heard
  <1>3. QED
    BY <1>1, <1>2, UnwrittenStep, UnheardStep, StoryStep, OneAtATimeHolds, PTL DEF Spec
=============================================================================
