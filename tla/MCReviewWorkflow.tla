-------------------------- MODULE MCReviewWorkflow --------------------------
(* Instances of ReviewWorkflow for TLC: an assignment, a comment and two   *)
(* decisions on one run, under every assignment policy.                    *)
EXTENDS ReviewWorkflow

CONSTANTS take, note, verify, doubt

KindOf == [r \in Requests |-> CASE r = take -> "assign"
                                [] r = note -> "comment"
                                [] OTHER -> "decide"]
DecisionOf == [r \in Requests |-> IF r = doubt THEN "MARK_UNCERTAIN" ELSE "VERIFY"]

AnyPolicy == Policy
TwoPolicies == {[mode |-> "AUTO_ASSIGN_SELF", require |-> FALSE],
                [mode |-> "MANUAL", require |-> TRUE]}

(* Four requests one at a time under every policy, or three side by side   *)
(* under the two policies that treat an unassigned run differently, with a *)
(* fault or a PUT, on a run that waits for its review.                     *)
Scenario == \/ limit = 1
            \/ /\ limit = 3
               /\ handler[doubt].pc = "unsent" /\ faults + puts < 2
               /\ row.review.resolution = Nothing => row.review.state = "NEEDS_REVIEW"
               /\ config \in TwoPolicies \cup {Nothing}
               /\ putting \in TwoPolicies \cup {Nothing}
=============================================================================
