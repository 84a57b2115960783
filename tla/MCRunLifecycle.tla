--------------------------- MODULE MCRunLifecycle ---------------------------
(* Instances of RunLifecycle for TLC: two processes with one worker loop   *)
(* each, as two standalone runtimes on one database have, or one process   *)
(* whose host restarts the worker while its loop is still ending.  An      *)
(* analyst's decision turns a result that was flagged into a reviewed one. *)
EXTENDS RunLifecycle, TLC

CONSTANTS j1, j2, w1, w2, l1, l2, plain, flagged, reviewed, a1

OneLoopEach == l1 :> w1 @@ l2 :> w2
TwoLoopsOneWorker == l1 :> w1 @@ l2 :> w1
Analyses == [r \in Results |-> IF r = reviewed THEN flagged ELSE r]
Decisions == [a \in Reviews |-> <<"ANALYST_REVIEW_RECORDED">>]
JobSymmetry == Permutations({j1, j2})

(* The two processes are alike: let the analyst's request be sent to w1.   *)
ToOneProcess == \A a \in Reviews : review'[a].host # w2
FaultsSpec == Init /\ [][Next /\ ToOneProcess]_vars /\ Fairness
=============================================================================
