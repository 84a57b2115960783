----------------------- MODULE MCValidationMonitoring -----------------------
(* An instance of ValidationMonitoring for TLC.  Either few runs and many  *)
(* interleavings, or any runs of a few kinds and the worker alone.  Limits *)
(* of durations are small, as TLC's integers are.                          *)
EXTENDS ValidationMonitoring

CONSTANTS r1, r2, r3

Limits == [DefaultLimits EXCEPT !.sampleSize = 1, !.averageMs = 1000, !.p95Ms = 2000]
OneEach == [x \in Dimensions \cup {"ALL"} |-> [runs |-> 1, reviewed |-> 1]]
Nightly(limits, overrides) ==
    [enabled |-> TRUE, interval |-> 1, autoApply |-> TRUE, autoInterval |-> 1,
     appliedAt |-> None, minima |-> OneEach,
     thresholds |-> [limits |-> limits, by |-> overrides]]
Lenient == [Limits EXCEPT !.failureRate = 5000, !.reviewRate = 7500, !.uncertainRate = 5000]
OwnQueue == [NoOverrides EXCEPT !["queue"] = [q1 |-> [reviewRate |-> 7500, delta100 |-> 9000]]]

Off == [Nightly(Limits, NoOverrides) EXCEPT !.enabled = FALSE, !.autoApply = FALSE]
ToPut == {Off}
Daily == [force |-> FALSE, enable |-> TRUE, interval |-> 1, minima |-> OneEach, autoApply |-> FALSE]
ToAsk == {[Daily EXCEPT !.force = TRUE, !.minima = DefaultMinima]}

Wanted == [records |-> 1, sentiments |-> 1, age |-> 1,
           by |-> [NoOverrides EXCEPT !["queue"] = [q1 |-> 1]]]

Done(review, queue, model, analyst, ms) ==
    [status |-> "COMPLETED", review |-> review, schema |-> "VALID", ms |-> ms,
     engagement |-> "CALL", queue |-> queue, length |-> "LONG", derived |-> "SHORT",
     version |-> 1, model100 |-> model, analyst100 |-> analyst, created |-> 0,
     updatedAt |-> 0, decisions |-> 0, label |-> None]
Reviewed1(x, at) == [x EXCEPT !.decisions = 1, !.label = at, !.updatedAt = at]
Failed == [Done("NOT_REQUIRED", "q1", 50, 50, 500) EXCEPT !.status = "FAILED", !.schema = "INVALID"]

Kinds ==
    <<Failed, [Failed EXCEPT !.status = "QUEUED", !.schema = "UNKNOWN", !.ms = None, !.queue = "q2"],
      Reviewed1(Done("VERIFIED", "q1", 50, 52, 400), 1),
      Reviewed1(Done("NEEDS_REVIEW", "q1", 20, 90, 3000), 1),
      Reviewed1(Done("UNCERTAIN", "q2", 70, 70, 100), 1),
      [Done("NEEDS_REVIEW", "q2", 10, 10, 900) EXCEPT !.version = 2]>>
AnyRuns == {(r1 :> Kinds[i]) @@ (r2 :> Kinds[j]) @@ (r3 :> Kinds[k]) :
              <<i, j, k>> \in {x \in (1..6) \X (1..6) \X (1..6) : x[1] <= x[2] /\ x[2] <= x[3]}}
ToDo == {<<"refresh", FALSE>>, <<"validate", TRUE>>}

Files(config) ==
    [latest |-> Absent, manifest |-> Absent, config |-> [Absent EXCEPT !.now = config]]
ByHand == [Nightly(Limits, NoOverrides) EXCEPT !.autoApply = FALSE]
ToFind == {ByHand, Nightly(Limits, NoOverrides), Nightly(Lenient, OwnQueue)}

MCInit ==
    /\ \/ /\ run = (r1 :> Reviewed1(Done("VERIFIED", "q1", 50, 52, 400), 0))
                   @@ (r2 :> Failed) @@ (r3 :> Kinds[2])
          /\ file = Files(ByHand)
          /\ clock = 0 /\ events = [decisions |-> 0, others |-> 0]
       \/ /\ run \in AnyRuns
          /\ file \in {Files(Nightly(Limits, NoOverrides)), Files(Nightly(Lenient, OwnQueue))}
          /\ clock = 1 /\ events = [decisions |-> MaxDecisions, others |-> MaxEvents]
    /\ MonitoringInit

MCSpec == MCInit /\ [][MonitoringNext]_validation /\ Fairness
=============================================================================
