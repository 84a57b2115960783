-------------------------- MODULE CanaryAutomation --------------------------
(***************************************************************************)
(* CanaryAutomationWorker and CanaryAutomationService in one server        *)
(* process: a timer that reads the admin configuration of every scope (a   *)
(* tenant and a use case) and evaluates, through the pack registry, the    *)
(* canary of each scope that asks for it.  Between any two awaits of a     *)
(* tick, runs are created and end, releases are published and decided by   *)
(* hand, configurations are rewritten, and clients of                      *)
(* /v1/tenant-packs/auto-evaluate-canary do what the timer does.  A call   *)
(* of the registry is one read and one write of the list of releases (see  *)
(* TenantPackRegistry for its files); of that list the model keeps the     *)
(* release in canary.                                                      *)
(***************************************************************************)
EXTENDS SequenceFilters, FiniteSets

CONSTANTS Scopes,             \* tenants and use cases
          Order,              \* the scopes as list() of the registry sorts them
          Timer, Clients,     \* who evaluates: the worker's tick, HTTP handlers
          Interval,           \* minimumIntervalMinutes
          MinSample,          \* minimumSampleSize of the canary policy
          MaxFailurePercent,  \* 100 * maximumFailureRate
          Torn, Nothing,      \* a file that does not parse; an absent value
          MaxClock, MaxRuns,  \* bounds: time, runs
          MaxEvents           \* bound: publications and decisions by hand, PUTs of
                              \* a configuration, client requests, calls that throw
                              \* and process deaths, together

ASSUME CanaryAssumption ==
    /\ Order \in Seq(Scopes) /\ {Order[i] : i \in DOMAIN Order} = Scopes
    /\ Timer \notin Clients /\ Nothing \notin Clients \cup {Timer} \cup 0..MaxClock
    /\ Torn # Nothing /\ {Torn, Nothing} \cap {"OFF", "OBSERVE", "APPLY"} = {}
    /\ {Interval, MinSample, MaxClock, MaxRuns, MaxEvents} \subseteq Nat
    /\ MaxFailurePercent \in 0..100

Evaluators == Clients \cup {Timer}
(* canaryAutomation of a configuration: enabled or not, applyResult or not. *)
Setting == {"OFF", "OBSERVE", "APPLY"}
Metrics == [sample : Nat, failed : Nat]

VARIABLES config,     \* config[s]: the admin configuration file of scope s
          putting,    \* putting[s]: what a PUT is writing to it
          release,    \* release[s]: the release of s that was published as a canary
          runs,       \* runs[s]: the runs of its version since, by how they stand
          evaluator,  \* evaluator[e]: where a call of evaluateScope is, and its locals
          up,         \* whether the process runs
          clock, started, rivals, puts, asks, faults

vars == <<config, putting, release, runs, evaluator, up, clock, started,
          rivals, puts, asks, faults>>

Evaluation == [by : Evaluators \cup {Nothing}, at : 0..MaxClock,
               metrics : Metrics \cup {Nothing}]
Release == [status : {"CANARY", "ACTIVE", "REJECTED"},
            startedAt : 0..MaxClock \cup {Nothing}, evaluations : Seq(Evaluation)]
Pc == {"idle", "list", "config", "describe", "metrics", "read", "write"}
Idle == [pc |-> "idle", todo |-> << >>, force |-> FALSE, setting |-> Nothing,
         metrics |-> Nothing, at |-> 0, base |-> Nothing]

TypeOK ==
    /\ config \in [Scopes -> Setting \cup {Torn}]
    /\ putting \in [Scopes -> Setting \cup {Nothing}]
    /\ release \in [Scopes -> Release]
    /\ runs \in [Scopes -> [open : 0..MaxRuns, done : 0..MaxRuns, failed : 0..MaxRuns]]
    /\ evaluator \in [Evaluators ->
           [pc : Pc, todo : Seq(Scopes), force : BOOLEAN, setting : Setting \cup {Nothing},
            metrics : Metrics \cup {Nothing}, at : 0..MaxClock, base : Release \cup {Nothing}]]
    /\ up \in BOOLEAN
    /\ clock \in 0..MaxClock /\ started \in 0..MaxRuns
    /\ {rivals, puts, asks, faults} \subseteq 0..MaxEvents

(* A publication in mode CANARY is stamped with its time; one in mode      *)
(* DIRECT that names a percentage is a canary too, without a time.         *)
Published(stamp) == [status |-> "CANARY", startedAt |-> stamp, evaluations |-> << >>]
NoRuns == [open |-> 0, done |-> 0, failed |-> 0]

Init ==
    /\ config \in [Scopes -> Setting]
    /\ putting = [s \in Scopes |-> Nothing]
    /\ clock = 0
    /\ \E stamp \in [Scopes -> {clock, Nothing}] :
          release = [s \in Scopes |-> Published(stamp[s])]
    /\ runs = [s \in Scopes |-> NoRuns]
    /\ evaluator = [e \in Evaluators |-> Idle]
    /\ up = FALSE
    /\ started = 0 /\ rivals = 0 /\ puts = 0 /\ asks = 0 /\ faults = 0
-----------------------------------------------------------------------------
bounds == <<started, rivals, puts, asks, faults>>

EventsLeft == rivals + puts + asks + faults < MaxEvents

Fault == EventsLeft /\ faults' = faults + 1

(* The process ends: its handlers with it, the files stay as they are. *)
Exit == /\ up' = FALSE
        /\ evaluator' = [e \in Evaluators |-> Idle]
        /\ putting' = [s \in Scopes |-> Nothing]

Goto(e, local) == evaluator' = [evaluator EXCEPT ![e] = local] /\ UNCHANGED <<up, putting>>

(* The evaluation of a scope is over: the tick goes on with the next one. *)
NextScope(local) == IF Len(local.todo) <= 1 THEN Idle
                    ELSE [Idle EXCEPT !.pc = "config", !.todo = Tail(local.todo)]
Done(e) == Goto(e, NextScope(evaluator[e]))

(* A rejected call fails the request of a client.  The tick catches        *)
(* nothing and nothing awaits it: the unhandled rejection ends the process.*)
Throw(e) == IF e = Timer THEN Exit ELSE Goto(e, Idle)
-----------------------------------------------------------------------------
(* The worker: start() ticks at once, the interval ticks again when the    *)
(* last tick is over (`running` makes the others return).                  *)

Boot ==
    /\ ~up /\ up' = TRUE
    /\ evaluator' = [evaluator EXCEPT ![Timer].pc = "list"]
    /\ UNCHANGED <<config, putting, release, runs, clock, bounds>>

Tick ==
    /\ up /\ evaluator[Timer].pc = "idle"
    /\ Goto(Timer, [Idle EXCEPT !.pc = "list"])
    /\ UNCHANGED <<config, release, runs, clock, bounds>>

Crash ==
    /\ up /\ Fault /\ Exit
    /\ UNCHANGED <<config, release, runs, clock, started, rivals, puts, asks>>

(* Slip: only the scopes that apply their results are looked at.           *)
ListConfigsApplying ==
    LET todo == Kept(Order, {s \in Scopes : config[s] = "APPLY"})
    IN  /\ evaluator[Timer].pc = "list"
        /\ IF \E s \in Scopes : config[s] = Torn THEN Throw(Timer)
           ELSE Goto(Timer, IF todo = << >> THEN Idle
                            ELSE [Idle EXCEPT !.pc = "config", !.todo = todo])
        /\ UNCHANGED <<config, release, runs, clock, bounds>>

(* list() of the configuration registry parses every file; unlike get() it *)
(* does not catch the error of one that is being rewritten.                *)
ListConfigs ==
    LET todo == Kept(Order, {s \in Scopes : config[s] # "OFF"})
    IN  /\ evaluator[Timer].pc = "list"
        /\ IF \E s \in Scopes : config[s] = Torn THEN Throw(Timer)
           ELSE Goto(Timer, IF todo = << >> THEN Idle
                            ELSE [Idle EXCEPT !.pc = "config", !.todo = todo])
        /\ UNCHANGED <<config, release, runs, clock, bounds>>

(* POST /v1/tenant-packs/auto-evaluate-canary; the request may say whether *)
(* the result is applied, whatever the configuration says.                 *)
Ask(c, s, force, wish) ==
    /\ up /\ evaluator[c].pc = "idle"
    /\ EventsLeft /\ asks' = asks + 1
    /\ Goto(c, [Idle EXCEPT !.pc = "config", !.todo = <<s>>, !.force = force,
                            !.setting = wish])
    /\ UNCHANGED <<config, release, runs, clock, started, rivals, puts, faults>>
-----------------------------------------------------------------------------
(* evaluateScope, by the tick or by a handler. *)

Scope(e) == Head(evaluator[e].todo)

ReadConfig(e) ==
    LET file == config[Scope(e)]
        Chosen(wish) == IF file \in {"OFF", Torn} THEN "OFF"
                        ELSE IF wish = Nothing THEN file ELSE wish
    IN  /\ evaluator[e].pc = "config"
        /\ Goto(e, [evaluator[e] EXCEPT !.pc = "describe", !.setting = Chosen(@)])
        /\ UNCHANGED <<config, release, runs, clock, bounds>>

LastEvaluationAt(r) == IF r.evaluations = << >> THEN r.startedAt
                       ELSE r.evaluations[Len(r.evaluations)].at
TooRecent(r) == LastEvaluationAt(r) # Nothing /\ clock < LastEvaluationAt(r) + Interval

(* Slip: the time of the canary's start is not looked at, nor is the last. *)
DescribeAlways(e) ==
    LET r == release[Scope(e)]
    IN  /\ evaluator[e].pc = "describe"
        /\ IF evaluator[e].setting = "OFF" \/ r.status # "CANARY" THEN Done(e)
           ELSE Goto(e, [evaluator[e] EXCEPT !.pc = "metrics"])
        /\ UNCHANGED <<config, release, runs, clock, bounds>>

(* Slip: a scope without a canary ends the tick with an error. *)
DescribeOrThrow(e) ==
    LET r == release[Scope(e)]
    IN  /\ evaluator[e].pc = "describe"
        /\ IF r.status # "CANARY" THEN Throw(e)
           ELSE IF evaluator[e].setting = "OFF" \/ (~evaluator[e].force /\ TooRecent(r))
           THEN Done(e)
           ELSE Goto(e, [evaluator[e] EXCEPT !.pc = "metrics"])
        /\ UNCHANGED <<config, release, runs, clock, bounds>>

(* describe() of the pack registry, and what evaluateScope skips. *)
Describe(e) ==
    LET r == release[Scope(e)]
        skipped == \/ evaluator[e].setting = "OFF"
                   \/ r.status # "CANARY"
                   \/ ~evaluator[e].force /\ TooRecent(r)
    IN  /\ evaluator[e].pc = "describe"
        /\ IF skipped THEN Done(e) ELSE Goto(e, [evaluator[e] EXCEPT !.pc = "metrics"])
        /\ UNCHANGED <<config, release, runs, clock, bounds>>

(* computeLiveMetrics: a run that has not ended counts in the sample.      *)
Measured(s) == [sample |-> runs[s].open + runs[s].done + runs[s].failed,
                failed |-> runs[s].failed]

ComputeLiveMetrics(e) ==
    /\ evaluator[e].pc = "metrics"
    /\ \/ /\ Goto(e, [evaluator[e] EXCEPT !.pc = "read", !.at = clock,
                                           !.metrics = Measured(Scope(e))])
          /\ UNCHANGED faults
       \/ Fault /\ Throw(e)
    /\ UNCHANGED <<config, release, runs, clock, started, rivals, puts, asks>>

(* evaluateCanary of the registry, called at that moment, reads again.     *)
ReadReleases(e) ==
    LET r == release[Scope(e)]
    IN  /\ evaluator[e].pc = "read"
        /\ IF r.status # "CANARY" THEN Throw(e)
           ELSE Goto(e, [evaluator[e] EXCEPT !.pc = "write", !.base = r])
        /\ UNCHANGED <<config, release, runs, clock, bounds>>

(* Slip: the size of the sample is not looked at. *)
PassesAnySample(m) == 100 * m.failed <= MaxFailurePercent * m.sample

Passes(m) == m.sample >= MinSample /\ 100 * m.failed <= MaxFailurePercent * m.sample

Evaluated(e) ==
    LET local == evaluator[e]
        entry == [by |-> e, at |-> local.at, metrics |-> local.metrics]
    IN  [local.base EXCEPT
            !.evaluations = Append(@, entry),
            !.status = IF local.setting = "OBSERVE" THEN @
                       ELSE IF Passes(local.metrics) THEN "ACTIVE" ELSE "REJECTED"]

WriteReleases(e) ==
    /\ evaluator[e].pc = "write"
    /\ \/ /\ release' = [release EXCEPT ![Scope(e)] = Evaluated(e)]
          /\ Done(e) /\ UNCHANGED faults
       \/ Fault /\ Throw(e) /\ UNCHANGED release
    /\ UNCHANGED <<config, runs, clock, started, rivals, puts, asks>>
-----------------------------------------------------------------------------
(* Everyone else. *)

Rival == EventsLeft /\ rivals' = rivals + 1

(* A publication, by hand, of the version in canary or of another.         *)
Publish(s) ==
    /\ up /\ Rival
    /\ \E stamp \in {clock, Nothing} : release' = [release EXCEPT ![s] = Published(stamp)]
    /\ runs' = [runs EXCEPT ![s] = NoRuns]
    /\ UNCHANGED <<config, putting, evaluator, up, clock, started, puts, asks, faults>>

(* promote, or evaluate-canary with or without applyResult, by hand.       *)
DecideByHand(s, status) ==
    /\ up /\ Rival
    /\ release[s].status = "CANARY"
    /\ release' = [release EXCEPT
           ![s].status = status,
           ![s].evaluations = Append(@, [by |-> Nothing, at |-> clock, metrics |-> Nothing])]
    /\ UNCHANGED <<config, putting, runs, evaluator, up, clock, started, puts, asks, faults>>

StartRun(s) ==
    /\ started < MaxRuns /\ started' = started + 1
    /\ runs' = [runs EXCEPT ![s].open = @ + 1]
    /\ UNCHANGED <<config, putting, release, evaluator, up, clock, rivals, puts, asks, faults>>

EndRun(s) ==
    /\ runs[s].open > 0
    /\ \/ runs' = [runs EXCEPT ![s].open = @ - 1, ![s].done = @ + 1]
       \/ runs' = [runs EXCEPT ![s].open = @ - 1, ![s].failed = @ + 1]
    /\ UNCHANGED <<config, putting, release, evaluator, up, clock, bounds>>

(* A PUT of the configuration truncates the file and then writes it.       *)
TruncateConfig(s, setting) ==
    /\ up /\ putting[s] = Nothing
    /\ EventsLeft /\ puts' = puts + 1
    /\ config' = [config EXCEPT ![s] = Torn]
    /\ putting' = [putting EXCEPT ![s] = setting]
    /\ UNCHANGED <<release, runs, evaluator, up, clock, started, rivals, asks, faults>>

WriteConfig(s) ==
    /\ putting[s] # Nothing
    /\ config' = [config EXCEPT ![s] = putting[s]]
    /\ putting' = [putting EXCEPT ![s] = Nothing]
    /\ UNCHANGED <<release, runs, evaluator, up, clock, bounds>>

Minute ==
    /\ clock < MaxClock /\ clock' = clock + 1
    /\ UNCHANGED <<config, putting, release, runs, evaluator, up, bounds>>
-----------------------------------------------------------------------------
Evaluate(e) == \/ ReadConfig(e) \/ Describe(e) \/ ComputeLiveMetrics(e)
               \/ ReadReleases(e) \/ WriteReleases(e)

Next ==
    \/ Boot \/ Tick \/ ListConfigs \/ Crash \/ Minute
    \/ \E e \in Evaluators : Evaluate(e)
    \/ \E s \in Scopes :
          \/ Publish(s) \/ StartRun(s) \/ EndRun(s) \/ WriteConfig(s)
          \/ \E status \in {"CANARY", "ACTIVE", "REJECTED"} : DecideByHand(s, status)
          \/ \E setting \in Setting : TruncateConfig(s, setting)
          \/ \E c \in Clients, force \in BOOLEAN, wish \in {Nothing, "OBSERVE", "APPLY"} :
                Ask(c, s, force, wish)

Spec == Init /\ [][Next]_vars

(* The interval fires, the event loop goes on with every call whose await  *)
(* has come back, and a supervisor restarts the process.                   *)
Fairness ==
    /\ WF_vars(Boot) /\ WF_vars(Tick) /\ WF_vars(ListConfigs)
    /\ \A e \in Evaluators : WF_vars(Evaluate(e))
    /\ \A s \in Scopes : WF_vars(WriteConfig(s))

FairSpec == Spec /\ Fairness
-----------------------------------------------------------------------------
(* Properties. *)

(* Automated checks are at least the minimum interval apart: of the        *)
(* evaluations recorded on a publication, any two that the tick made are,  *)
(* whatever was decided by hand or crashed in between.  (A client's call   *)
(* that takes longer than the interval appends an older time behind the    *)
(* tick's, and the next tick comes too soon: hence no client's call.)      *)
AutomatedChecksAreSpaced ==
    asks = 0 => \A s \in Scopes :
        LET done == release[s].evaluations
        IN  \A i, k \in DOMAIN done : i < k /\ done[i].by = Timer /\ done[k].by = Timer =>
                done[k].at >= done[i].at + Interval

(* A release that the automation made ACTIVE passed on a sample that was   *)
(* large enough; and one it REJECTED, for a sample that is too small as    *)
(* much as for its failures, had its chance: it had been in canary for the *)
(* minimum interval, unless it was published anew meanwhile.  (A canary    *)
(* published in mode DIRECT carries no time and has no such grace: the     *)
(* guard of canary-automation-service.ts:101 lets the first check pass.)   *)
LastIsAutomated(r) == r.evaluations # << >> /\ r.evaluations[Len(r.evaluations)].by = Timer
DecisionsHaveGrounds ==
    \A s \in Scopes : LastIsAutomated(release[s]) =>
        LET last == release[s].evaluations[Len(release[s].evaluations)]
        IN  /\ release[s].status = "ACTIVE" => last.metrics.sample >= MinSample
            /\ release[s].status = "REJECTED" /\ rivals = 0 /\ release[s].startedAt # Nothing =>
                  last.at >= release[s].startedAt + Interval

(* The automation alone never ends its process: only a fault, a file being *)
(* rewritten or somebody else's decision under its feet does.              *)
AutomationAloneStaysUp ==
    [][up /\ ~up' => faults' > faults \/ puts > 0 \/ rivals > 0 \/ asks > 0]_vars

(* A canary that is due is evaluated, or decided otherwise, or its scope   *)
(* is switched off, also across faults and restarts; no PUT of a           *)
(* configuration has happened.                                             *)
Due(s) == config[s] \in {"OBSERVE", "APPLY"} /\ release[s].status = "CANARY"
              /\ ~TooRecent(release[s])
DueCanaryIsEvaluated ==
    \A s \in Scopes : Due(s) ~> ~Due(s) \/ puts > 0

(* CI_CANARY_AUTOMATION_ENABLED enables periodic canary evaluation, says   *)
(* the README: whoever rewrites a configuration, the canary of a scope     *)
(* whose configuration is readable and asks for it is evaluated.           *)
CanaryEvaluationIsPeriodic == \A s \in Scopes : Due(s) ~> ~Due(s)
=============================================================================
