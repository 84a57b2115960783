----------------------- MODULE CanaryAutomationProofs -----------------------
(***************************************************************************)
(* Proofs about CanaryAutomation: for any scopes, clients, interval and    *)
(* canary policy, and any number of runs, decisions by hand, requests,     *)
(* faults and process deaths.                                              *)
(***************************************************************************)
EXTENDS CanaryAutomation, SequenceFilterProofs, SequenceTheorems

USE CanaryAssumption

Local == [pc : Pc, todo : Seq(Scopes), force : BOOLEAN, setting : Setting \cup {Nothing},
          metrics : Metrics \cup {Nothing}, at : 0..MaxClock, base : Release \cup {Nothing}]

(* A call that is under way has a scope, and has what it took on the way.  *)
CallInv(e) ==
    LET local == evaluator[e]
    IN  /\ local.pc \notin {"idle", "list"} => local.todo # << >>
        /\ local.pc \in {"describe", "metrics", "read", "write"} => local.setting \in Setting
        /\ local.pc \in {"read", "write"} => local.metrics \in Metrics
        /\ local.pc = "write" => local.base \in Release /\ local.base.status = "CANARY"
        /\ e = Timer => ~local.force
RunsInv == \A s \in Scopes : runs[s].open + runs[s].done + runs[s].failed <= started
CallsInv == TypeOK /\ RunsInv /\ \A e \in Evaluators : CallInv(e)

LEMMA Typing ==
  ASSUME CallsInv, NEW e \in Evaluators
  PROVE  /\ evaluator \in [Evaluators -> Local] /\ evaluator[e] \in Local
         /\ evaluator[e].pc \notin {"idle", "list"} => /\ evaluator[e].todo \in Seq(Scopes)
                                                       /\ Scope(e) \in Scopes
         /\ evaluator[e].pc \in {"read", "write"} => evaluator[e].metrics \in Metrics
         /\ evaluator[e].pc = "write" => evaluator[e].base \in Release
  <1>1. evaluator \in [Evaluators -> Local]
    BY DEF CallsInv, TypeOK, Local
  <1>2. evaluator[e] \in Local /\ CallInv(e)
    BY <1>1 DEF CallsInv
  <1> DEFINE local == evaluator[e]
  <1>3. local.todo \in Seq(Scopes)
    BY <1>2 DEF Local
  <1> HIDE DEF local
  <1>4. local.todo # << >> => Head(local.todo) \in Scopes
    BY <1>3, HeadTailProperties
  <1>5. QED
    BY <1>1, <1>2, <1>3, <1>4 DEF CallInv, Scope, local

LEMMA IdleIs ==
  /\ Idle \in Local /\ Idle.pc = "idle" /\ Idle.todo = << >> /\ ~Idle.force /\ Idle.at = 0
  <1>1. << >> \in Seq(Scopes) /\ 0 \in 0..MaxClock
    OBVIOUS
  <1>2. QED
    BY <1>1 DEF Idle, Local, Pc

(* Where a call is when it waits for its configuration, or is over.        *)
Waiting(l) == l = Idle \/ (l \in Local /\ l.pc = "config" /\ l.todo # << >> /\ ~l.force /\ l.at = 0)

LEMMA NextScopeIs ==
  ASSUME NEW l \in Local PROVE Waiting(NextScope(l)) /\ NextScope(l) \in Local
  <1> DEFINE rest == Tail(l.todo)
             new == [Idle EXCEPT !.pc = "config", !.todo = rest]
  <1>1. l.todo \in Seq(Scopes)
    BY DEF Local
  <1>2. ASSUME ~(Len(l.todo) <= 1) PROVE rest \in Seq(Scopes) /\ rest # << >>
    <2>1. l.todo # << >> /\ Len(l.todo) \in Nat
      BY <1>1, <1>2, LenProperties
    <2>2. rest \in Seq(Scopes) /\ Len(rest) = Len(l.todo) - 1
      BY <1>1, <2>1, HeadTailProperties
    <2>3. ASSUME NEW n \in Nat, ~(n <= 1) PROVE n - 1 # 0
      BY <2>3
    <2> HIDE DEF rest
    <2>4. Len(rest) # 0
      BY <1>2, <2>1, <2>2, <2>3, Zenon
    <2>5. rest # << >>
      BY <2>2, <2>4, EmptySeq
    <2>6. QED
      BY <2>2, <2>5
  <1> HIDE DEF rest
  <1>3. ASSUME rest \in Seq(Scopes)
        PROVE  new \in Local /\ new.pc = "config" /\ new.todo = rest /\ ~new.force /\ new.at = 0
    BY <1>3, IdleIs DEF Local, Pc
  <1> HIDE DEF new
  <1>4. NextScope(l) = IF Len(l.todo) <= 1 THEN Idle ELSE new
    BY DEF NextScope, new, rest
  <1>5. QED
    BY <1>2, <1>3, <1>4, IdleIs DEF Waiting

-----------------------------------------------------------------------------
(* What the steps do to the calls. *)
Others(e) == \A q \in Evaluators \ {e} : evaluator'[q] = evaluator[q]

LEMMA GotoIs ==
  ASSUME CallsInv, NEW e \in Evaluators, NEW l \in Local, Goto(e, l)
  PROVE  /\ evaluator' \in [Evaluators -> Local] /\ evaluator'[e] = l /\ Others(e)
         /\ UNCHANGED <<up, putting>>
  BY Typing DEF Goto, Others

LEMMA DoneIs ==
  ASSUME CallsInv, NEW e \in Evaluators, Done(e)
  PROVE  /\ evaluator' \in [Evaluators -> Local] /\ Waiting(evaluator'[e]) /\ Others(e)
         /\ UNCHANGED <<up, putting>>
  BY Typing, NextScopeIs, GotoIs DEF Done

(* The process ends, or only the call does. *)
Ended(e) == /\ evaluator' \in [Evaluators -> Local] /\ evaluator'[e] = Idle
            /\ \A q \in Evaluators : evaluator'[q] \in {Idle, evaluator[q]}
            /\ putting' \in {putting, [s \in Scopes |-> Nothing]}
            /\ up' \in {up, FALSE} /\ (up' # up => e = Timer)

LEMMA ExitIs == ASSUME Exit PROVE Ended(Timer)
  BY IdleIs DEF Exit, Ended, Evaluators

LEMMA ThrowIs == ASSUME CallsInv, NEW e \in Evaluators, Throw(e) PROVE Ended(e)
  <1>1. CASE e = Timer
    BY <1>1, ExitIs DEF Throw
  <1>2. CASE e # Timer
    BY <1>2, IdleIs, GotoIs DEF Throw, Ended, Others
  <1>3. QED
    BY <1>1, <1>2

LEMMA ConfigIs ==
  ASSUME CallsInv, NEW e \in Evaluators, ReadConfig(e)
  PROVE  /\ evaluator' \in [Evaluators -> Local] /\ Others(e)
         /\ evaluator[e].pc = "config" /\ evaluator'[e].pc = "describe"
         /\ evaluator'[e].todo = evaluator[e].todo /\ evaluator'[e].force = evaluator[e].force
         /\ evaluator'[e].at = evaluator[e].at
         /\ evaluator'[e].setting \in Setting
         /\ UNCHANGED <<up, putting, config, release, runs, clock, bounds>>
  <1> DEFINE file == config[Scope(e)]
             wish == evaluator[e].setting
             chosen == IF file \in {"OFF", Torn} THEN "OFF"
                       ELSE IF wish = Nothing THEN file ELSE wish
             new == [evaluator[e] EXCEPT !.pc = "describe", !.setting = chosen]
  <1>1. evaluator[e] \in Local /\ Scope(e) \in Scopes /\ evaluator[e].pc = "config"
    BY Typing DEF ReadConfig
  <1>2. file \in Setting \cup {Torn} /\ wish \in Setting \cup {Nothing}
    BY <1>1 DEF CallsInv, TypeOK, Local
  <1>3. chosen \in Setting
    BY <1>2 DEF Setting
  <1>4. Goto(e, new)
    BY DEF ReadConfig
  <1> HIDE DEF chosen
  <1>5. /\ new \in Local /\ new.pc = "describe" /\ new.todo = evaluator[e].todo
        /\ new.force = evaluator[e].force /\ new.setting = chosen /\ new.at = evaluator[e].at
    BY <1>1, <1>3 DEF Local, Pc
  <1> HIDE DEF new
  <1>6. QED
    BY <1>1, <1>3, <1>4, <1>5, GotoIs DEF ReadConfig

LEMMA DescribeIs ==
  ASSUME CallsInv, NEW e \in Evaluators, Describe(e)
  PROVE  /\ evaluator' \in [Evaluators -> Local] /\ Others(e)
         /\ evaluator[e].pc = "describe"
         /\ \/ Waiting(evaluator'[e])
            \/ /\ evaluator'[e].pc = "metrics"
               /\ evaluator'[e].todo = evaluator[e].todo /\ evaluator'[e].force = evaluator[e].force
               /\ evaluator'[e].at = evaluator[e].at
               /\ evaluator'[e].setting = evaluator[e].setting
               /\ release[Scope(e)].status = "CANARY"
               /\ evaluator[e].force \/ ~TooRecent(release[Scope(e)])
         /\ UNCHANGED <<up, putting, config, release, runs, clock, bounds>>
  <1> DEFINE new == [evaluator[e] EXCEPT !.pc = "metrics"]
  <1>1. evaluator[e] \in Local
    BY Typing
  <1>2. /\ new \in Local /\ new.pc = "metrics" /\ new.todo = evaluator[e].todo
        /\ new.force = evaluator[e].force /\ new.setting = evaluator[e].setting
        /\ new.at = evaluator[e].at
    BY <1>1 DEF Local, Pc
  <1>3. \/ Done(e)
        \/ /\ Goto(e, new) /\ release[Scope(e)].status = "CANARY"
           /\ evaluator[e].force \/ ~TooRecent(release[Scope(e)])
    BY DEF Describe
  <1> HIDE DEF new
  <1>4. QED
    BY <1>2, <1>3, GotoIs, DoneIs DEF Describe

LEMMA MetricsIs ==
  ASSUME CallsInv, NEW e \in Evaluators, ComputeLiveMetrics(e)
  PROVE  /\ evaluator[e].pc = "metrics"
         /\ \/ /\ evaluator' \in [Evaluators -> Local] /\ Others(e) /\ evaluator'[e].pc = "read"
               /\ evaluator'[e].todo = evaluator[e].todo /\ evaluator'[e].force = evaluator[e].force
               /\ evaluator'[e].setting = evaluator[e].setting
               /\ evaluator'[e].at = clock /\ evaluator'[e].metrics \in Metrics
               /\ UNCHANGED <<up, putting, faults>>
            \/ Fault /\ Ended(e)
         /\ UNCHANGED <<config, release, runs, clock, started, rivals, puts, asks>>
  <1> DEFINE measured == Measured(Scope(e))
             new == [evaluator[e] EXCEPT !.pc = "read", !.at = clock, !.metrics = measured]
  <1>1. evaluator[e] \in Local /\ Scope(e) \in Scopes /\ clock \in 0..MaxClock
    BY Typing DEF ComputeLiveMetrics, CallsInv, TypeOK
  <1>2. measured \in Metrics
    <2>0. runs[Scope(e)] \in [open : 0..MaxRuns, done : 0..MaxRuns, failed : 0..MaxRuns]
      BY <1>1 DEF CallsInv, TypeOK
    <2>1. /\ runs[Scope(e)].open \in Nat /\ runs[Scope(e)].done \in Nat
          /\ runs[Scope(e)].failed \in Nat
      BY <2>0
    <2>2. \A a \in Nat, b \in Nat, c \in Nat : a + b + c \in Nat
      OBVIOUS
    <2>3. \A a \in Nat, b \in Nat : [sample |-> a, failed |-> b] \in Metrics
      BY DEF Metrics
    <2>4. QED
      BY <2>1, <2>2, <2>3, Zenon DEF Measured
  <1>3. \/ Goto(e, new) /\ UNCHANGED faults
        \/ Fault /\ Throw(e)
    BY DEF ComputeLiveMetrics
  <1> HIDE DEF measured
  <1>4. /\ new \in Local /\ new.pc = "read" /\ new.todo = evaluator[e].todo
        /\ new.force = evaluator[e].force /\ new.setting = evaluator[e].setting
        /\ new.at = clock /\ new.metrics = measured
    BY <1>1, <1>2 DEF Local, Pc
  <1> HIDE DEF new
  <1>5. QED
    BY <1>2, <1>3, <1>4, GotoIs, ThrowIs DEF ComputeLiveMetrics

LEMMA ReadIs ==
  ASSUME CallsInv, NEW e \in Evaluators, ReadReleases(e)
  PROVE  /\ evaluator[e].pc = "read"
         /\ \/ /\ evaluator' \in [Evaluators -> Local] /\ Others(e) /\ evaluator'[e].pc = "write"
               /\ evaluator'[e].todo = evaluator[e].todo /\ evaluator'[e].force = evaluator[e].force
               /\ evaluator'[e].setting = evaluator[e].setting
               /\ evaluator'[e].at = evaluator[e].at
               /\ evaluator'[e].metrics = evaluator[e].metrics
               /\ evaluator'[e].base = release[Scope(e)]
               /\ evaluator'[e].base \in Release /\ evaluator'[e].base.status = "CANARY"
               /\ UNCHANGED <<up, putting>>
            \/ release[Scope(e)].status # "CANARY" /\ Ended(e)
         /\ UNCHANGED <<config, release, runs, clock, bounds>>
  <1> DEFINE r == release[Scope(e)]
             new == [evaluator[e] EXCEPT !.pc = "write", !.base = r]
  <1>1. evaluator[e] \in Local /\ r \in Release
    BY Typing DEF ReadReleases, CallsInv, TypeOK
  <1>2. \/ Goto(e, new) /\ r.status = "CANARY"
        \/ r.status # "CANARY" /\ Throw(e)
    BY DEF ReadReleases
  <1> HIDE DEF r
  <1>3. /\ new \in Local /\ new.pc = "write" /\ new.todo = evaluator[e].todo
        /\ new.force = evaluator[e].force /\ new.setting = evaluator[e].setting
        /\ new.at = evaluator[e].at /\ new.metrics = evaluator[e].metrics /\ new.base = r
    BY <1>1 DEF Local, Pc
  <1> HIDE DEF new
  <1>4. QED
    BY <1>1, <1>2, <1>3, GotoIs, ThrowIs DEF ReadReleases, r

(* The release a call writes. *)
EntryOf(e) == [by |-> e, at |-> evaluator[e].at, metrics |-> evaluator[e].metrics]

LEMMA EvaluatedIs ==
  ASSUME CallsInv, NEW e \in Evaluators, evaluator[e].pc = "write"
  PROVE  /\ Evaluated(e) \in Release /\ EntryOf(e) \in Evaluation
         /\ Evaluated(e).startedAt = evaluator[e].base.startedAt
         /\ Evaluated(e).evaluations = Append(evaluator[e].base.evaluations, EntryOf(e))
         /\ Evaluated(e).status = "ACTIVE" => Passes(evaluator[e].metrics)
  <1> DEFINE base == evaluator[e].base
             entry == EntryOf(e)
             status == IF evaluator[e].setting = "OBSERVE" THEN base.status
                       ELSE IF Passes(evaluator[e].metrics) THEN "ACTIVE" ELSE "REJECTED"
  <1>1. /\ base \in Release /\ base.status = "CANARY" /\ evaluator[e].metrics \in Metrics
        /\ evaluator[e].at \in 0..MaxClock
    BY Typing DEF CallsInv, CallInv, Local
  <1>2. entry \in Evaluation
    BY <1>1 DEF Evaluation, EntryOf
  <1>3. status \in {"CANARY", "ACTIVE", "REJECTED"} /\ (status = "ACTIVE" => Passes(evaluator[e].metrics))
    BY <1>1
  <1>4. Evaluated(e) = [base EXCEPT !.evaluations = Append(base.evaluations, entry), !.status = status]
    BY DEF Evaluated, EntryOf
  <1> HIDE DEF base, entry, status
  <1>5. Append(base.evaluations, entry) \in Seq(Evaluation)
    BY <1>1, <1>2 DEF Release
  <1>6. QED
    BY <1>1, <1>2, <1>3, <1>4, <1>5 DEF Release, base, entry

LEMMA WriteIs ==
  ASSUME CallsInv, NEW e \in Evaluators, WriteReleases(e)
  PROVE  /\ evaluator[e].pc = "write"
         /\ \/ /\ evaluator' \in [Evaluators -> Local] /\ Others(e) /\ Waiting(evaluator'[e])
               /\ release' = [release EXCEPT ![Scope(e)] = Evaluated(e)]
               /\ UNCHANGED <<up, putting, faults>>
            \/ Fault /\ Ended(e) /\ UNCHANGED release
         /\ UNCHANGED <<config, runs, clock, started, rivals, puts, asks>>
  BY DoneIs, ThrowIs DEF WriteReleases

(* The list of the scopes the tick will evaluate. *)
LEMMA ListIs ==
  ASSUME CallsInv, ListConfigs
  PROVE  /\ evaluator[Timer].pc = "list"
         /\ \/ /\ evaluator' \in [Evaluators -> Local] /\ Others(Timer) /\ Waiting(evaluator'[Timer])
               /\ UNCHANGED <<up, putting>>
            \/ Ended(Timer) /\ \E s \in Scopes : config[s] = Torn
         /\ UNCHANGED <<config, release, runs, clock, bounds>>
  <1> DEFINE todo == Kept(Order, {s \in Scopes : config[s] # "OFF"})
             new == [Idle EXCEPT !.pc = "config", !.todo = todo]
             l == IF todo = << >> THEN Idle ELSE new
  <1>1. Timer \in Evaluators
    BY DEF Evaluators
  <1>2. todo \in Seq(Scopes)
    BY KeptType
  <1>3. Goto(Timer, l) \/ (Throw(Timer) /\ \E s \in Scopes : config[s] = Torn)
    BY DEF ListConfigs
  <1> HIDE DEF todo
  <1>4. new \in Local /\ new.pc = "config" /\ new.todo = todo /\ ~new.force /\ new.at = 0
    BY <1>2, IdleIs DEF Local, Pc
  <1> HIDE DEF new
  <1>5. l \in Local /\ Waiting(l)
    BY <1>4, IdleIs DEF Waiting
  <1> HIDE DEF l
  <1>6. QED
    BY <1>1, <1>3, <1>5, GotoIs, ThrowIs DEF ListConfigs

LEMMA BootIs ==
  ASSUME CallsInv, Boot \/ Tick
  PROVE  /\ evaluator' \in [Evaluators -> Local] /\ Others(Timer) /\ evaluator'[Timer].pc = "list"
         /\ ~evaluator'[Timer].force
         /\ evaluator'[Timer].at \in {0, evaluator[Timer].at}
         /\ up' = TRUE
         /\ UNCHANGED <<putting, config, release, runs, clock, bounds>>
  <1>1. Timer \in Evaluators
    BY DEF Evaluators
  <1>2. CASE Boot
    <2> DEFINE new == [evaluator[Timer] EXCEPT !.pc = "list"]
    <2>1. evaluator \in [Evaluators -> Local] /\ evaluator[Timer] \in Local /\ ~evaluator[Timer].force
      BY <1>1, Typing DEF CallsInv, CallInv
    <2>2. evaluator' = [evaluator EXCEPT ![Timer] = new]
      BY <1>2, <2>1 DEF Boot
    <2>3. new \in Local /\ new.pc = "list" /\ ~new.force /\ new.at = evaluator[Timer].at
      BY <2>1 DEF Local, Pc
    <2> HIDE DEF new
    <2>4. evaluator' \in [Evaluators -> Local] /\ evaluator'[Timer] = new /\ Others(Timer)
      BY <1>1, <2>1, <2>2, <2>3 DEF Others
    <2>5. QED
      BY <1>2, <2>3, <2>4 DEF Boot
  <1>3. CASE Tick
    <2> DEFINE new == [Idle EXCEPT !.pc = "list"]
    <2>1. new \in Local /\ new.pc = "list" /\ ~new.force /\ new.at = 0
      BY IdleIs DEF Local, Pc
    <2>2. Goto(Timer, new) /\ UNCHANGED <<config, release, runs, clock, bounds>> /\ up
      BY <1>3 DEF Tick
    <2> HIDE DEF new
    <2>3. evaluator' \in [Evaluators -> Local] /\ evaluator'[Timer] = new /\ Others(Timer)
          /\ UNCHANGED <<up, putting>>
      BY <1>1, <2>1, <2>2, GotoIs
    <2>4. up' = TRUE
      BY <2>2, <2>3 DEF CallsInv, TypeOK
    <2>5. QED
      BY <2>1, <2>2, <2>3, <2>4
  <1>4. QED
    BY <1>2, <1>3

LEMMA AskIs ==
  ASSUME CallsInv, NEW c \in Clients, NEW s \in Scopes, NEW force \in BOOLEAN,
         NEW wish \in {Nothing, "OBSERVE", "APPLY"}, Ask(c, s, force, wish)
  PROVE  /\ evaluator' \in [Evaluators -> Local] /\ Others(c) /\ c # Timer
         /\ evaluator'[c].pc = "config" /\ evaluator'[c].todo # << >> /\ evaluator'[c].at = 0
         /\ EventsLeft /\ asks' = asks + 1
         /\ UNCHANGED <<up, putting, config, release, runs, clock, started, rivals, puts, faults>>
  <1> DEFINE new == [Idle EXCEPT !.pc = "config", !.todo = <<s>>, !.force = force, !.setting = wish]
  <1>1. <<s>> \in Seq(Scopes) /\ <<s>> # << >> /\ c \in Evaluators /\ c # Timer
    BY DEF Evaluators
  <1>2. new \in Local /\ new.pc = "config" /\ new.todo = <<s>> /\ new.at = 0
    BY <1>1, IdleIs, ZenonT(60) DEF Local, Pc, Setting
  <1>3. Goto(c, new)
    BY DEF Ask
  <1> HIDE DEF new
  <1>4. QED
    BY <1>1, <1>2, <1>3, GotoIs DEF Ask

-----------------------------------------------------------------------------
(* The counters stay within their bounds. *)
LEMMA EventIs ==
  ASSUME CallsInv, EventsLeft
  PROVE  {rivals + 1, puts + 1, asks + 1, faults + 1} \subseteq 0..MaxEvents
  <1>1. rivals \in Nat /\ puts \in Nat /\ asks \in Nat /\ faults \in Nat /\ MaxEvents \in Nat
    BY DEF CallsInv, TypeOK
  <1>2. rivals + puts + asks + faults < MaxEvents
    BY DEF EventsLeft
  <1>3. QED
    BY <1>1, <1>2

(* The runs of a scope that ended are counted among those that started.    *)
RunRecord == [open : 0..MaxRuns, done : 0..MaxRuns, failed : 0..MaxRuns]
Total(run) == run.open + run.done + run.failed

LEMMA RunsKept ==
  ASSUME CallsInv, NEW s \in Scopes, NEW run \in RunRecord, Total(run) <= started',
         runs' = [runs EXCEPT ![s] = run], started' \in {started, started + 1}
  PROVE  runs' \in [Scopes -> RunRecord] /\ RunsInv'
  <1>1. runs \in [Scopes -> RunRecord] /\ started \in Nat
    BY DEF CallsInv, TypeOK, RunRecord
  <1>2. \A q \in Scopes : runs[q] \in RunRecord
    BY <1>1
  <1>3. \A a \in RunRecord : Total(a) \in Nat
    <2>1. \A a \in RunRecord : a.open \in Nat /\ a.done \in Nat /\ a.failed \in Nat
      BY DEF RunRecord
    <2>2. \A a \in Nat, b \in Nat, c \in Nat : a + b + c \in Nat
      OBVIOUS
    <2>3. QED
      BY <2>1, <2>2, Zenon DEF Total
  <1>4. \A q \in Scopes : Total(runs[q]) <= started
    BY DEF CallsInv, RunsInv, Total
  <1>5. \A q \in Scopes : Total(runs[q]) <= started'
    BY <1>1, <1>2, <1>3, <1>4, SMTT(60)
  <1>6. \A q \in Scopes : runs'[q] = IF q = s THEN run ELSE runs[q]
    BY <1>1
  <1>7. \A q \in Scopes : Total(runs'[q]) <= started'
    BY <1>5, <1>6
  <1>8. QED
    BY <1>1, <1>7 DEF RunsInv, Total

LEMMA RunMoves ==
  ASSUME CallsInv, NEW s \in Scopes, StartRun(s) \/ EndRun(s)
  PROVE  \E run \in RunRecord : /\ runs' = [runs EXCEPT ![s] = run] /\ Total(run) <= started'
                                /\ started' \in {started, started + 1} /\ started' \in 0..MaxRuns
  <1>1. runs \in [Scopes -> RunRecord] /\ runs[s] \in RunRecord /\ started \in 0..MaxRuns
    BY DEF CallsInv, TypeOK, RunRecord
  <1>2. PICK a \in 0..MaxRuns, b \in 0..MaxRuns, c \in 0..MaxRuns :
            runs[s] = [open |-> a, done |-> b, failed |-> c]
    BY <1>1 DEF RunRecord
  <1>3. a + b + c <= started
    BY <1>2 DEF CallsInv, RunsInv
  <1>4. ASSUME NEW d \in 0..MaxRuns, NEW e \in 0..MaxRuns, NEW f \in 0..MaxRuns
        PROVE  /\ [open |-> d, done |-> e, failed |-> f] \in RunRecord
               /\ Total([open |-> d, done |-> e, failed |-> f]) = d + e + f
    BY DEF RunRecord, Total
  <1>5. CASE StartRun(s)
    <2>1. runs' = [runs EXCEPT ![s] = [open |-> a + 1, done |-> b, failed |-> c]]
      <3>1. runs' = [runs EXCEPT ![s] = [runs[s] EXCEPT !.open = runs[s].open + 1]]
        BY <1>1, <1>5 DEF StartRun
      <3>2. [runs[s] EXCEPT !.open = runs[s].open + 1] = [open |-> a + 1, done |-> b, failed |-> c]
        BY <1>2, SMTT(60)
      <3>3. QED
        BY <3>1, <3>2
    <2>2. started' = started + 1 /\ started' \in 0..MaxRuns /\ a + 1 \in 0..MaxRuns
      BY <1>1, <1>3, <1>5, SMTT(60) DEF StartRun
    <2>3. (a + 1) + b + c <= started'
      BY <1>1, <1>3, <2>2
    <2>4. PICK d \in 0..MaxRuns : d = a + 1
      BY <2>2
    <2>5. PICK run : run = [open |-> d, done |-> b, failed |-> c]
      OBVIOUS
    <2>6. run \in RunRecord /\ Total(run) <= started' /\ runs' = [runs EXCEPT ![s] = run]
      BY <1>4, <2>1, <2>3, <2>4, <2>5
    <2>7. QED
      BY <1>1, <2>2, <2>6
  <1>6. CASE EndRun(s)
    <2>1. /\ a > 0 /\ started' = started
          /\ \/ runs' = [runs EXCEPT ![s] = [open |-> a - 1, done |-> b + 1, failed |-> c]]
             \/ runs' = [runs EXCEPT ![s] = [open |-> a - 1, done |-> b, failed |-> c + 1]]
      BY <1>1, <1>2, <1>6, SMTT(60) DEF EndRun, bounds
    <2>2. a - 1 \in 0..MaxRuns /\ b + 1 \in 0..MaxRuns /\ c + 1 \in 0..MaxRuns
      BY <1>1, <1>3, <2>1
    <2>3. a - 1 + (b + 1) + c <= started /\ a - 1 + b + (c + 1) <= started
      BY <1>1, <1>3
    <2>4. QED
      BY <1>1, <1>4, <2>1, <2>2, <2>3, SMTT(60)
  <1>7. QED
    BY <1>5, <1>6

(* The invariant of a step of the calls alone, and of one that leaves them.*)
LEMMA CallsFrame ==
  ASSUME CallsInv, evaluator' \in [Evaluators -> Local], \A e \in Evaluators : CallInv(e)',
         up' \in BOOLEAN, putting' \in {putting, [s \in Scopes |-> Nothing]},
         release' \in [Scopes -> Release],
         UNCHANGED <<config, runs, clock, started, rivals, puts>>,
         asks' \in 0..MaxEvents, faults' \in 0..MaxEvents
  PROVE  CallsInv'
  <1>1. putting' \in [Scopes -> Setting \cup {Nothing}]
    BY DEF CallsInv, TypeOK
  <1>2. TypeOK'
    BY <1>1 DEF CallsInv, TypeOK, Local
  <1>3. QED
    BY <1>2 DEF CallsInv, RunsInv

LEMMA CallKept ==
  ASSUME CallsInv, NEW e \in Evaluators, evaluator'[e] = evaluator[e] \/ Waiting(evaluator'[e])
  PROVE  CallInv(e)'
  <1>1. CASE evaluator'[e] = evaluator[e]
    BY <1>1 DEF CallsInv, CallInv
  <1>2. CASE Waiting(evaluator'[e])
    BY <1>2, IdleIs DEF Waiting, CallInv
  <1>3. QED
    BY <1>1, <1>2

LEMMA EvaluateStep ==
  ASSUME CallsInv, NEW e \in Evaluators, Evaluate(e) \/ (e = Timer /\ (ListConfigs \/ Boot \/ Tick))
  PROVE  CallsInv'
  <1>1. Fault => faults' \in 0..MaxEvents
    BY EventIs DEF Fault
  <1>2. /\ up \in BOOLEAN /\ release \in [Scopes -> Release]
        /\ asks \in 0..MaxEvents /\ faults \in 0..MaxEvents
    BY DEF CallsInv, TypeOK
  <1>3. CallInv(e) /\ (evaluator[e].pc \notin {"idle", "list"} => evaluator[e].todo # << >>)
    BY DEF CallsInv, CallInv
  <1>4. ASSUME Ended(e) PROVE /\ evaluator' \in [Evaluators -> Local] /\ up' \in BOOLEAN
                              /\ \A q \in Evaluators : CallInv(q)'
                              /\ putting' \in {putting, [s \in Scopes |-> Nothing]}
    BY <1>2, <1>4, CallKept DEF Ended, Waiting
  <1>5. ASSUME Others(e), CallInv(e)' PROVE \A q \in Evaluators : CallInv(q)'
    BY <1>5, CallKept DEF Others
  <1>6. CASE ReadConfig(e)
    <2>1. CallInv(e)'
      BY <1>3, <1>6, ConfigIs DEF CallInv
    <2>2. QED
      BY <1>2, <1>5, <1>6, <2>1, ConfigIs, CallsFrame DEF bounds
  <1>7. CASE Describe(e)
    <2>1. CallInv(e)'
      BY <1>3, <1>7, DescribeIs, CallKept DEF CallInv
    <2>2. QED
      BY <1>2, <1>5, <1>7, <2>1, DescribeIs, CallsFrame DEF bounds
  <1>8. CASE ComputeLiveMetrics(e)
    <2>1. CASE Fault /\ Ended(e)
      BY <1>1, <1>2, <1>4, <1>8, <2>1, MetricsIs, CallsFrame
    <2>2. CASE ~(Fault /\ Ended(e))
      <3>1. CallInv(e)'
        BY <1>3, <1>8, <2>2, MetricsIs DEF CallInv
      <3>2. QED
        BY <1>2, <1>5, <1>8, <2>2, <3>1, MetricsIs, CallsFrame
    <2>3. QED
      BY <2>1, <2>2
  <1>9. CASE ReadReleases(e)
    <2>1. CASE Ended(e)
      BY <1>2, <1>4, <1>9, <2>1, ReadIs, CallsFrame DEF bounds
    <2>2. CASE ~Ended(e)
      <3>1. CallInv(e)'
        BY <1>3, <1>9, <2>2, ReadIs DEF CallInv
      <3>2. QED
        BY <1>2, <1>5, <1>9, <2>2, <3>1, ReadIs, CallsFrame DEF bounds
    <2>3. QED
      BY <2>1, <2>2
  <1>10. CASE WriteReleases(e)
    <2>1. CASE Fault /\ Ended(e) /\ UNCHANGED release
      BY <1>1, <1>2, <1>4, <1>10, <2>1, WriteIs, CallsFrame
    <2>2. CASE ~(Fault /\ Ended(e) /\ UNCHANGED release)
      <3>1. CallInv(e)'
        BY <1>10, <2>2, WriteIs, CallKept
      <3>2. Scope(e) \in Scopes /\ Evaluated(e) \in Release
        BY <1>10, WriteIs, Typing, EvaluatedIs
      <3>3. release' \in [Scopes -> Release]
        BY <1>2, <1>10, <2>2, <3>2, WriteIs
      <3>4. QED
        BY <1>2, <1>5, <1>10, <2>2, <3>1, <3>3, WriteIs, CallsFrame
    <2>3. QED
      BY <2>1, <2>2
  <1>11. CASE e = Timer /\ ListConfigs
    <2>1. CASE Ended(e)
      BY <1>2, <1>4, <1>11, <2>1, ListIs, CallsFrame DEF bounds
    <2>2. CASE ~Ended(e)
      <3>1. CallInv(e)'
        BY <1>11, <2>2, ListIs, CallKept
      <3>2. QED
        BY <1>2, <1>5, <1>11, <2>2, <3>1, ListIs, CallsFrame DEF bounds
    <2>3. QED
      BY <2>1, <2>2
  <1>12. CASE e = Timer /\ (Boot \/ Tick)
    <2>1. CallInv(e)'
      BY <1>12, BootIs DEF CallInv
    <2>2. QED
      BY <1>2, <1>5, <1>12, <2>1, BootIs, CallsFrame DEF bounds
  <1>13. QED
    BY <1>6, <1>7, <1>8, <1>9, <1>10, <1>11, <1>12 DEF Evaluate

LEMMA CallsStep == CallsInv /\ [Next]_vars => CallsInv'
  <1> SUFFICES ASSUME CallsInv, [Next]_vars PROVE CallsInv'
    OBVIOUS
  <1>1. Timer \in Evaluators /\ Clients \subseteq Evaluators
    BY DEF Evaluators
  <1>2. CASE (\E e \in Evaluators : Evaluate(e)) \/ ListConfigs \/ Boot \/ Tick
    BY <1>1, <1>2, EvaluateStep
  <1>3. CASE Crash
    <2>1. Ended(Timer) /\ faults' \in 0..MaxEvents
      BY <1>3, ExitIs, EventIs DEF Crash, Fault
    <2>2. \A q \in Evaluators : CallInv(q)'
      BY <2>1, CallKept DEF Ended, Waiting
    <2>3. /\ release' \in [Scopes -> Release] /\ asks' \in 0..MaxEvents /\ up' \in BOOLEAN
          /\ UNCHANGED <<config, runs, clock, started, rivals, puts>>
      BY <1>3, <2>1 DEF Crash, Ended, CallsInv, TypeOK
    <2>4. QED
      BY <2>1, <2>2, <2>3, CallsFrame DEF Ended
  <1>4. ASSUME NEW c \in Clients, NEW s \in Scopes, NEW force \in BOOLEAN,
               NEW wish \in {Nothing, "OBSERVE", "APPLY"}, Ask(c, s, force, wish)
        PROVE  CallsInv'
    <2>1. CallInv(c)'
      BY <1>4, AskIs DEF CallInv
    <2>2. \A q \in Evaluators : CallInv(q)'
      BY <1>1, <1>4, <2>1, AskIs, CallKept DEF Others
    <2>3. asks' \in 0..MaxEvents
      BY <1>4, AskIs, EventIs
    <2>4. /\ evaluator' \in [Evaluators -> Local] /\ up' \in BOOLEAN /\ putting' = putting
          /\ release' \in [Scopes -> Release] /\ faults' \in 0..MaxEvents
          /\ UNCHANGED <<config, runs, clock, started, rivals, puts>>
      <3>1. /\ evaluator' \in [Evaluators -> Local]
            /\ UNCHANGED <<up, putting, config, release, runs, clock, started, rivals, puts, faults>>
        BY <1>4, AskIs
      <3>2. up \in BOOLEAN /\ release \in [Scopes -> Release] /\ faults \in 0..MaxEvents
        BY DEF CallsInv, TypeOK
      <3>3. QED
        BY <3>1, <3>2
    <2>5. QED
      BY <2>2, <2>3, <2>4, CallsFrame
  (* The steps of everyone else leave the calls as they are.               *)
  <1>5. ASSUME evaluator' = evaluator, TypeOK', RunsInv' PROVE CallsInv'
    BY <1>5 DEF CallsInv, CallInv
  <1>6. CASE Minute
    <2>1. clock' \in 0..MaxClock
      BY <1>6 DEF Minute, CallsInv, TypeOK
    <2>2. QED
      BY <1>5, <1>6, <2>1 DEF Minute, CallsInv, TypeOK, RunsInv, bounds
  <1>7. ASSUME NEW s \in Scopes, Publish(s) PROVE CallsInv'
    <2>1. \A stamp \in {clock, Nothing} : Published(stamp) \in Release
      BY DEF Published, Release, CallsInv, TypeOK
    <2>2. release' \in [Scopes -> Release] /\ rivals' \in 0..MaxEvents
      <3>1. PICK stamp \in {clock, Nothing} : release' = [release EXCEPT ![s] = Published(stamp)]
        BY <1>7 DEF Publish
      <3>2. release' \in [Scopes -> Release]
        BY <2>1, <3>1 DEF CallsInv, TypeOK
      <3>3. QED
        BY <1>7, <3>2, EventIs DEF Publish, Rival
    <2>3. runs' \in [Scopes -> RunRecord] /\ RunsInv'
      <3>1. NoRuns \in RunRecord /\ Total(NoRuns) = 0
        BY DEF NoRuns, RunRecord, Total
      <3>2. runs' = [runs EXCEPT ![s] = NoRuns] /\ started' = started /\ 0 <= started
        BY <1>7 DEF Publish, CallsInv, TypeOK
      <3>3. QED
        BY <3>1, <3>2, RunsKept
    <2>4. TypeOK'
      <3>1. UNCHANGED <<config, putting, evaluator, up, clock, started, puts, asks, faults>>
        BY <1>7 DEF Publish
      <3>2. QED
        BY <2>2, <2>3, <3>1, ZenonT(60) DEF CallsInv, TypeOK, RunRecord
    <2>5. QED
      BY <1>5, <1>7, <2>3, <2>4 DEF Publish
  <1>8. ASSUME NEW s \in Scopes, NEW status \in {"CANARY", "ACTIVE", "REJECTED"},
               DecideByHand(s, status)
        PROVE  CallsInv'
    <2> DEFINE entry == [by |-> Nothing, at |-> clock, metrics |-> Nothing]
               new == [release[s] EXCEPT !.status = status,
                                         !.evaluations = Append(release[s].evaluations, entry)]
    <2>1. release[s] \in Release /\ entry \in Evaluation
      BY DEF CallsInv, TypeOK, Evaluation
    <2>2. Append(release[s].evaluations, entry) \in Seq(Evaluation)
      BY <2>1 DEF Release
    <2>3. new \in Release
      BY <2>1, <2>2 DEF Release
    <2>4. release' = [release EXCEPT ![s] = new]
      BY <1>8 DEF DecideByHand, CallsInv, TypeOK
    <2> HIDE DEF new
    <2>5. release' \in [Scopes -> Release]
      BY <2>3, <2>4 DEF CallsInv, TypeOK
    <2>6. rivals' \in 0..MaxEvents
      BY <1>8, EventIs DEF DecideByHand, Rival
    <2>7. TypeOK'
      BY <1>8, <2>5, <2>6 DEF DecideByHand, CallsInv, TypeOK
    <2>8. QED
      BY <1>5, <1>8, <2>7 DEF DecideByHand, CallsInv, RunsInv
  <1>9. ASSUME NEW s \in Scopes, StartRun(s) \/ EndRun(s) PROVE CallsInv'
    <2>1. started' \in 0..MaxRuns /\ RunsInv' /\ runs' \in [Scopes -> RunRecord]
      BY <1>9, RunMoves, RunsKept
    <2>2. TypeOK'
      BY <1>9, <2>1, ZenonT(60) DEF StartRun, EndRun, CallsInv, TypeOK, bounds, RunRecord
    <2>3. QED
      BY <1>5, <1>9, <2>1, <2>2 DEF StartRun, EndRun
  <1>10. ASSUME NEW s \in Scopes, NEW setting \in Setting, TruncateConfig(s, setting) PROVE CallsInv'
    <2>1. puts' \in 0..MaxEvents
      BY <1>10, EventIs DEF TruncateConfig
    <2>2. config' \in [Scopes -> Setting \cup {Torn}] /\ putting' \in [Scopes -> Setting \cup {Nothing}]
      BY <1>10 DEF TruncateConfig, CallsInv, TypeOK
    <2>3. TypeOK'
      <3>1. UNCHANGED <<release, runs, evaluator, up, clock, started, rivals, asks, faults>>
        BY <1>10 DEF TruncateConfig
      <3>2. QED
        BY <2>1, <2>2, <3>1, ZenonT(60) DEF CallsInv, TypeOK
    <2>4. QED
      BY <1>5, <1>10, <2>3 DEF TruncateConfig, CallsInv, RunsInv
  <1>11. ASSUME NEW s \in Scopes, WriteConfig(s) PROVE CallsInv'
    <2>1. config' \in [Scopes -> Setting \cup {Torn}] /\ putting' \in [Scopes -> Setting \cup {Nothing}]
      BY <1>11 DEF WriteConfig, CallsInv, TypeOK
    <2>2. TypeOK'
      BY <1>11, <2>1 DEF WriteConfig, CallsInv, TypeOK, bounds
    <2>3. QED
      BY <1>5, <1>11, <2>2 DEF WriteConfig, CallsInv, RunsInv, bounds
  <1>12. CASE UNCHANGED vars
    BY <1>5, <1>12 DEF vars, CallsInv, TypeOK, RunsInv
  <1>13. QED
    BY <1>2, <1>3, <1>4, <1>6, <1>7, <1>8, <1>9, <1>10, <1>11, <1>12 DEF Next

LEMMA CallsInit == Init => CallsInv
  <1> SUFFICES ASSUME Init PROVE CallsInv
    OBVIOUS
  <1>1. (\A stamp \in {clock, Nothing} : Published(stamp) \in Release) /\ clock \in 0..MaxClock
    BY DEF Init, Published, Release
  <1>2. evaluator \in [Evaluators -> Local] /\ \A e \in Evaluators : evaluator[e] = Idle
    BY IdleIs DEF Init
  <1>3. TypeOK
    <2>1. /\ release \in [Scopes -> Release]
          /\ runs \in [Scopes -> [open : 0..MaxRuns, done : 0..MaxRuns, failed : 0..MaxRuns]]
      <3>1. PICK stamp \in [Scopes -> {clock, Nothing}] :
                   release = [s \in Scopes |-> Published(stamp[s])]
        BY DEF Init
      <3>2. \A s \in Scopes : stamp[s] \in {clock, Nothing}
        BY <3>1
      <3>3. release \in [Scopes -> Release]
        BY <1>1, <3>1, <3>2
      <3>4. QED
        BY <3>3 DEF Init, NoRuns
    <2>2. {rivals, puts, asks, faults} \subseteq 0..MaxEvents /\ started \in 0..MaxRuns
      BY DEF Init
    <2>3. QED
      BY <1>1, <1>2, <2>1, <2>2 DEF Init, TypeOK, Local
  <1>4. \A e \in Evaluators : CallInv(e)
    BY <1>2, IdleIs DEF CallInv
  <1>5. RunsInv
    BY DEF Init, RunsInv, NoRuns
  <1>6. QED
    BY <1>3, <1>4, <1>5 DEF CallsInv

(* Every reachable state is well typed, and every call of the automation   *)
(* that is under way has what its next step uses.                          *)
THEOREM CallsAreTyped == Spec => [](TypeOK /\ CallsInv)
  <1>1. CallsInv => TypeOK
    BY DEF CallsInv
  <1>2. QED
    BY <1>1, CallsInit, CallsStep, PTL DEF Spec

-----------------------------------------------------------------------------
(* How the calls, the releases and the counters may move in one step. *)
Early == {"idle", "list", "config", "describe"}
StaysPut(e) == UNCHANGED <<release, clock>> /\ evaluator'[e].todo = evaluator[e].todo

LEMMA CallMoves ==
  ASSUME CallsInv, [Next]_vars, NEW e \in Evaluators
  PROVE  \/ evaluator'[e] = evaluator[e]
         \/ evaluator'[e].pc \in Early /\ evaluator'[e].at \in {0, evaluator[e].at}
         \/ /\ StaysPut(e) /\ evaluator[e].pc = "describe" /\ evaluator'[e].pc = "metrics"
            /\ evaluator'[e].at = evaluator[e].at
            /\ release[Scope(e)].status = "CANARY"
            /\ evaluator[e].force \/ ~TooRecent(release[Scope(e)])
         \/ /\ StaysPut(e) /\ evaluator[e].pc = "metrics" /\ evaluator'[e].pc = "read"
            /\ evaluator'[e].at = clock
         \/ /\ StaysPut(e) /\ evaluator[e].pc = "read" /\ evaluator'[e].pc = "write"
            /\ evaluator'[e].at = evaluator[e].at /\ evaluator'[e].base = release[Scope(e)]
  <1> DEFINE Same == evaluator'[e] = evaluator[e]
             Soon == evaluator'[e].pc \in Early /\ evaluator'[e].at \in {0, evaluator[e].at}
  <1>1. Timer \in Evaluators /\ Clients \subseteq Evaluators
    BY DEF Evaluators
  <1>2. evaluator'[e] = Idle => Soon
    BY IdleIs DEF Early
  <1>3. Waiting(evaluator'[e]) => Soon
    BY IdleIs DEF Waiting, Early
  <1> HIDE DEF Same, Soon
  <1>4. ASSUME NEW q \in Evaluators, q # e, Others(q) \/ Ended(q) PROVE Same \/ Soon
    BY <1>2, <1>4 DEF Others, Ended, Same
  <1>5. Ended(e) => Soon
    BY <1>2 DEF Ended
  <1>6. ASSUME NEW q \in Evaluators, Evaluate(q), q # e PROVE Same \/ Soon
    BY <1>4, <1>6, ConfigIs, DescribeIs, MetricsIs, ReadIs, WriteIs DEF Evaluate
  <1>7. ListConfigs \/ Boot \/ Tick => Same \/ Soon
    <2>1. CASE e = Timer
      BY <1>3, <1>5, <2>1, ListIs, BootIs DEF Early, Soon
    <2>2. CASE e # Timer
      BY <1>1, <1>4, <2>2, ListIs, BootIs
    <2>3. QED
      BY <2>1, <2>2
  <1>8. Crash => Same \/ Soon
    <2>1. Crash => Ended(Timer)
      BY ExitIs DEF Crash
    <2>2. QED
      BY <1>1, <1>4, <1>5, <2>1
  <1>9. ASSUME NEW c \in Clients, NEW s \in Scopes, NEW force \in BOOLEAN,
               NEW wish \in {Nothing, "OBSERVE", "APPLY"}, Ask(c, s, force, wish)
        PROVE  Same \/ Soon
    <2>1. CASE c = e
      BY <1>9, <2>1, AskIs DEF Early, Soon
    <2>2. CASE c # e
      BY <1>1, <1>4, <1>9, <2>2, AskIs
    <2>3. QED
      BY <2>1, <2>2
  <1>10. CASE Evaluate(e)
    <2>1. ReadConfig(e) => Soon
      BY ConfigIs DEF Early, Soon
    <2>2. CASE Describe(e)
      BY <1>3, <2>2, DescribeIs DEF StaysPut, Soon
    <2>3. CASE ComputeLiveMetrics(e)
      BY <1>5, <2>3, MetricsIs DEF StaysPut, Soon
    <2>4. CASE ReadReleases(e)
      BY <1>5, <2>4, ReadIs DEF StaysPut, Soon
    <2>5. WriteReleases(e) => Soon
      BY <1>3, <1>5, WriteIs
    <2>6. QED
      BY <1>10, <2>1, <2>2, <2>3, <2>4, <2>5 DEF Evaluate, Soon
  <1>11. evaluator' = evaluator => Same
    BY DEF Same
  <1>12. \/ \E q \in Evaluators : Evaluate(q)
         \/ ListConfigs \/ Boot \/ Tick \/ Crash \/ evaluator' = evaluator
         \/ \E c \in Clients, s \in Scopes, force \in BOOLEAN,
               wish \in {Nothing, "OBSERVE", "APPLY"} : Ask(c, s, force, wish)
    BY DEF Next, vars, Minute, Publish, StartRun, EndRun, WriteConfig, DecideByHand, TruncateConfig
  <1>13. Same \/ Soon \/ Evaluate(e)
    BY <1>6, <1>7, <1>8, <1>9, <1>11, <1>12
  <1>14. QED
    BY <1>10, <1>13 DEF Same, Soon

(* What a publication leaves, with a time or without.                      *)
IsNew(r) == r.status = "CANARY" /\ r.evaluations = << >>

(* A release stays, or is the one a call writes, a new publication or one  *)
(* decided by hand.                                                        *)
LEMMA ReleaseMoves ==
  ASSUME CallsInv, [Next]_vars, NEW s \in Scopes
  PROVE  \/ release'[s] = release[s]
         \/ \E e \in Evaluators : /\ evaluator[e].pc = "write" /\ s = Scope(e)
                                  /\ release'[s] = Evaluated(e)
                                  /\ UNCHANGED <<clock, rivals, asks>>
                                  /\ Waiting(evaluator'[e]) /\ Others(e)
         \/ IsNew(release'[s]) /\ rivals' # 0 /\ UNCHANGED <<evaluator, clock>>
         \/ /\ rivals' # 0 /\ UNCHANGED <<evaluator, clock>>
            /\ release'[s].startedAt = release[s].startedAt
            /\ release'[s].evaluations =
                  Append(release[s].evaluations, [by |-> Nothing, at |-> clock, metrics |-> Nothing])
  <1>1. release \in [Scopes -> Release] /\ release[s] \in Release
    BY DEF CallsInv, TypeOK
  <1>2. Rival => rivals' # 0
    BY DEF Rival, CallsInv, TypeOK
  <1>3. ASSUME NEW q \in Scopes, Publish(q)
        PROVE  \/ release'[s] = release[s]
               \/ IsNew(release'[s]) /\ rivals' # 0 /\ UNCHANGED <<evaluator, clock>>
    BY <1>1, <1>2, <1>3 DEF Publish, Published, IsNew
  <1>4. ASSUME NEW q \in Scopes, NEW status \in {"CANARY", "ACTIVE", "REJECTED"},
               DecideByHand(q, status), q = s
        PROVE  /\ rivals' # 0 /\ UNCHANGED <<evaluator, clock>>
               /\ release'[s].startedAt = release[s].startedAt
               /\ release'[s].evaluations =
                     Append(release[s].evaluations, [by |-> Nothing, at |-> clock, metrics |-> Nothing])
    <2>1. /\ rivals' # 0 /\ UNCHANGED <<evaluator, clock>>
          /\ release' = [release EXCEPT ![s].status = status, ![s].evaluations =
                Append(@, [by |-> Nothing, at |-> clock, metrics |-> Nothing])]
      BY <1>2, <1>4 DEF DecideByHand
    <2>2. release'[s] = [release[s] EXCEPT !.status = status, !.evaluations =
                Append(@, [by |-> Nothing, at |-> clock, metrics |-> Nothing])]
      BY <1>1, <2>1
    <2>3. QED
      BY <1>1, <2>1, <2>2 DEF Release
  <1>5. ASSUME NEW q \in Scopes, NEW status \in {"CANARY", "ACTIVE", "REJECTED"},
               DecideByHand(q, status), q # s
        PROVE  release'[s] = release[s]
    BY <1>1, <1>5 DEF DecideByHand
  <1>6. ASSUME NEW e \in Evaluators, WriteReleases(e)
        PROVE  \/ release'[s] = release[s]
               \/ /\ evaluator[e].pc = "write" /\ s = Scope(e) /\ release'[s] = Evaluated(e)
                  /\ UNCHANGED <<clock, rivals, asks>>
                  /\ Waiting(evaluator'[e]) /\ Others(e)
    BY <1>1, <1>6, WriteIs
  <1>7. \/ release' = release
        \/ \E e \in Evaluators : WriteReleases(e)
        \/ \E q \in Scopes : Publish(q)
        \/ \E q \in Scopes, status \in {"CANARY", "ACTIVE", "REJECTED"} : DecideByHand(q, status)
    BY DEF Next, vars, Evaluate, ReadConfig, Describe, ComputeLiveMetrics, ReadReleases, ListConfigs,
       Boot, Tick, Crash, Minute, StartRun, EndRun, WriteConfig, TruncateConfig, Ask
  <1>8. QED
    BY <1>3, <1>4, <1>5, <1>6, <1>7

LEMMA CountersMove ==
  ASSUME CallsInv, [Next]_vars
  PROVE  /\ clock' \in {clock, clock + 1} /\ rivals' \in {rivals, rivals + 1}
         /\ asks' \in {asks, asks + 1} /\ puts' \in {puts, puts + 1}
         /\ rivals' = 0 => rivals = 0
         /\ asks' = 0 => asks = 0
         /\ puts' = 0 => puts = 0
  <1>1. /\ clock' \in {clock, clock + 1} /\ rivals' \in {rivals, rivals + 1}
        /\ asks' \in {asks, asks + 1} /\ puts' \in {puts, puts + 1}
    BY DEF Next, vars, bounds, Evaluate, ReadConfig, Describe, ComputeLiveMetrics, ReadReleases,
       WriteReleases, ListConfigs, Boot, Tick, Crash, Minute, StartRun, EndRun, WriteConfig,
       TruncateConfig, Ask, Publish, DecideByHand, Rival
  <1>2. QED
    BY <1>1 DEF CallsInv, TypeOK

-----------------------------------------------------------------------------
(* A canary that carries a time was published at time 0, if nobody has     *)
(* published since, and the tick evaluates it no earlier than the interval *)
(* after that.                                                             *)
Stamped(r) == r.startedAt # Nothing
RipeInv == rivals = 0 =>
    /\ evaluator[Timer].pc = "metrics" /\ Stamped(release[Scope(Timer)]) => clock >= Interval
    /\ evaluator[Timer].pc \in {"read", "write"} /\ Stamped(release[Scope(Timer)]) =>
          evaluator[Timer].at >= Interval
StartedInv == rivals = 0 =>
    /\ \A s \in Scopes : release[s].startedAt \in {0, Nothing}
    /\ \A e \in Evaluators : evaluator[e].pc = "write" =>
          evaluator[e].base.startedAt = release[Scope(e)].startedAt

LEMMA LastIs ==
  ASSUME NEW r \in Release
  PROVE  /\ LastEvaluationAt(r) \in 0..MaxClock \cup {Nothing}
         /\ LastEvaluationAt(r) = Nothing => r.evaluations = << >>
         /\ r.evaluations = << >> => LastEvaluationAt(r) = r.startedAt
         /\ r.evaluations \in Seq(Evaluation) /\ DOMAIN r.evaluations = 1..Len(r.evaluations)
         /\ Len(r.evaluations) \in Nat
         /\ r.evaluations # << >> => Len(r.evaluations) \in 1..Len(r.evaluations)
         /\ \A i \in 1..Len(r.evaluations) : r.evaluations[i] \in Evaluation
  <1> DEFINE done == r.evaluations
  <1>1. done \in Seq(Evaluation) /\ r.startedAt \in 0..MaxClock \cup {Nothing}
    BY DEF Release
  <1> HIDE DEF done
  <1>2. DOMAIN done = 1..Len(done) /\ Len(done) \in Nat /\ \A i \in 1..Len(done) : done[i] \in Evaluation
    BY <1>1
  <1>3. done # << >> => Len(done) \in 1..Len(done)
    BY <1>1, <1>2, EmptySeq
  <1>4. \A x \in Evaluation : x.at \in 0..MaxClock
    BY DEF Evaluation
  <1>5. /\ done # << >> => LastEvaluationAt(r) \in 0..MaxClock
        /\ done = << >> => LastEvaluationAt(r) = r.startedAt
    BY <1>1, <1>2, <1>3, <1>4 DEF LastEvaluationAt, done
  <1>6. QED
    BY <1>1, <1>2, <1>3, <1>5, CanaryAssumption DEF done

LEMMA AppendIsLonger ==
  ASSUME NEW T, NEW s \in Seq(T), NEW x \in T
  PROVE  /\ Append(s, x) \in Seq(T) /\ Len(Append(s, x)) = Len(s) + 1 /\ Len(s) \in Nat
         /\ DOMAIN Append(s, x) = 1..(Len(s) + 1) /\ DOMAIN s = 1..Len(s)
         /\ Append(s, x)[Len(s) + 1] = x /\ \A i \in 1..Len(s) : Append(s, x)[i] = s[i]
         /\ Append(s, x)[Len(Append(s, x))] = x /\ Append(s, x) # << >>
  <1> DEFINE t == Append(s, x)
  <1>1. /\ t \in Seq(T) /\ Len(t) = Len(s) + 1 /\ Len(s) \in Nat
        /\ DOMAIN t = 1..(Len(s) + 1) /\ DOMAIN s = 1..Len(s)
        /\ t[Len(s) + 1] = x /\ \A i \in 1..Len(s) : t[i] = s[i]
    OBVIOUS
  <1> HIDE DEF t
  <1>2. t # << >>
    BY <1>1, EmptySeq
  <1>3. QED
    BY <1>1, <1>2 DEF t

(* Without a publication no release changes its time.                      *)
LEMMA StampStays ==
  ASSUME CallsInv, StartedInv, [Next]_vars, rivals' = 0, NEW s \in Scopes
  PROVE  rivals = 0 /\ release'[s].startedAt = release[s].startedAt
  <1>1. rivals = 0
    BY CountersMove
  <1>2. \A e \in Evaluators : evaluator[e].pc = "write" =>
           evaluator[e].base.startedAt = release[Scope(e)].startedAt
    BY <1>1 DEF StartedInv
  <1>3. QED
    BY <1>1, <1>2, ReleaseMoves, EvaluatedIs

LEMMA RipeStep == CallsInv /\ StartedInv /\ RipeInv /\ [Next]_vars => RipeInv'
  <1> SUFFICES ASSUME CallsInv, StartedInv, RipeInv, [Next]_vars, rivals' = 0 PROVE RipeInv'
    BY DEF RipeInv
  <1> DEFINE local == evaluator[Timer]
             new == evaluator'[Timer]
  <1>1. Timer \in Evaluators /\ rivals = 0
    BY CountersMove DEF Evaluators
  <1>2. clock \in Nat /\ clock' \in Nat /\ clock' >= clock /\ Interval \in Nat
    BY CountersMove, SMTT(60) DEF CallsInv, TypeOK
  <1>3. ASSUME new.todo = local.todo, Scope(Timer) \in Scopes
        PROVE  Stamped(release'[Scope(Timer)']) <=> Stamped(release[Scope(Timer)])
    <2>1. Scope(Timer)' = Scope(Timer)
      BY <1>3 DEF Scope
    <2>2. release'[Scope(Timer)].startedAt = release[Scope(Timer)].startedAt
      BY <1>3, StampStays
    <2>3. QED
      BY <2>1, <2>2 DEF Stamped
  <1>4. local.pc \notin {"idle", "list"} => Scope(Timer) \in Scopes
    BY <1>1, Typing
  <1>5. /\ local.pc = "metrics" /\ Stamped(release[Scope(Timer)]) => clock >= Interval
        /\ local.pc \in {"read", "write"} /\ Stamped(release[Scope(Timer)]) => local.at >= Interval
    BY <1>1 DEF RipeInv
  <1> DEFINE Now ==
         /\ new.pc = "metrics" /\ Stamped(release'[Scope(Timer)']) => clock' >= Interval
         /\ new.pc \in {"read", "write"} /\ Stamped(release'[Scope(Timer)']) => new.at >= Interval
  <1>6. Now => RipeInv'
    BY DEF RipeInv
  <1>7. CASE new = local
    BY <1>2, <1>3, <1>4, <1>5, <1>6, <1>7
  <1>8. CASE new.pc \in Early
    BY <1>6, <1>8 DEF Early
  <1>9. CASE /\ StaysPut(Timer) /\ local.pc = "describe" /\ new.pc = "metrics"
             /\ local.force \/ ~TooRecent(release[Scope(Timer)])
    <2>1. PICK r \in Release : r = release[Scope(Timer)]
      BY <1>4, <1>9 DEF CallsInv, TypeOK
    <2>2. ~TooRecent(r) /\ r.startedAt \in {0, Nothing}
      BY <1>1, <1>4, <1>9, <2>1, Typing DEF CallsInv, CallInv, TypeOK, StartedInv
    <2>3. ASSUME Stamped(r) PROVE clock >= Interval
      <3>1. PICK last : last = LastEvaluationAt(r)
        OBVIOUS
      <3>2. last \in Nat /\ last # Nothing
        BY <2>2, <2>3, <3>1, LastIs, CanaryAssumption DEF Stamped
      <3>3. ~(clock < last + Interval)
        BY <2>2, <3>1, <3>2 DEF TooRecent
      <3>4. QED
        BY <1>2, <3>2, <3>3
    <2>4. new.todo = local.todo
      BY <1>9 DEF StaysPut
    <2>5. QED
      BY <1>2, <1>3, <1>4, <1>6, <1>9, <2>1, <2>3, <2>4
  <1>10. CASE StaysPut(Timer) /\ local.pc = "metrics" /\ new.pc = "read" /\ new.at = clock
    BY <1>3, <1>4, <1>5, <1>6, <1>10 DEF StaysPut
  <1>11. CASE StaysPut(Timer) /\ local.pc = "read" /\ new.pc = "write" /\ new.at = local.at
    BY <1>3, <1>4, <1>5, <1>6, <1>11 DEF StaysPut
  <1>12. QED
    BY <1>1, <1>7, <1>8, <1>9, <1>10, <1>11, CallMoves

LEMMA StartedStep == CallsInv /\ StartedInv /\ [Next]_vars => StartedInv'
  <1> SUFFICES ASSUME CallsInv, StartedInv, [Next]_vars, rivals' = 0 PROVE StartedInv'
    BY DEF StartedInv
  <1>1. /\ \A s \in Scopes : release[s].startedAt \in {0, Nothing}
        /\ \A e \in Evaluators : evaluator[e].pc = "write" =>
              evaluator[e].base.startedAt = release[Scope(e)].startedAt
    BY CountersMove DEF StartedInv
  <1>2. \A s \in Scopes : release'[s].startedAt = release[s].startedAt
    BY StampStays
  <1>3. ASSUME NEW e \in Evaluators, evaluator'[e].pc = "write"
        PROVE  evaluator'[e].base.startedAt = release'[Scope(e)'].startedAt
    <2>1. CASE evaluator'[e] = evaluator[e]
      <3>1. Scope(e)' = Scope(e) /\ Scope(e) \in Scopes
        BY <1>3, <2>1, Typing DEF Scope
      <3>2. QED
        BY <1>1, <1>2, <1>3, <2>1, <3>1
    <2>2. CASE evaluator[e].pc = "read" /\ evaluator'[e].base = release[Scope(e)] /\ StaysPut(e)
      <3>1. Scope(e)' = Scope(e) /\ Scope(e) \in Scopes
        BY <2>2, Typing DEF StaysPut, Scope
      <3>2. QED
        BY <1>2, <2>2, <3>1
    <2>3. QED
      BY <1>3, <2>1, <2>2, CallMoves DEF Early
  <1>4. QED
    BY <1>1, <1>2, <1>3 DEF StartedInv

(* What a decision of the automation rests on, whoever has taken part.     *)
Grounded(r, quiet) == LastIsAutomated(r) =>
    LET last == r.evaluations[Len(r.evaluations)]
    IN  /\ r.status = "ACTIVE" => last.metrics.sample >= MinSample
        /\ r.status = "REJECTED" /\ quiet /\ r.startedAt # Nothing =>
              last.at >= r.startedAt + Interval

(* A decision of the automation has its grounds: a release the tick made   *)
(* ACTIVE passed on a sample that was large enough, and one it REJECTED    *)
(* had been in canary for the minimum interval if it carried the time of   *)
(* its start, for any policy and however many others publish, decide,      *)
(* evaluate and fail.                                                      *)
THEOREM DecisionsAreGrounded == Spec => []DecisionsHaveGrounds
  <1>0. Timer \in Evaluators /\ Timer # Nothing
    BY DEF Evaluators
  <1>1. Init => DecisionsHaveGrounds /\ RipeInv /\ StartedInv
    <2> SUFFICES ASSUME Init PROVE DecisionsHaveGrounds /\ RipeInv /\ StartedInv
      OBVIOUS
    <2>1. \A s \in Scopes : release[s].evaluations = << >> /\ release[s].startedAt \in {0, Nothing}
      BY DEF Init, Published
    <2>2. \A e \in Evaluators : evaluator[e].pc = "idle"
      BY IdleIs DEF Init
    <2>3. QED
      BY <1>0, <2>1, <2>2 DEF DecisionsHaveGrounds, LastIsAutomated, RipeInv, StartedInv
  <1>2. CallsInv /\ RipeInv /\ StartedInv /\ DecisionsHaveGrounds /\ [Next]_vars
          => DecisionsHaveGrounds'
    <2> SUFFICES ASSUME CallsInv, RipeInv, StartedInv, DecisionsHaveGrounds, [Next]_vars,
                        NEW s \in Scopes
                 PROVE  Grounded(release'[s], rivals' = 0)
      BY DEF DecisionsHaveGrounds, Grounded, LastIsAutomated
    <2>1. Grounded(release[s], rivals = 0)
      BY DEF DecisionsHaveGrounds, Grounded
    <2>2. rivals' = 0 => rivals = 0
      BY CountersMove
    <2>3. CASE release'[s] = release[s]
      BY <2>1, <2>2, <2>3 DEF Grounded
    <2>4. CASE IsNew(release'[s])
      BY <2>4 DEF Grounded, IsNew, LastIsAutomated
    <2>5. ASSUME NEW h \in Seq(Evaluation), NEW x \in Evaluation
          PROVE  Append(h, x)[Len(Append(h, x))] = x /\ Append(h, x) # << >>
      BY AppendIsLonger
    <2>6. CASE release'[s].evaluations =
                  Append(release[s].evaluations, [by |-> Nothing, at |-> clock, metrics |-> Nothing])
      <3>1. /\ release[s].evaluations \in Seq(Evaluation)
            /\ [by |-> Nothing, at |-> clock, metrics |-> Nothing] \in Evaluation
        BY DEF CallsInv, TypeOK, Release, Evaluation
      <3>2. ~LastIsAutomated(release'[s])
        BY <1>0, <2>5, <2>6, <3>1 DEF LastIsAutomated
      <3>3. QED
        BY <3>2 DEF Grounded
    <2>7. ASSUME NEW e \in Evaluators, evaluator[e].pc = "write", release'[s] = Evaluated(e),
                 rivals' = rivals
          PROVE  Grounded(release'[s], rivals' = 0)
      <3> DEFINE r == Evaluated(e)
                 local == evaluator[e]
      <3>1. local.base.evaluations \in Seq(Evaluation) /\ EntryOf(e) \in Evaluation
        BY <2>7, Typing, EvaluatedIs DEF Release
      <3>2. r.evaluations[Len(r.evaluations)] = EntryOf(e)
        <4>1. r.evaluations = Append(local.base.evaluations, EntryOf(e))
          BY <2>7, EvaluatedIs
        <4> HIDE DEF r, local
        <4>2. QED
          BY <2>5, <3>1, <4>1
      <3>3. r.status = "ACTIVE" => local.metrics.sample >= MinSample
        BY <2>7, EvaluatedIs DEF Passes
      <3>4. rivals' = 0 => r.startedAt \in {0, Nothing} /\ r.startedAt = release[Scope(e)].startedAt
        BY <2>7, EvaluatedIs, Typing DEF StartedInv
      <3>5. e = Timer /\ rivals' = 0 /\ r.startedAt # Nothing => local.at >= Interval
        BY <2>7, <3>4 DEF RipeInv, Stamped
      <3> HIDE DEF r, local
      <3>6. EntryOf(e) = [by |-> e, at |-> local.at, metrics |-> local.metrics]
        BY DEF EntryOf, local
      <3>7. e = Timer /\ rivals' = 0 /\ r.startedAt # Nothing => local.at >= r.startedAt + Interval
        BY <3>4, <3>5
      <3>8. Grounded(r, rivals' = 0)
        BY <3>2, <3>3, <3>6, <3>7 DEF Grounded, LastIsAutomated
      <3>9. QED
        BY <2>7, <3>8 DEF r
    <2>8. QED
      BY <2>3, <2>4, <2>6, <2>7, ReleaseMoves
  <1>3. QED
    BY <1>1, <1>2, RipeStep, StartedStep, CallsAreTyped, PTL DEF Spec

-----------------------------------------------------------------------------
(* The tick alone: as long as nobody asked, no client has a call.          *)
AskedInv == asks = 0 => \A c \in Clients : evaluator[c].pc = "idle"

LEMMA IdleStays ==
  ASSUME CallsInv, [Next]_vars, NEW c \in Clients, evaluator[c].pc = "idle", asks' = asks
  PROVE  evaluator'[c].pc = "idle"
  <1>1. Timer \in Evaluators /\ Clients \subseteq Evaluators /\ c # Timer
    BY DEF Evaluators
  <1>2. ASSUME NEW q \in Evaluators, q # c, Others(q) \/ Ended(q) PROVE evaluator'[c].pc = "idle"
    BY <1>1, <1>2, IdleIs DEF Others, Ended
  <1>3. ASSUME NEW q \in Evaluators, Evaluate(q) PROVE evaluator'[c].pc = "idle"
    <2>1. q # c
      BY <1>3 DEF Evaluate, ReadConfig, Describe, ComputeLiveMetrics, ReadReleases, WriteReleases
    <2>2. QED
      BY <1>2, <1>3, <2>1, ConfigIs, DescribeIs, MetricsIs, ReadIs, WriteIs DEF Evaluate
  <1>4. ListConfigs \/ Boot \/ Tick => evaluator'[c].pc = "idle"
    BY <1>1, <1>2, ListIs, BootIs
  <1>5. Crash => evaluator'[c].pc = "idle"
    BY <1>1, <1>2, ExitIs DEF Crash
  <1>6. ASSUME NEW d \in Clients, NEW s \in Scopes, NEW force \in BOOLEAN,
               NEW wish \in {Nothing, "OBSERVE", "APPLY"}
        PROVE  ~Ask(d, s, force, wish)
    <2>1. asks # asks + 1
      BY SMTT(60) DEF CallsInv, TypeOK
    <2>2. QED
      BY <2>1 DEF Ask
  <1>7. evaluator' = evaluator => evaluator'[c].pc = "idle"
    OBVIOUS
  <1>8. \/ \E q \in Evaluators : Evaluate(q)
        \/ ListConfigs \/ Boot \/ Tick \/ Crash \/ evaluator' = evaluator
        \/ \E d \in Clients, s \in Scopes, force \in BOOLEAN,
              wish \in {Nothing, "OBSERVE", "APPLY"} : Ask(d, s, force, wish)
    BY DEF Next, vars, Minute, Publish, StartRun, EndRun, WriteConfig, DecideByHand, TruncateConfig
  <1>9. QED
    BY <1>3, <1>4, <1>5, <1>6, <1>7, <1>8

LEMMA AskedStep == CallsInv /\ AskedInv /\ [Next]_vars => AskedInv'
  <1> SUFFICES ASSUME CallsInv, AskedInv, [Next]_vars, asks' = 0, NEW c \in Clients
               PROVE  evaluator'[c].pc = "idle"
    BY DEF AskedInv
  <1>1. asks = 0 /\ asks' = asks
    BY CountersMove
  <1>2. QED
    BY <1>1, IdleStays DEF AskedInv

(* The times of the tick's entries: far enough apart, not after a time,    *)
(* and all of them the interval before a time.                             *)
ByTimer(r) == {i \in DOMAIN r.evaluations : r.evaluations[i].by = Timer}
Spaced(r) == \A i, k \in ByTimer(r) : i < k =>
                r.evaluations[k].at >= r.evaluations[i].at + Interval
NotAfter(r, t) == \A i \in ByTimer(r) : r.evaluations[i].at <= t
Ready(r, t) == \A i \in ByTimer(r) : t >= r.evaluations[i].at + Interval

LEMMA TimesAreNumbers ==
  ASSUME NEW r \in Release
  PROVE  \A i \in ByTimer(r) : i \in 1..Len(r.evaluations) /\ r.evaluations[i].at \in 0..MaxClock
  BY LastIs DEF ByTimer, Evaluation

(* What one more entry x makes of the entries of the tick.                 *)
Extends(r, q, x) ==
    /\ LastEvaluationAt(q) = x.at /\ x.at \in 0..MaxClock
    /\ \A i \in ByTimer(r) : i \in ByTimer(q) /\ q.evaluations[i] = r.evaluations[i]
    /\ \A i \in ByTimer(q) : i \in ByTimer(r) \/ (i = Len(r.evaluations) + 1 /\ x.by = Timer
                                                   /\ q.evaluations[i] = x)

LEMMA Appended ==
  ASSUME NEW r \in Release, NEW q \in Release, NEW x \in Evaluation,
         q.evaluations = Append(r.evaluations, x)
  PROVE  Extends(r, q, x)
  <1> DEFINE old == r.evaluations
             new == q.evaluations
  <1>1. old \in Seq(Evaluation) /\ new = Append(old, x)
    BY DEF Release
  <1> HIDE DEF old, new
  <1>2. /\ Len(new) = Len(old) + 1 /\ Len(old) \in Nat
        /\ DOMAIN new = 1..(Len(old) + 1) /\ DOMAIN old = 1..Len(old)
        /\ new[Len(old) + 1] = x /\ \A i \in 1..Len(old) : new[i] = old[i]
        /\ new[Len(new)] = x /\ new # << >>
    <2>1. PICK t : t = Append(old, x)
      OBVIOUS
    <2>2. /\ Len(t) = Len(old) + 1 /\ Len(old) \in Nat
          /\ DOMAIN t = 1..(Len(old) + 1) /\ DOMAIN old = 1..Len(old)
          /\ t[Len(old) + 1] = x /\ \A i \in 1..Len(old) : t[i] = old[i]
          /\ t[Len(t)] = x /\ t # << >>
      BY <1>1, <2>1, AppendIsLonger
    <2>3. QED
      BY <1>1, <2>1, <2>2
  <1>3. LastEvaluationAt(q) = x.at /\ x.at \in 0..MaxClock
    <2>1. LastEvaluationAt(q) = x.at
      BY <1>2, Zenon DEF LastEvaluationAt, new
    <2>2. QED
      BY <2>1 DEF Evaluation
  <1>4. \A i \in DOMAIN old : i \in DOMAIN new /\ new[i] = old[i]
    BY <1>2
  <1>5. \A i \in DOMAIN new : i \in DOMAIN old \/ i = Len(old) + 1
    BY <1>2, SMTT(60)
  <1>6. QED
    BY <1>2, <1>3, <1>4, <1>5, Zenon DEF Extends, ByTimer, old, new

LEMMA AppendedByAnother ==
  ASSUME NEW r \in Release, NEW q \in Release, NEW x \in Evaluation,
         q.evaluations = Append(r.evaluations, x), x.by # Timer
  PROVE  /\ Spaced(r) => Spaced(q)
         /\ \A t : NotAfter(r, t) => NotAfter(q, t)
         /\ \A t : Ready(r, t) => Ready(q, t)
  <1>0. Extends(r, q, x)
    BY Appended
  <1>1. \A i \in ByTimer(q) : i \in ByTimer(r) /\ q.evaluations[i] = r.evaluations[i]
    BY <1>0, Zenon DEF Extends
  <1>2. QED
    BY <1>1, Zenon DEF Spaced, NotAfter, Ready

LEMMA AppendedByTimer ==
  ASSUME NEW r \in Release, NEW q \in Release, NEW x \in Evaluation,
         q.evaluations = Append(r.evaluations, x), Spaced(r), Ready(r, x.at)
  PROVE  Spaced(q) /\ NotAfter(q, x.at)
  <1>0. Extends(r, q, x)
    BY Appended
  <1>1. /\ \A i \in ByTimer(r) : q.evaluations[i] = r.evaluations[i]
        /\ \A i \in ByTimer(q) : i \in ByTimer(r) \/ (i = Len(r.evaluations) + 1 /\ q.evaluations[i] = x)
        /\ x.at \in 0..MaxClock
    BY <1>0, Zenon DEF Extends
  <1>9. x.at \in Nat /\ Interval \in Nat
    BY <1>1
  <1>2. \A i \in ByTimer(r) : i \in 1..Len(r.evaluations) /\ r.evaluations[i].at \in Nat
    BY TimesAreNumbers
  <1>3. Len(r.evaluations) \in Nat
    BY LastIs
  <1>4. ASSUME NEW i \in ByTimer(q) PROVE q.evaluations[i].at <= x.at
    <2>1. \A a \in Nat, b \in Nat, c \in Nat : b >= a + c => a <= b
      OBVIOUS
    <2>2. x.at <= x.at
      BY <1>9
    <2>3. QED
      BY <1>1, <1>9, <1>2, <1>4, <2>1, <2>2, Zenon DEF Ready
  <1>5. ASSUME NEW i \in ByTimer(q), NEW k \in ByTimer(q), i < k
        PROVE  q.evaluations[k].at >= q.evaluations[i].at + Interval
    <2>1. i \in ByTimer(r)
      <3>1. ASSUME i = Len(r.evaluations) + 1 PROVE FALSE
        <4>1. k \in ByTimer(r) \/ k = Len(r.evaluations) + 1
          BY <1>1
        <4>2. k \in 1..Len(r.evaluations) \/ k = Len(r.evaluations) + 1
          BY <1>2, <4>1
        <4>3. QED
          BY <1>3, <1>5, <3>1, <4>2
      <3>2. QED
        BY <1>1, <3>1
    <2>2. CASE k \in ByTimer(r)
      BY <1>1, <1>5, <2>1, <2>2 DEF Spaced
    <2>3. CASE q.evaluations[k] = x
      BY <1>1, <2>1, <2>3, Zenon DEF Ready
    <2>4. QED
      BY <1>1, <2>2, <2>3
  <1>6. QED
    BY <1>4, <1>5 DEF Spaced, NotAfter

(* With nobody's call but the tick's, a release moves by the tick's write, *)
(* by a publication or by a decision by hand.                              *)
LEMMA ReleaseMovesAlone ==
  ASSUME CallsInv, AskedInv, [Next]_vars, asks' = 0, NEW s \in Scopes
  PROVE  /\ release[s] \in Release /\ release'[s] \in Release
         /\ \/ release'[s] = release[s]
            \/ /\ evaluator[Timer].pc = "write" /\ release'[s] = Evaluated(Timer)
               /\ clock' = clock
            \/ IsNew(release'[s])
            \/ /\ release'[s].evaluations = Append(release[s].evaluations,
                                             [by |-> Nothing, at |-> clock, metrics |-> Nothing])
               /\ clock' = clock /\ rivals' # 0
  <1>1. release[s] \in Release
    BY DEF CallsInv, TypeOK
  <1>2. release'[s] \in Release
    BY CallsStep DEF CallsInv, TypeOK
  <1>3. \A e \in Evaluators : evaluator[e].pc = "write" => e = Timer
    BY CountersMove DEF AskedInv, Evaluators
  <1>4. QED
    BY <1>1, <1>2, <1>3, ReleaseMoves

(* What keeps them apart: the tick lets a canary be that had an evaluation *)
(* within the interval, and what it then reads, measures and writes is not *)
(* older than that moment.                                                 *)
SpacedInv == asks = 0 =>
    /\ \A s \in Scopes : /\ Spaced(release[s])
                         /\ NotAfter(release[s], LastEvaluationAt(release[s]))
                         /\ NotAfter(release[s], clock)
    /\ evaluator[Timer].pc = "metrics" => Ready(release[Scope(Timer)], clock)
    /\ evaluator[Timer].pc = "read" => Ready(release[Scope(Timer)], evaluator[Timer].at)
    /\ evaluator[Timer].pc = "write" => /\ Spaced(evaluator[Timer].base)
                                        /\ Ready(evaluator[Timer].base, evaluator[Timer].at)
    /\ evaluator[Timer].at <= clock

LEMMA LaterIsFine ==
  ASSUME NEW r \in Release, NEW t \in Nat, NEW u \in Nat, t <= u
  PROVE  /\ NotAfter(r, t) => NotAfter(r, u)
         /\ Ready(r, t) => Ready(r, u)
         /\ NotAfter(r, t) /\ u >= t + Interval => Ready(r, u)
  <1>1. \A i \in ByTimer(r) : r.evaluations[i].at \in Nat
    BY TimesAreNumbers
  <1>2. \A a \in Nat : /\ a <= t => a <= u
                       /\ t >= a + Interval => u >= a + Interval
                       /\ a <= t /\ u >= t + Interval => u >= a + Interval
    BY Interval \in Nat
  <1>3. QED
    BY <1>1, <1>2, Zenon DEF NotAfter, Ready

LEMMA FreshIsSpaced ==
  ASSUME NEW r, r.evaluations = << >>
  PROVE  Spaced(r) /\ \A t : NotAfter(r, t) /\ Ready(r, t)
  <1>1. DOMAIN << >> = {}
    OBVIOUS
  <1>2. ByTimer(r) = {}
    BY <1>1 DEF ByTimer
  <1>3. QED
    BY <1>2 DEF Spaced, NotAfter, Ready

(* A publication and a decision by hand leave a release as ready as it was.*)
LEMMA ReadyKept ==
  ASSUME CallsInv, AskedInv, [Next]_vars, asks' = 0, NEW s \in Scopes,
         evaluator[Timer].pc # "write", NEW t, Ready(release[s], t)
  PROVE  Ready(release'[s], t)
  <1>1. CASE release'[s] = release[s]
    BY <1>1
  <1>2. CASE IsNew(release'[s])
    BY <1>2, FreshIsSpaced DEF IsNew
  <1>3. CASE release'[s].evaluations = Append(release[s].evaluations,
                                          [by |-> Nothing, at |-> clock, metrics |-> Nothing])
    <2>1. PICK x : x = [by |-> Nothing, at |-> clock, metrics |-> Nothing]
      OBVIOUS
    <2>2. x \in Evaluation /\ x.by # Timer
      BY <2>1 DEF Evaluation, CallsInv, TypeOK
    <2>3. release[s] \in Release /\ release'[s] \in Release
      BY ReleaseMovesAlone
    <2>4. QED
      BY <1>3, <2>1, <2>2, <2>3, AppendedByAnother, ZenonT(60)
  <1>4. QED
    BY <1>1, <1>2, <1>3, ReleaseMovesAlone

LEMMA SpacedStep == CallsInv /\ AskedInv /\ SpacedInv /\ [Next]_vars => SpacedInv'
  <1> SUFFICES ASSUME CallsInv, AskedInv, SpacedInv, [Next]_vars, asks' = 0 PROVE SpacedInv'
    BY DEF SpacedInv
  <1> DEFINE local == evaluator[Timer]
             new == evaluator'[Timer]
  <1>1. Timer \in Evaluators
    BY DEF Evaluators
  <1>2. /\ \A s \in Scopes : /\ Spaced(release[s])
                             /\ NotAfter(release[s], LastEvaluationAt(release[s]))
                             /\ NotAfter(release[s], clock)
        /\ local.pc = "metrics" => Ready(release[Scope(Timer)], clock)
        /\ local.pc = "read" => Ready(release[Scope(Timer)], local.at)
        /\ local.pc = "write" => Spaced(local.base) /\ Ready(local.base, local.at)
        /\ local.at <= clock
    BY CountersMove DEF SpacedInv
  <1>3. clock \in Nat /\ clock' \in Nat /\ clock <= clock'
    BY CountersMove, SMTT(60) DEF CallsInv, TypeOK
  <1>4. local \in Local /\ local.at \in Nat /\ ~local.force
    BY <1>1, Typing DEF CallsInv, CallInv, Local
  <1>5. local.pc \notin {"idle", "list"} => Scope(Timer) \in Scopes
    BY <1>1, Typing
  <1>6. ASSUME NEW s \in Scopes
        PROVE  /\ Spaced(release'[s])
               /\ NotAfter(release'[s], LastEvaluationAt(release'[s]))
               /\ NotAfter(release'[s], clock')
    <2>1. release[s] \in Release /\ release'[s] \in Release
      BY ReleaseMovesAlone
    <2>2. CASE release'[s] = release[s]
      BY <1>2, <1>3, <2>1, <2>2, LaterIsFine
    <2>3. CASE IsNew(release'[s])
      BY <2>3, FreshIsSpaced DEF IsNew
    <2>4. CASE /\ clock' = clock
               /\ release'[s].evaluations = Append(release[s].evaluations,
                                              [by |-> Nothing, at |-> clock, metrics |-> Nothing])
      <3>1. PICK x : x = [by |-> Nothing, at |-> clock, metrics |-> Nothing]
        OBVIOUS
      <3>2. x \in Evaluation /\ x.by # Timer /\ x.at = clock
        BY <3>1 DEF Evaluation, CallsInv, TypeOK
      <3>3. Extends(release[s], release'[s], x)
        BY <2>1, <2>4, <3>1, <3>2, Appended
      <3>4. LastEvaluationAt(release'[s]) = clock
        BY <3>2, <3>3 DEF Extends
      <3>5. \A t : NotAfter(release[s], t) => NotAfter(release'[s], t)
        BY <2>1, <2>4, <3>1, <3>2, AppendedByAnother, ZenonT(60)
      <3>6. Spaced(release'[s])
        BY <1>2, <2>1, <2>4, <3>1, <3>2, AppendedByAnother, ZenonT(60)
      <3>7. NotAfter(release'[s], clock)
        BY <1>2, <3>5
      <3>8. QED
        BY <2>4, <3>4, <3>6, <3>7
    <2>5. CASE clock' = clock /\ local.pc = "write" /\ release'[s] = Evaluated(Timer)
      <3>1. PICK x, base : x = EntryOf(Timer) /\ base = local.base
        OBVIOUS
      <3>2. /\ x \in Evaluation /\ base \in Release
            /\ release'[s].evaluations = Append(base.evaluations, x)
        BY <1>1, <2>5, <3>1, Typing, EvaluatedIs
      <3>3. x.at = local.at
        BY <3>1 DEF EntryOf
      <3>4. Spaced(base) /\ Ready(base, x.at)
        BY <1>2, <2>5, <3>1, <3>3
      <3>5. Spaced(release'[s]) /\ NotAfter(release'[s], x.at)
        BY <2>1, <3>2, <3>4, AppendedByTimer
      <3>6. Extends(base, release'[s], x)
        BY <2>1, <3>2, Appended
      <3>7. LastEvaluationAt(release'[s]) = x.at
        BY <3>6 DEF Extends
      <3>8. NotAfter(release'[s], clock')
        BY <1>2, <1>3, <1>4, <2>1, <2>5, <3>3, <3>5, LaterIsFine
      <3>9. QED
        BY <3>5, <3>7, <3>8
    <2>6. QED
      BY <2>2, <2>3, <2>4, <2>5, ReleaseMovesAlone
  <1>7. ASSUME NEW s \in Scopes, NEW t, local.pc # "write", Ready(release[s], t)
        PROVE  Ready(release'[s], t)
    BY <1>7, ReadyKept
  <1>8. ASSUME new.todo = local.todo PROVE Scope(Timer)' = Scope(Timer)
    BY <1>8 DEF Scope
  <1> DEFINE Now ==
               /\ new.pc = "metrics" => Ready(release'[Scope(Timer)'], clock')
               /\ new.pc = "read" => Ready(release'[Scope(Timer)'], new.at)
               /\ new.pc = "write" => Spaced(new.base) /\ Ready(new.base, new.at)
               /\ new.at <= clock'
  <1>9. CASE new = local
    <2>1. PICK t \in Nat, u \in Nat, v \in Nat : t = clock /\ u = clock' /\ v = local.at
      BY <1>3, <1>4
    <2>2. Scope(Timer)' = Scope(Timer)
      BY <1>8, <1>9
    <2>3. local.at <= clock'
      BY <1>2, <1>3, <1>4
    <2>4. local.pc = "metrics" => Ready(release'[Scope(Timer)], clock')
      <3>1. ASSUME local.pc = "metrics" PROVE Ready(release'[Scope(Timer)], clock')
        <4>1. Scope(Timer) \in Scopes /\ Ready(release'[Scope(Timer)], t)
          BY <1>2, <1>5, <1>7, <2>1, <3>1
        <4>2. release'[Scope(Timer)] \in Release
          BY <4>1, ReleaseMovesAlone
        <4>3. QED
          BY <1>3, <2>1, <4>1, <4>2, LaterIsFine
      <3>2. QED
        BY <3>1
    <2>5. local.pc = "read" => Ready(release'[Scope(Timer)], local.at)
      BY <1>2, <1>5, <1>7
    <2>6. Now
      BY <1>2, <1>9, <2>2, <2>3, <2>4, <2>5
    <2>7. QED
      BY <1>6, <2>6 DEF SpacedInv
  <1>10. CASE new.pc \in Early /\ new.at \in {0, local.at}
    <2>1. new.at <= clock'
      BY <1>2, <1>3, <1>4, <1>10
    <2>2. Now
      BY <1>10, <2>1 DEF Early
    <2>3. QED
      BY <1>6, <2>2 DEF SpacedInv
  <1>11. CASE /\ StaysPut(Timer) /\ local.pc = "describe" /\ new.pc = "metrics" /\ new.at = local.at
              /\ local.force \/ ~TooRecent(release[Scope(Timer)])
    <2>1. PICK r \in Release : r = release[Scope(Timer)]
      BY <1>5, <1>11, ReleaseMovesAlone
    <2>2. ASSUME LastEvaluationAt(r) # Nothing PROVE Ready(r, clock)
      <3>1. PICK last \in Nat : last = LastEvaluationAt(r)
        BY <2>2, LastIs
      <3>2. ~(clock < last + Interval)
        BY <1>4, <1>11, <2>1, <2>2, <3>1 DEF TooRecent
      <3>3. NotAfter(r, last)
        BY <1>2, <1>5, <1>11, <2>1, <3>1
      <3>4. clock >= last + Interval /\ last <= clock
        BY <1>3, <3>2, Interval \in Nat
      <3>5. QED
        BY <1>3, <3>3, <3>4, LaterIsFine
    <2>3. LastEvaluationAt(r) = Nothing => Ready(r, clock)
      BY LastIs, FreshIsSpaced
    <2>4. Ready(r, clock)
      BY <2>2, <2>3
    <2>5. release'[Scope(Timer)'] = r /\ clock' = clock
      BY <1>8, <1>11, <2>1 DEF StaysPut
    <2>6. Now
      BY <1>2, <1>11, <2>4, <2>5
    <2>7. QED
      BY <1>6, <2>6 DEF SpacedInv
  <1>12. CASE StaysPut(Timer) /\ local.pc = "metrics" /\ new.pc = "read" /\ new.at = clock
    <2>1. release'[Scope(Timer)'] = release[Scope(Timer)] /\ clock' = clock
      BY <1>8, <1>12 DEF StaysPut
    <2>2. new.at <= clock'
      BY <1>3, <1>12, <2>1
    <2>3. Now
      BY <1>2, <1>12, <2>1, <2>2
    <2>4. QED
      BY <1>6, <2>3 DEF SpacedInv
  <1>13. CASE /\ StaysPut(Timer) /\ local.pc = "read" /\ new.pc = "write" /\ new.at = local.at
              /\ new.base = release[Scope(Timer)]
    <2>1. clock' = clock
      BY <1>13 DEF StaysPut
    <2>2. Now
      BY <1>2, <1>5, <1>13, <2>1
    <2>3. QED
      BY <1>6, <2>2 DEF SpacedInv
  <1>14. QED
    BY <1>1, <1>9, <1>10, <1>11, <1>12, <1>13, CallMoves

(* The evaluations that the tick records on one publication are at least   *)
(* the minimum interval apart, for any interval, whatever else is decided, *)
(* published or lost in between, as long as no client asks for one.        *)
THEOREM ChecksAreSpaced == Spec => []AutomatedChecksAreSpaced
  <1>1. Init => AskedInv /\ SpacedInv
    <2> SUFFICES ASSUME Init PROVE AskedInv /\ SpacedInv
      OBVIOUS
    <2>1. \A e \in Evaluators : evaluator[e] = Idle
      BY DEF Init
    <2>2. \A s \in Scopes : release[s].evaluations = << >>
      BY DEF Init, Published
    <2>3. Timer \in Evaluators /\ Clients \subseteq Evaluators /\ clock = 0
      BY DEF Evaluators, Init
    <2>4. AskedInv
      BY <2>1, <2>3, IdleIs DEF AskedInv
    <2>5. evaluator[Timer].pc = "idle" /\ evaluator[Timer].at <= clock
      BY <2>1, <2>3, IdleIs
    <2>6. SpacedInv
      BY <2>2, <2>5, FreshIsSpaced DEF SpacedInv
    <2>7. QED
      BY <2>4, <2>6
  <1>2. SpacedInv => AutomatedChecksAreSpaced
    BY DEF SpacedInv, AutomatedChecksAreSpaced, Spaced, ByTimer
  <1>3. QED
    BY <1>1, <1>2, AskedStep, SpacedStep, CallsAreTyped, PTL DEF Spec

-----------------------------------------------------------------------------
(* Why the automation does not end its own process: the files of the       *)
(* configurations are whole, and the canary it found is still in canary    *)
(* when it reads again.                                                    *)
WholeInv == puts = 0 => \A s \in Scopes : config[s] \in Setting
InCanaryInv == asks = 0 /\ rivals = 0 /\ evaluator[Timer].pc \in {"metrics", "read"} =>
                   release[Scope(Timer)].status = "CANARY"

LEMMA WholeStep == CallsInv /\ WholeInv /\ [Next]_vars => WholeInv'
  <1> SUFFICES ASSUME CallsInv, WholeInv, [Next]_vars, puts' = 0, NEW q \in Scopes
               PROVE  config'[q] \in Setting
    BY DEF WholeInv
  <1>1. puts = 0 /\ config[q] \in Setting
    BY CountersMove DEF WholeInv
  <1>2. ASSUME NEW s \in Scopes, WriteConfig(s) PROVE config'[q] \in Setting
    BY <1>1, <1>2 DEF WriteConfig, CallsInv, TypeOK
  <1>3. ASSUME NEW s \in Scopes, NEW setting \in Setting PROVE ~TruncateConfig(s, setting)
    BY <1>1 DEF TruncateConfig
  <1>4. \/ config' = config
        \/ \E s \in Scopes : WriteConfig(s)
        \/ \E s \in Scopes, setting \in Setting : TruncateConfig(s, setting)
    BY DEF Next, vars, Evaluate, ReadConfig, Describe, ComputeLiveMetrics, ReadReleases,
       WriteReleases, ListConfigs, Boot, Tick, Crash, Minute, StartRun, EndRun, Ask, Publish,
       DecideByHand
  <1>5. QED
    BY <1>1, <1>2, <1>3, <1>4

LEMMA InCanaryStep == CallsInv /\ AskedInv /\ InCanaryInv /\ [Next]_vars => InCanaryInv'
  <1> DEFINE local == evaluator[Timer]
             new == evaluator'[Timer]
  <1> SUFFICES ASSUME CallsInv, AskedInv, InCanaryInv, [Next]_vars, asks' = 0, rivals' = 0,
                      new.pc \in {"metrics", "read"}
               PROVE  release'[Scope(Timer)'].status = "CANARY"
    BY DEF InCanaryInv
  <1>1. Timer \in Evaluators
    BY DEF Evaluators
  <1>2. /\ asks = 0 /\ rivals = 0
        /\ local.pc \in {"metrics", "read"} => release[Scope(Timer)].status = "CANARY"
    BY CountersMove DEF InCanaryInv
  <1>3. ASSUME new.todo = local.todo PROVE Scope(Timer)' = Scope(Timer)
    BY <1>3 DEF Scope
  <1>4. CASE new = local
    <2>1. Scope(Timer) \in Scopes /\ Scope(Timer)' = Scope(Timer)
      BY <1>1, <1>3, <1>4, Typing
    <2>2. \/ release'[Scope(Timer)] = release[Scope(Timer)]
          \/ IsNew(release'[Scope(Timer)])
      BY <1>4, <2>1, ReleaseMovesAlone
    <2>3. QED
      BY <1>2, <1>4, <2>1, <2>2 DEF IsNew
  <1>5. CASE /\ StaysPut(Timer) /\ local.pc = "describe" /\ new.pc = "metrics"
             /\ release[Scope(Timer)].status = "CANARY"
    BY <1>3, <1>5 DEF StaysPut
  <1>6. CASE StaysPut(Timer) /\ local.pc = "metrics" /\ new.pc = "read"
    BY <1>2, <1>3, <1>6 DEF StaysPut
  <1>7. QED
    BY <1>1, <1>4, <1>5, <1>6, CallMoves DEF Early

(* The process ends by a fault, by a torn file or by the tick's second     *)
(* reading of a release that is no longer in canary.                       *)
LEMMA EndIs ==
  ASSUME CallsInv, [Next]_vars, up, ~up'
  PROVE  \/ Fault
         \/ \E s \in Scopes : config[s] = Torn
         \/ /\ evaluator[Timer].pc = "read" /\ Scope(Timer) \in Scopes
            /\ release[Scope(Timer)].status # "CANARY"
  <1>1. up' # up
    OBVIOUS
  <1>2. ASSUME NEW e \in Evaluators, ReadConfig(e) \/ Describe(e) PROVE FALSE
    BY <1>1, <1>2, ConfigIs, DescribeIs
  <1>3. ASSUME NEW e \in Evaluators, ComputeLiveMetrics(e) \/ WriteReleases(e) PROVE Fault
    BY <1>1, <1>3, MetricsIs, WriteIs
  <1>4. ASSUME NEW e \in Evaluators, ReadReleases(e)
        PROVE  /\ evaluator[Timer].pc = "read" /\ Scope(Timer) \in Scopes
               /\ release[Scope(Timer)].status # "CANARY"
    <2>1. evaluator[e].pc = "read" /\ release[Scope(e)].status # "CANARY" /\ Ended(e)
      BY <1>1, <1>4, ReadIs
    <2>2. e = Timer
      BY <1>1, <2>1 DEF Ended
    <2>3. Scope(e) \in Scopes
      BY <2>1, Typing
    <2>4. QED
      BY <2>1, <2>2, <2>3
  <1>5. ListConfigs => \E s \in Scopes : config[s] = Torn
    BY <1>1, ListIs
  <1>6. ~Boot /\ ~Tick
    BY BootIs
  <1>7. Crash => Fault
    BY DEF Crash
  <1>8. \/ \E e \in Evaluators : Evaluate(e)
        \/ ListConfigs \/ Boot \/ Tick \/ Crash \/ up' = up
    BY DEF Next, vars, Minute, Publish, StartRun, EndRun, WriteConfig, DecideByHand,
       TruncateConfig, Ask, Goto
  <1>9. QED
    BY <1>1, <1>2, <1>3, <1>4, <1>5, <1>6, <1>7, <1>8 DEF Evaluate

(* The automation alone never ends the server: with no PUT, no decision by *)
(* hand and no client's call so far, the process ends only by a fault, for *)
(* any scopes and any policy.                                              *)
THEOREM AloneItStaysUp == Spec => AutomationAloneStaysUp
  <1> DEFINE Stays == up /\ ~up' => faults' > faults \/ puts > 0 \/ rivals > 0 \/ asks > 0
  <1>1. Init => AskedInv /\ WholeInv /\ InCanaryInv
    <2> SUFFICES ASSUME Init PROVE AskedInv /\ WholeInv /\ InCanaryInv
      OBVIOUS
    <2>1. \A e \in Evaluators : evaluator[e].pc = "idle"
      BY IdleIs DEF Init
    <2>2. \A s \in Scopes : config[s] \in Setting
      BY DEF Init
    <2>3. QED
      BY <2>1, <2>2 DEF AskedInv, WholeInv, InCanaryInv, Evaluators
  <1>2. CallsInv /\ WholeInv /\ InCanaryInv /\ [Next]_vars => [Stays]_vars
    <2> SUFFICES ASSUME CallsInv, WholeInv, InCanaryInv, [Next]_vars, up, ~up'
                 PROVE  faults' > faults \/ puts > 0 \/ rivals > 0 \/ asks > 0
      OBVIOUS
    <2>1. {rivals, puts, asks, faults} \subseteq Nat
      BY DEF CallsInv, TypeOK
    <2>2. Fault => faults' > faults
      BY <2>1 DEF Fault
    <2>3. (\E s \in Scopes : config[s] = Torn) => puts > 0
      <3>1. Torn \notin Setting
        BY DEF Setting
      <3>2. QED
        BY <2>1, <3>1 DEF WholeInv
    <2>4. CASE /\ evaluator[Timer].pc = "read" /\ release[Scope(Timer)].status # "CANARY"
      BY <2>1, <2>4 DEF InCanaryInv
    <2>5. QED
      BY <2>2, <2>3, <2>4, EndIs
  <1>3. QED
    BY <1>1, <1>2, AskedStep, WholeStep, InCanaryStep, CallsAreTyped, PTL
    DEF Spec, AutomationAloneStaysUp
=============================================================================
