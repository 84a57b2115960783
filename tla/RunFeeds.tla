------------------------------ MODULE RunFeeds ------------------------------
(***************************************************************************)
(* What the HTTP server tells of the runs while the store is being written *)
(* to: the event stream of a run (GET /v1/runs/:id/stream) and the review  *)
(* queue with its analytics (GET /v1/review-analytics).  Every await is a  *)
(* step of its own.  The server is one process.                            *)
(***************************************************************************)
EXTENDS RunStores, Totals

CONSTANTS Streams,      \* requests for a stream
          Readers,      \* requests for the analytics: callers that may refresh the queue
          ScopeOf,      \* the use case of a run
          DefaultScope, \* "support", taken for a run that is not in the list
          Targets,      \* SLA targets a configuration may name, in minutes
          DefaultTarget,
          MaxFlights,   \* bound: overlapping polls of one stream
          MaxPuts,      \* bound: PUTs of a configuration
          MaxFaults     \* bound: calls that throw, plus process deaths

Scopes == {ScopeOf[r] : r \in Runs}

ASSUME FeedsAssumption ==
    /\ Readers \subseteq Callers
    /\ DefaultTarget \in Targets /\ Targets \subseteq Nat
    /\ {MaxFlights, MaxPuts, MaxFaults} \subseteq Nat

VARIABLES stream, \* stream[s]: a connection and its handler
          reader, \* reader[q]: a request for the analytics and its locals
          config, \* config[u]: the SLA target of use case u
          puts, faults

vars == <<stores, stream, reader, config, puts, faults>>

(* A poll is not under way, has been sent to the store, or has its events. *)
NoPoll == [pc |-> "none", list |-> << >>]
Asked == [NoPoll EXCEPT !.pc = "asked"]
Flight == 1..MaxFlights

NoStream == [pc |-> "unused", run |-> Nothing, sent |-> << >>,
             poll |-> [f \in Flight |-> NoPoll],
             timer |-> FALSE,     \* the interval and the listener for the close
             stopped |-> FALSE,
             gone |-> FALSE]      \* the client has closed the connection
NoReader == [pc |-> "idle", todo |-> {}, queue |-> {}, before |-> Nothing,
             after |-> Nothing, policy |-> << >>, at |-> 0]

Init == /\ StoresInit
        /\ stream = [s \in Streams |-> NoStream]
        /\ reader = [q \in Readers |-> NoReader]
        /\ config \in [Scopes -> {DefaultTarget}]
        /\ puts = 0 /\ faults = 0

Fault == faults < MaxFaults /\ faults' = faults + 1

(* The process dies, or an unhandled rejection ends it. *)
Exit == /\ LoseCalls
        /\ stream' = [s \in Streams |-> IF stream[s].pc = "unused" THEN NoStream
                                        ELSE [stream[s] EXCEPT !.pc = "ended"]]
        /\ reader' = [q \in Readers |-> IF reader[q].pc = "idle" THEN NoReader
                                        ELSE [NoReader EXCEPT !.pc = "failed"]]

Die == Fault /\ Exit /\ UNCHANGED <<config, puts>>
-----------------------------------------------------------------------------
(* The event stream. *)

Become(s, next) == stream' = [stream EXCEPT ![s] = next]
Elsewhere == <<stores, reader, config, puts>>

Connect(s, r) ==
    /\ stream[s].pc = "unused"
    /\ Become(s, [NoStream EXCEPT !.pc = "find", !.run = r])
    /\ UNCHANGED <<Elsewhere, faults>>

(* 404 for a run that is not there. *)
FindRun(s) ==
    /\ stream[s].pc = "find"
    /\ Become(s, [stream[s] EXCEPT !.pc = IF rows[stream[s].run] = Nothing THEN "ended" ELSE "audit"])
    /\ UNCHANGED <<Elsewhere, faults>>

(* After the audit event the headers go out and the first poll begins. *)
AuditAndOpen(s) ==
    /\ stream[s].pc = "audit"
    /\ \/ /\ Become(s, [stream[s] EXCEPT !.pc = "open", !.poll[1] = Asked])
          /\ UNCHANGED faults
       \/ Fault /\ Become(s, [stream[s] EXCEPT !.pc = "ended"])
    /\ UNCHANGED Elsewhere

(* The interval fires: another poll begins, also beside one under way. *)
Tick(s) ==
    /\ stream[s].pc = "open" /\ stream[s].timer /\ ~stream[s].stopped
    /\ \E f \in Flight : /\ stream[s].poll[f] = NoPoll
                         /\ Become(s, [stream[s] EXCEPT !.poll[f] = Asked])
    /\ UNCHANGED <<Elsewhere, faults>>

(* listRunEvents: the store answers. *)
Poll(s, f) ==
    LET r == stream[s].run
    IN  /\ stream[s].pc = "open" /\ stream[s].poll[f] = Asked
        /\ \E list \in IF kind = "file" THEN {log[r]} ELSE Listings(r) :
              Become(s, [stream[s] EXCEPT !.poll[f] = [pc |-> "got", list |-> list]])
        /\ UNCHANGED <<Elsewhere, faults>>

Unsent(list, sent) == Kept(list, ToSet(list) \ ToSet(sent))

(* Slip: what has been sent is counted, not remembered. *)
FlushCounted(s, f) ==
    /\ stream[s].pc = "open" /\ stream[s].poll[f].pc = "got"
    /\ LET list == stream[s].poll[f].list
       IN  Become(s, [stream[s] EXCEPT !.sent = @ \o SubSeq(list, Len(@) + 1, Len(list)),
                                       !.poll[f] = NoPoll, !.timer = ~stream[s].stopped])
    /\ UNCHANGED <<Elsewhere, faults>>

(* What has not been sent is sent, without an await in between.  After the *)
(* first poll the interval is set and the close of the connection listened *)
(* for.                                                                    *)
Flush(s, f) ==
    /\ stream[s].pc = "open" /\ stream[s].poll[f].pc = "got"
    /\ Become(s, [stream[s] EXCEPT !.sent = @ \o Unsent(stream[s].poll[f].list, @),
                                   !.poll[f] = NoPoll, !.timer = ~stream[s].stopped])
    /\ UNCHANGED <<Elsewhere, faults>>

(* Slip: an error ends the interval. *)
PollThrowsForGood(s, f) ==
    /\ stream[s].pc = "open" /\ stream[s].poll[f] = Asked
    /\ Fault
    /\ Become(s, [stream[s] EXCEPT !.poll[f] = NoPoll, !.timer = FALSE])
    /\ UNCHANGED <<Elsewhere>>

(* A poll that throws: on a tick the client gets an error frame, and the   *)
(* interval goes on.  The first poll is awaited by the handler, whose      *)
(* answer of 500 throws because the headers are out, and nothing handles   *)
(* that rejection.                                                         *)
PollThrows(s, f) ==
    /\ stream[s].pc = "open" /\ stream[s].poll[f] = Asked
    /\ Fault
    /\ IF stream[s].timer \/ stream[s].stopped
       THEN Become(s, [stream[s] EXCEPT !.poll[f] = NoPoll]) /\ UNCHANGED <<stores, reader>>
       ELSE Exit
    /\ UNCHANGED <<config, puts>>

(* A close that comes before the listener is not heard: the interval will  *)
(* poll for nobody.                                                        *)
Disconnect(s) ==
    /\ stream[s].pc \in {"find", "audit", "open"} /\ ~stream[s].gone
    /\ Become(s, [stream[s] EXCEPT !.gone = TRUE, !.stopped = stream[s].timer, !.timer = FALSE])
    /\ UNCHANGED <<Elsewhere, faults>>
-----------------------------------------------------------------------------
(* The review queue and its analytics: three lists are asked for at once,  *)
(* the queue and the jobs twice.                                           *)

SetReader(q, next) == reader' = [reader EXCEPT ![q] = next]
Beside == <<stream, config, puts, faults>>

AskAnalytics(q) ==
    /\ reader[q].pc = "idle" /\ ~Busy(q)
    /\ SetReader(q, [NoReader EXCEPT !.pc = "reading", !.todo = {"queue", "before", "after"}])
    /\ UNCHANGED <<stores, Beside>>

Got(q, what) == reader[q].pc = "reading" /\ what \in reader[q].todo /\ ~Busy(q)

(* A database works the queue out from the rows. *)
ReadQueue(q) ==
    /\ Got(q, "queue")
    /\ kind = "file" => queue # Nothing
    /\ SetReader(q, [reader[q] EXCEPT !.todo = @ \ {"queue"},
                        !.queue = IF kind = "file" THEN queue ELSE Waiting(rows)])
    /\ UNCHANGED <<stores, Beside>>

(* A file that cannot be read is written anew, and read again. *)
RefreshQueue(q) ==
    /\ Got(q, "queue")
    /\ kind = "file" /\ queue = Nothing
    /\ Start(q, [Idle EXCEPT !.op = "refresh"])
    /\ UNCHANGED <<asked, writes, reader, Beside>>

ReadJobs(q) ==
    /\ \E what \in {"before", "after"} :
          /\ reader[q].pc = "reading" /\ what \in reader[q].todo
          /\ SetReader(q, IF what = "before"
                          THEN [reader[q] EXCEPT !.todo = @ \ {what}, !.before = rows]
                          ELSE [reader[q] EXCEPT !.todo = @ \ {what}, !.after = rows])
    /\ UNCHANGED <<stores, Beside>>

Known(q) == {i.run : i \in {x \in reader[q].queue : reader[q].before[x.run] # Nothing}}

(* Slip: the configuration is read for every item. *)
ResolvedPolicyAnew(q, r) == config[ScopeOf[r]]

(* resolveTenantAdminConfig with the cache of this request. *)
ResolvedPolicy(q, r) ==
    LET cached == {x \in DOMAIN reader[q].policy : ScopeOf[x] = ScopeOf[r]}
    IN  IF cached = {} THEN config[ScopeOf[r]] ELSE reader[q].policy[CHOOSE x \in cached : TRUE]

(* The policy of the next item whose run is in the list. *)
ReadPolicy(q) ==
    /\ reader[q].pc = "reading" /\ reader[q].todo \subseteq {"after"}
    /\ \E r \in Known(q) \ DOMAIN reader[q].policy :
          SetReader(q, [reader[q] EXCEPT !.policy = Noted(@, r, ResolvedPolicy(q, r))])
    /\ UNCHANGED <<stores, Beside>>

Answer(q) ==
    /\ reader[q].pc = "reading" /\ reader[q].todo = {}
    /\ Known(q) \subseteq DOMAIN reader[q].policy
    /\ SetReader(q, [reader[q] EXCEPT !.pc = "answered", !.at = now])
    /\ UNCHANGED <<stores, Beside>>

ReaderFails(q) ==
    /\ reader[q].pc = "reading" /\ ~Busy(q)
    /\ Fault
    /\ SetReader(q, [NoReader EXCEPT !.pc = "failed"])
    /\ UNCHANGED <<stores, stream, config, puts>>

PutConfig(u) ==
    /\ puts < MaxPuts /\ puts' = puts + 1
    /\ \E t \in Targets \ {config[u]} : config' = [config EXCEPT ![u] = t]
    /\ UNCHANGED <<stores, stream, reader, faults>>

(* The numbers of an answer.  An item whose run is missing from the list   *)
(* it is looked up in has the policy of the service or the default scope.  *)
PolicyOf(q, item) ==
    IF item.run \in DOMAIN reader[q].policy THEN reader[q].policy[item.run] ELSE DefaultTarget
ScopeIn(q, item) == IF reader[q].after[item.run] = Nothing THEN DefaultScope ELSE ScopeOf[item.run]
AgeOf(q, item) ==
    Max({0, reader[q].at - (IF item.assignedAt = Nothing THEN item.createdAt ELSE item.assignedAt)})
ConfiguredPolicies(q) ==
    [u \in {ScopeIn(q, i) : i \in reader[q].queue} |->
        LET items == {i \in reader[q].queue : ScopeIn(q, i) = u}
        IN  [runCount |-> Cardinality(items), targets |-> {PolicyOf(q, i) : i \in items}]]
DecisionCounts(q) ==
    [d \in Decision |-> Cardinality({r \in Runs : /\ reader[q].after[r] # Nothing
                                                  /\ reader[q].after[r].decision = d})]
Overdue(q, items) == {i \in items : AgeOf(q, i) >= PolicyOf(q, i)}
Analytics(q) ==
    LET items == reader[q].queue
        assigned == {i \in items : i.assignedAt # Nothing}
    IN  [pending |-> Cardinality(items), assigned |-> Cardinality(assigned),
         decisions |-> DecisionCounts(q), policies |-> ConfiguredPolicies(q),
         assignedOverdue |-> Cardinality(Overdue(q, assigned)),
         unassignedOverdue |-> Cardinality(Overdue(q, items \ assigned)),
         oldestPending |-> Max({0} \cup {AgeOf(q, i) : i \in items \ assigned}),
         oldestAssigned |-> Max({0} \cup {AgeOf(q, i) : i \in assigned})]
-----------------------------------------------------------------------------
Streaming(s) == \/ \E r \in Runs : Connect(s, r)
                \/ FindRun(s) \/ AuditAndOpen(s) \/ Tick(s) \/ Disconnect(s)
                \/ \E f \in Flight : Poll(s, f) \/ Flush(s, f) \/ PollThrows(s, f)
Reading(q) == \/ AskAnalytics(q) \/ ReadQueue(q) \/ RefreshQueue(q) \/ ReadJobs(q)
              \/ ReadPolicy(q) \/ Answer(q) \/ ReaderFails(q)

Next == \/ /\ \/ \E c \in Callers : Work(c)
              \/ \E c \in Callers \ Readers : Request(c)
              \/ Wait
           /\ UNCHANGED <<stream, reader, config, puts, faults>>
        \/ \E s \in Streams : Streaming(s)
        \/ \E q \in Readers : Reading(q)
        \/ \E u \in Scopes : PutConfig(u)
        \/ Die

Spec == Init /\ [][Next]_vars

(* setInterval keeps firing and a poll of the store ends. *)
FairSpec == Spec /\ \A s \in Streams : /\ WF_vars(Tick(s))
                                       /\ WF_vars(\E f \in Flight : Poll(s, f))
                                       /\ WF_vars(\E f \in Flight : Flush(s, f))
-----------------------------------------------------------------------------
(* Properties. *)

Ids(events) == {e.id : e \in ToSet(events)}

(* However the polls of a stream overlap, a client gets no event twice and *)
(* only events of the run; and an event that is stamped earlier than one   *)
(* sent before it was stored after that one.                               *)
StreamTellsEachOnce ==
    \A s \in Streams :
        LET sent == stream[s].sent
            PlaceOf(e) == CHOOSE i \in DOMAIN log[stream[s].run] : log[stream[s].run][i] = e
        IN  /\ Cardinality(ToSet(sent)) = Len(sent)
            /\ \A e \in ToSet(sent) : e \in ToSet(asked.log[stream[s].run])
            /\ kind = "database" => \A i, j \in DOMAIN sent :
                  i < j /\ sent[i].at > sent[j].at => PlaceOf(sent[i]) < PlaceOf(sent[j])

(* An open stream catches up with the log of its run: an event that stays  *)
(* in it is sent, unless the client leaves or the process ends.            *)
Watching(s) == stream[s].pc = "open" /\ ~stream[s].gone
OpenStreamCatchesUp ==
    \A s \in Streams, id \in 1..MaxWrites :
        (Watching(s) /\ id \in Ids(log[stream[s].run]))
            ~> (~Watching(s) \/ id \in Ids(stream[s].sent) \/ id \notin Ids(log[stream[s].run]))

(* The lists behind an answer are read at different moments while runs     *)
(* complete, are reviewed and their policies changed: every pending run is *)
(* still counted once, the runs of a use case that were found are measured *)
(* by one policy, the reported one, and when the queue and the list agree  *)
(* pending, verified and uncertain runs are all that completed.            *)
AnalyticsAddUp ==
    \A q \in Readers : reader[q].pc = "answered" =>
        LET a == Analytics(q)
            Ended(state) == {r \in Runs : /\ reader[q].after[r] # Nothing
                                              /\ reader[q].after[r].status = "COMPLETED"
                                              /\ reader[q].after[r].state \in state}
        IN  /\ SumOver([u \in DOMAIN a.policies |-> a.policies[u].runCount], DOMAIN a.policies) = a.pending
            /\ Known(q) = {i.run : i \in reader[q].queue} =>
                  \A u \in DOMAIN a.policies \ {DefaultScope} : Cardinality(a.policies[u].targets) = 1
            /\ reader[q].queue = Waiting(reader[q].after) =>
                  /\ a.pending = Cardinality(Ended(State)) - Cardinality(Ended({"VERIFIED", "UNCERTAIN"}))
                  /\ a.decisions["KEEP_NEEDS_REVIEW"] <= a.pending
                  /\ a.assigned + a.unassignedOverdue <= a.pending
=============================================================================
