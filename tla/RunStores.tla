----------------------------- MODULE RunStores ------------------------------
(***************************************************************************)
(* The calls of the JobStore interface that write, and what the calls that *)
(* read find meanwhile.  In a database a call is one statement.            *)
(* FileJobStore keeps a JSON file per run, one for its events, and the     *)
(* review queue; a call reads, truncates and writes files one after the    *)
(* other, and nothing keeps two calls apart.  A reader cannot tell a file  *)
(* that is not there from one it cannot parse.  What the callers make of a *)
(* row they have read is the business of RunLifecycle and ReviewWorkflow.  *)
(***************************************************************************)
EXTENDS Naturals, FiniteSets, SequencesExt, SequenceFilters

CONSTANTS Runs,
          Callers,     \* calls that may be in flight at the same time
          Nothing,     \* no row; a file that is not there, empty or torn
          InitialRows, \* what earlier processes may have left
          MaxWrites,   \* bound: calls that write
          MaxTime      \* bound: the clock

State == {"VERIFIED", "UNCERTAIN", "NEEDS_REVIEW"}
Decision == {"VERIFY", "MARK_UNCERTAIN", "KEEP_NEEDS_REVIEW"}
Row == [status : {"QUEUED", "RUNNING", "COMPLETED", "FAILED"}, createdAt : Nat,
        updatedAt : Nat, state : State \cup {Nothing}, assignedAt : Nat \cup {Nothing},
        decision : Decision \cup {Nothing}]
Item == [run : Runs, createdAt : Nat, assignedAt : Nat \cup {Nothing}]

ASSUME StoresAssumption ==
    /\ InitialRows \subseteq [Runs -> Row \cup {Nothing}]
    /\ MaxWrites \in Nat /\ MaxTime \in Nat
    /\ Nothing \notin Runs \cup Row

(* A decision is stored with the state it leads to. *)
DecisionFits(row) ==
    row # Nothing /\ row.decision # Nothing =>
        /\ row.status = "COMPLETED"
        /\ row.decision = "KEEP_NEEDS_REVIEW" => row.state = "NEEDS_REVIEW"

ASSUME RowsAssumption ==
    /\ IsFiniteSet(Runs) /\ Nothing \notin Decision
    /\ \A table \in InitialRows, r \in Runs : DecisionFits(table[r])

VARIABLES kind,   \* the store: "database" or "file"
          rows,   \* rows[r]: the row of run r, or what its file parses to
          log,    \* log[r]: the events of run r as they are stored
          queue,  \* review-queue.json: a set of items, or Nothing
          call,   \* call[c]: a call in flight and its locals
          now,    \* the clock
          asked,  \* history: what the rows and logs are after every call begun
          clash,  \* history: the runs two calls were about at the same time
          fresh,  \* history: the last rewriting of the queue ran alone
          writes

stores == <<kind, rows, log, queue, call, now, asked, clash, fresh, writes>>

Idle == [pc |-> "idle", op |-> Nothing, run |-> Nothing, row |-> Nothing,
         event |-> Nothing, seen |-> << >>, left |-> {}]
Busy(c) == call[c].pc # "idle"
Resting == \A c \in Callers : ~Busy(c)

(* A reader finds these events of a run: by created_at, ties in any order. *)
Listings(r) ==
    LET events == ToSet(log[r])
    IN  {list \in [1..Cardinality(events) -> events] :
            /\ ToSet(list) = events
            /\ \A i, j \in DOMAIN list : i < j => list[i].at <= list[j].at}

(* The review queue of a list of rows. *)
Waiting(table) ==
    {[run |-> r, createdAt |-> table[r].updatedAt, assignedAt |-> table[r].assignedAt] :
        r \in {x \in DOMAIN table : /\ table[x] # Nothing
                                    /\ table[x].status = "COMPLETED"
                                    /\ table[x].state = "NEEDS_REVIEW"}}

OldestQueued(table) ==
    LET queued == {r \in DOMAIN table : table[r] # Nothing /\ table[r].status = "QUEUED"}
    IN  {r \in queued : \A x \in queued : table[r].createdAt <= table[x].createdAt}

StoresInit ==
    /\ kind \in {"database", "file"}
    /\ rows \in InitialRows
    /\ log = [r \in Runs |-> << >>]
    /\ queue = IF kind = "file" THEN Waiting(rows) ELSE Nothing
    /\ call = [c \in Callers |-> Idle]
    /\ now = 1
    /\ asked = [rows |-> rows, log |-> log]
    /\ clash = {} /\ fresh = TRUE /\ writes = 0
-----------------------------------------------------------------------------
(* The rows the handlers and the loop write over one they have read.       *)

Completed(row, state) ==
    [row EXCEPT !.status = "COMPLETED", !.state = state, !.updatedAt = now]
Assigned(row) == [row EXCEPT !.assignedAt = now, !.updatedAt = now]
Decided(row, decision) ==
    [row EXCEPT !.decision = decision, !.updatedAt = now,
                !.state = CASE decision = "VERIFY" -> "VERIFIED"
                            [] decision = "MARK_UNCERTAIN" -> "UNCERTAIN"
                            [] OTHER -> "NEEDS_REVIEW"]

NextRows(row) ==
    IF row.status = "RUNNING"
    THEN {Completed(row, "VERIFIED"), Completed(row, "NEEDS_REVIEW"),
          [row EXCEPT !.status = "FAILED", !.updatedAt = now]}
    ELSE IF row.status = "COMPLETED"
    THEN {Assigned(row)} \cup {Decided(row, d) : d \in Decision}
    ELSE {}
NewRow == [status |-> "QUEUED", createdAt |-> now, updatedAt |-> now, state |-> Nothing,
           assignedAt |-> Nothing, decision |-> Nothing]
Claimed(row) == [row EXCEPT !.status = "RUNNING", !.updatedAt = now]
-----------------------------------------------------------------------------
(* A call is about its run; a claim is about none until it has chosen.     *)
About(c) == IF Busy(c) THEN {call[c].run} \ {Nothing} ELSE {}
Rewriting(c) == Busy(c) /\ \/ call[c].op \in {"update", "refresh"}
                           \/ call[c].op = "claim" /\ call[c].run # Nothing
Others(c) == Callers \ {c}
Clashing(c, r) == clash \cup {x \in {r} : \E d \in Others(c) : r \in About(d)}
Alone(c) == \A d \in Others(c) : ~Rewriting(d)

FirstStep(op) ==
    IF kind = "database" THEN "statement"
    ELSE CASE op \in {"create", "update"} -> "openRow"
           [] op = "append"               -> "readLog"
           [] op \in {"claim", "refresh"} -> "list"

Start(c, request) ==
    /\ ~Busy(c)
    /\ call' = [call EXCEPT ![c] = [request EXCEPT !.pc = FirstStep(request.op), !.left = Runs]]
    /\ clash' = IF request.run = Nothing THEN clash ELSE Clashing(c, request.run)
    /\ fresh' = IF request.op \in {"update", "refresh"} THEN Alone(c) ELSE fresh
    /\ UNCHANGED <<kind, rows, log, queue, now>>
Write == writes < MaxWrites /\ writes' = writes + 1

CreateJob(c, r) ==
    /\ Write
    /\ asked.rows[r] = Nothing
    /\ Start(c, [Idle EXCEPT !.op = "create", !.run = r, !.row = NewRow])
    /\ asked' = [asked EXCEPT !.rows[r] = NewRow]

UpdateJob(c, r) ==
    /\ Write
    /\ rows[r] # Nothing
    /\ \E row \in NextRows(rows[r]) :
          /\ Start(c, [Idle EXCEPT !.op = "update", !.run = r, !.row = row])
          /\ asked' = [asked EXCEPT !.rows[r] = row]

(* The event is stamped before the call. *)
AppendRunEvent(c, r) ==
    LET event == [id |-> writes', at |-> now]
    IN  /\ Write
        /\ asked.rows[r] # Nothing
        /\ Start(c, [Idle EXCEPT !.op = "append", !.run = r, !.event = event])
        /\ asked' = [asked EXCEPT !.log[r] = Append(@, event)]

ClaimNextQueuedJob(c) ==
    /\ Write
    /\ Start(c, [Idle EXCEPT !.op = "claim"])
    /\ UNCHANGED asked

Goto(c, pc) == call' = [call EXCEPT ![c].pc = pc]
Return(c) == call' = [call EXCEPT ![c] = Idle]

(* The one SQL statement of a call to a database. *)
Statement(c) ==
    LET r == call[c].run
    IN  /\ call[c].pc = "statement"
        /\ \/ /\ call[c].op \in {"create", "update"}
              /\ rows' = [rows EXCEPT ![r] = call[c].row]
              /\ UNCHANGED <<log, asked>>
           \/ /\ call[c].op = "append"
              /\ log' = [log EXCEPT ![r] = Append(@, call[c].event)]
              /\ UNCHANGED <<rows, asked>>
           \/ /\ call[c].op = "claim"
              /\ \/ OldestQueued(rows) = {} /\ UNCHANGED <<rows, asked>>
                 \/ \E x \in OldestQueued(rows) :
                       /\ rows' = [rows EXCEPT ![x] = Claimed(@)]
                       /\ asked' = [asked EXCEPT !.rows[x] = Claimed(@)]
              /\ UNCHANGED log
        /\ Return(c)
        /\ UNCHANGED <<kind, queue, now, clash, fresh, writes>>
-----------------------------------------------------------------------------
(* FileJobStore.  writeFile truncates the file when it opens it; if another *)
(* call has written since, the longer of the two texts sticks out.         *)

Overwritten(file, content, empty) == IF file = empty THEN {content} ELSE {content, empty}

OpenRow(c) ==
    /\ call[c].pc = "openRow"
    /\ rows' = [rows EXCEPT ![call[c].run] = Nothing]
    /\ Goto(c, "writeRow")
    /\ UNCHANGED <<kind, log, queue, now, asked, clash, fresh, writes>>

(* updateJob refreshes the review queue after it has written the row. *)
WriteRow(c) ==
    LET r == call[c].run
    IN  /\ call[c].pc = "writeRow"
        /\ \E file \in Overwritten(rows[r], call[c].row, Nothing) : rows' = [rows EXCEPT ![r] = file]
        /\ IF call[c].op = "create" THEN Return(c)
           ELSE call' = [call EXCEPT ![c].pc = "list", ![c].seen = << >>, ![c].left = Runs]
        /\ UNCHANGED <<kind, log, queue, now, asked, clash, fresh, writes>>

Noted(table, r, row) == [x \in DOMAIN table \cup {r} |-> IF x = r THEN row ELSE table[x]]

(* listJobs reads the files in any order, each at a moment of its own. *)
ReadRow(c) ==
    /\ call[c].pc = "list"
    /\ \E r \in call[c].left :
          call' = [call EXCEPT ![c].left = @ \ {r}, ![c].seen = Noted(@, r, rows[r])]
    /\ UNCHANGED <<kind, rows, log, queue, now, asked, clash, fresh, writes>>

Listed(c) == call[c].pc = "list" /\ call[c].left = {}
Choosing(c) == call[c].op = "claim" /\ call[c].run = Nothing

(* A claim writes back the copy it has listed, RUNNING.  It clashes with   *)
(* a call that has changed the row since, too.                             *)
ChooseRow(c) ==
    /\ Listed(c) /\ Choosing(c)
    /\ IF OldestQueued(call[c].seen) = {}
       THEN Return(c) /\ UNCHANGED <<asked, clash, fresh>>
       ELSE \E r \in OldestQueued(call[c].seen) :
              /\ call' = [call EXCEPT ![c].pc = "openRow", ![c].run = r,
                                      ![c].row = Claimed(call[c].seen[r])]
              /\ asked' = [asked EXCEPT !.rows[r] = Claimed(@)]
              /\ clash' = Clashing(c, r) \cup {x \in {r} : rows[x] # call[c].seen[x]}
              /\ fresh' = Alone(c)
    /\ UNCHANGED <<kind, rows, log, queue, now, writes>>

OpenQueue(c) ==
    /\ Listed(c) /\ ~Choosing(c)
    /\ queue' = Nothing
    /\ Goto(c, "writeQueue")
    /\ UNCHANGED <<kind, rows, log, now, asked, clash, fresh, writes>>

WriteQueue(c) ==
    /\ call[c].pc = "writeQueue"
    /\ queue' \in Overwritten(queue, Waiting(call[c].seen), Nothing)
    /\ Return(c)
    /\ UNCHANGED <<kind, rows, log, now, asked, clash, fresh, writes>>

(* Slip: the file is opened before it is read. *)
ReadLogOpened(c) ==
    /\ call[c].pc = "readLog"
    /\ call' = [call EXCEPT ![c].pc = "openLog", ![c].seen = << >>]
    /\ UNCHANGED <<kind, rows, log, queue, now, asked, clash, fresh, writes>>

(* A file of events that cannot be read is taken for an empty one. *)
ReadLog(c) ==
    /\ call[c].pc = "readLog"
    /\ call' = [call EXCEPT ![c].pc = "openLog", ![c].seen = log[call[c].run]]
    /\ UNCHANGED <<kind, rows, log, queue, now, asked, clash, fresh, writes>>

OpenLog(c) ==
    /\ call[c].pc = "openLog"
    /\ log' = [log EXCEPT ![call[c].run] = << >>]
    /\ Goto(c, "writeLog")
    /\ UNCHANGED <<kind, rows, queue, now, asked, clash, fresh, writes>>

Inserted(events, event) ==
    LET before == {e \in ToSet(events) : e.at <= event.at}
    IN  Kept(events, before) \o <<event>> \o Kept(events, ToSet(events) \ before)

WriteLog(c) ==
    LET r == call[c].run
    IN  /\ call[c].pc = "writeLog"
        /\ \E file \in Overwritten(log[r], Inserted(call[c].seen, call[c].event), << >>) :
              log' = [log EXCEPT ![r] = file]
        /\ Return(c)
        /\ UNCHANGED <<kind, rows, queue, now, asked, clash, fresh, writes>>

Work(c) == \/ Statement(c) \/ OpenRow(c) \/ WriteRow(c) \/ ReadRow(c) \/ ChooseRow(c)
           \/ OpenQueue(c) \/ WriteQueue(c) \/ ReadLog(c) \/ OpenLog(c) \/ WriteLog(c)

Request(c) == \/ \E r \in Runs : CreateJob(c, r) \/ UpdateJob(c, r) \/ AppendRunEvent(c, r)
              \/ ClaimNextQueuedJob(c)

Wait == /\ now < MaxTime /\ now' = now + 1
        /\ UNCHANGED <<kind, rows, log, queue, call, asked, clash, fresh, writes>>

(* The process ends: what its calls have done so far stays. *)
LoseCalls ==
    /\ call' = [c \in Callers |-> Idle]
    /\ clash' = clash \cup UNION {About(c) : c \in Callers}
    /\ fresh' = (fresh /\ \A c \in Callers : ~Rewriting(c))
    /\ UNCHANGED <<kind, rows, log, queue, now, asked, writes>>
-----------------------------------------------------------------------------
(* Properties. *)

(* Calls about different runs may overlap: as long as no two were about    *)
(* one run at a time and none was cut short, its row and its events are    *)
(* what the callers wrote, in a database and in files; and the file of the *)
(* review queue, which every update rewrites from a list, is right again   *)
(* once an update has run alone.                                           *)
CallsApartLoseNothing ==
    /\ \A r \in Runs \ clash :
          (\A c \in Callers : r \notin About(c)) =>
              /\ rows[r] = asked.rows[r]
              /\ ToSet(log[r]) = ToSet(asked.log[r])
              /\ kind = "file" => \A i, j \in DOMAIN log[r] : i < j => log[r][i].at <= log[r][j].at
    /\ kind = "file" /\ fresh /\ queue # Nothing /\ (\A c \in Callers : ~Rewriting(c)) =>
          queue = Waiting(rows)
=============================================================================
