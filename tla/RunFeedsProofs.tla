--------------------------- MODULE RunFeedsProofs ---------------------------
(***************************************************************************)
(* Proofs about RunFeeds: for any runs, callers, streams and readers, in a *)
(* database and in files, what calls about different runs keep, what the   *)
(* streams tell of the logs, and that the review analytics add up.         *)
(***************************************************************************)
EXTENDS RunFeeds, SequenceFilterProofs, SequenceTheorems, FiniteSetTheorems

USE StoresAssumption, FeedsAssumption

(* What the variables hold. *)
Event == [id : Nat, at : Nat]
Table == [Runs -> Row \cup {Nothing}]
Op == {"create", "update", "append", "claim", "refresh"}
RowSteps == {"openRow", "writeRow"}
ListSteps == {"list", "writeQueue"}
LogSteps == {"readLog", "openLog", "writeLog"}
Seen == Seq(Event) \cup UNION {[D -> Row \cup {Nothing}] : D \in SUBSET Runs}
Call == [pc : {"idle", "statement"} \cup RowSteps \cup ListSteps \cup LogSteps,
         op : Op \cup {Nothing}, run : Runs \cup {Nothing}, row : Row \cup {Nothing},
         event : Event \cup {Nothing}, seen : Seen, left : SUBSET Runs]

TypeInv ==
    /\ kind \in {"database", "file"}
    /\ rows \in Table /\ log \in [Runs -> Seq(Event)]
    /\ asked \in [rows : Table, log : [Runs -> Seq(Event)]]
    /\ call \in [Callers -> Call]
    /\ now \in Nat /\ writes \in Nat /\ fresh \in BOOLEAN

(* What a call has with it at each of its steps. *)
Rewrites(k) == k.op \in {"create", "update"} /\ k.run \in Runs /\ k.row \in Row
Appends(k) == k.op = "append" /\ k.run \in Runs /\ k.event \in Event
Shape(k) ==
    /\ k.pc = "statement" => /\ kind = "database"
                             /\ \/ Rewrites(k) \/ Appends(k)
                                \/ k.op = "claim" /\ k.run = Nothing
    /\ k.pc \in RowSteps => /\ kind = "file"
                            /\ k.op \in {"create", "update", "claim"}
                            /\ k.run \in Runs /\ k.row \in Row
    /\ k.pc \in ListSteps =>
          /\ kind = "file" /\ DOMAIN k.seen = Runs \ k.left
          /\ \A r \in DOMAIN k.seen : k.seen[r] \in Row \cup {Nothing}
          /\ \/ k.op = "update" /\ k.run \in Runs
             \/ k.op = "claim" /\ (k.pc = "writeQueue" => k.run \in Runs)
             \/ k.op = "refresh" /\ k.run = Nothing
    /\ k.pc = "writeQueue" => k.left = {}
    /\ k.pc \in LogSteps => kind = "file" /\ Appends(k)
    /\ k.pc \in {"openLog", "writeLog"} => k.seen \in Seq(Event)
    /\ k.pc # "idle" /\ k.op = "create" => k.row.status = "QUEUED"
ShapeInv == \A c \in Callers : Shape(call[c])

(* Until its file or its row is written, a new run is in no table, and the *)
(* only calls about it are the one that creates it and its events.         *)
Creates(c, r) == Busy(c) /\ call[c].op = "create" /\ call[c].run = r
Uncreated(r) == asked.rows[r] = Nothing \/ \E c \in Callers : Creates(c, r)
Lists(c) == call[c].pc \in ListSteps
UncreatedInv ==
    /\ \A r \in Runs : Uncreated(r) =>
          /\ rows[r] = Nothing
          /\ \A c \in Callers :
                /\ Lists(c) /\ r \in DOMAIN call[c].seen => call[c].seen[r] = Nothing
                /\ Busy(c) /\ call[c].run = r => call[c].op \in {"create", "append"}
    /\ \A c \in Callers : Busy(c) /\ call[c].run \in Runs => asked.rows[call[c].run] # Nothing
    /\ \A r \in Runs : \A c, d \in Callers : Creates(c, r) /\ Creates(d, r) => c = d
CoreInv == TypeInv /\ ShapeInv /\ UncreatedInv

(* What a step does to the store. *)
Refresh(c) == /\ kind = "file" /\ Start(c, [Idle EXCEPT !.op = "refresh"])
              /\ UNCHANGED <<asked, writes>>
StoreStep == \/ \E c \in Callers : Work(c) \/ Request(c) \/ Refresh(c)
             \/ Wait \/ LoseCalls \/ UNCHANGED stores

LEMMA StoreSteps == [Next]_vars => StoreStep
  <1> SUFFICES ASSUME [Next]_vars PROVE StoreStep
    OBVIOUS
  <1>1. ASSUME NEW s \in Streams, Streaming(s) PROVE LoseCalls \/ UNCHANGED stores
    BY <1>1 DEF Streaming, Connect, FindRun, AuditAndOpen, Tick, Disconnect, Poll, Flush, PollThrows,
       Exit, Elsewhere
  <1>2. ASSUME NEW q \in Readers, Reading(q) PROVE Refresh(q) \/ UNCHANGED stores
    BY <1>2 DEF Reading, AskAnalytics, ReadQueue, RefreshQueue, ReadJobs, ReadPolicy, Answer,
       ReaderFails, Refresh
  <1>3. CASE \E u \in Scopes : PutConfig(u)
    BY <1>3 DEF PutConfig, StoreStep
  <1>4. CASE Die
    BY <1>4 DEF Die, Exit, StoreStep
  <1>5. CASE UNCHANGED vars
    BY <1>5 DEF vars, StoreStep
  <1>6. QED
    BY <1>1, <1>2, <1>3, <1>4, <1>5 DEF Next, StoreStep
-----------------------------------------------------------------------------
(* Types, and what a call has with it. *)
Moves(c, k) == call' \in [Callers -> Call] /\ call'[c] = k
               /\ \A d \in Callers \ {c} : call'[d] = call[d]

LEMMA CallMoves ==
  ASSUME TypeInv, NEW c \in Callers, NEW k \in Call, call' = [call EXCEPT ![c] = k]
  PROVE  Moves(c, k)
  BY DEF TypeInv, Moves

LEMMA IdleIsCall == Idle \in Call
  <1>1. << >> \in Seen
    BY DEF Seen
  <1>2. QED
    BY <1>1 DEF Idle, Call

LEMMA ReturnIs ==
  ASSUME TypeInv, NEW c \in Callers, Return(c)
  PROVE  Moves(c, Idle)
  BY CallMoves, IdleIsCall DEF Return

LEMMA CallFields ==
  ASSUME NEW k \in Call
  PROVE  /\ k.run \in Runs \cup {Nothing} /\ k.row \in Row \cup {Nothing}
         /\ k.event \in Event \cup {Nothing} /\ k.seen \in Seen /\ k.left \in SUBSET Runs
         /\ k.op \in Op \cup {Nothing}
         /\ k.pc \in {"idle", "statement"} \cup RowSteps \cup ListSteps \cup LogSteps
  BY DEF Call

(* The same call at another step, with other things seen. *)
At(k, pc, seen, left) == [k EXCEPT !.pc = pc, !.seen = seen, !.left = left]
LEMMA AtIs ==
  ASSUME NEW k \in Call, NEW pc \in {"statement"} \cup RowSteps \cup ListSteps \cup LogSteps,
         NEW seen \in Seen, NEW left \in SUBSET Runs
  PROVE  /\ At(k, pc, seen, left) \in Call
         /\ At(k, pc, seen, left).pc = pc /\ At(k, pc, seen, left).seen = seen
         /\ At(k, pc, seen, left).left = left /\ At(k, pc, seen, left).op = k.op
         /\ At(k, pc, seen, left).run = k.run /\ At(k, pc, seen, left).row = k.row
         /\ At(k, pc, seen, left).event = k.event
  BY DEF At, Call

LEMMA GotoIs ==
  ASSUME TypeInv, NEW c \in Callers, NEW pc \in RowSteps \cup ListSteps \cup LogSteps, Goto(c, pc)
  PROVE  Moves(c, At(call[c], pc, call[c].seen, call[c].left))
  <1>1. call[c] \in Call
    BY DEF TypeInv
  <1>2. [call[c] EXCEPT !.pc = pc] = At(call[c], pc, call[c].seen, call[c].left)
    BY <1>1 DEF At, Call
  <1>3. At(call[c], pc, call[c].seen, call[c].left) \in Call
    BY <1>1, AtIs, CallFields
  <1>4. QED
    BY <1>2, <1>3, CallMoves DEF Goto

(* Reading one more row. *)
LEMMA SeenGrows ==
  ASSUME NEW D \in SUBSET Runs, NEW seen \in Seen, DOMAIN seen = D,
         \A x \in D : seen[x] \in Row \cup {Nothing},
         NEW r \in Runs, NEW row \in Row \cup {Nothing}
  PROVE  /\ Noted(seen, r, row) \in Seen /\ DOMAIN Noted(seen, r, row) = D \cup {r}
         /\ \A x \in D \cup {r} : Noted(seen, r, row)[x] = IF x = r THEN row ELSE seen[x]
  <1> DEFINE new == Noted(seen, r, row)
  <1>1. new = [x \in D \cup {r} |-> IF x = r THEN row ELSE seen[x]]
    BY DEF Noted
  <1>2. new \in [D \cup {r} -> Row \cup {Nothing}] /\ D \cup {r} \in SUBSET Runs
    BY <1>1
  <1>3. new \in Seen
    <2> HIDE DEF new
    <2>1. QED
      BY <1>2, Zenon DEF Seen
  <1>4. QED
    BY <1>1, <1>3

Requested(request) == At(request, FirstStep(request.op), request.seen, Runs)
LEMMA StartIs ==
  ASSUME TypeInv, NEW c \in Callers, NEW request \in Call, request.op \in Op,
         request.op = "refresh" => kind = "file", Start(c, request)
  PROVE  Moves(c, Requested(request)) /\ ~Busy(c)
  <1>1. FirstStep(request.op) \in {"statement", "openRow", "list", "readLog"}
    BY DEF FirstStep, Op, TypeInv
  <1>2. [request EXCEPT !.pc = FirstStep(request.op), !.left = Runs] = Requested(request)
    BY DEF Requested, At, Call
  <1>3. Requested(request) \in Call
    BY <1>1, AtIs, CallFields DEF Requested, RowSteps, ListSteps, LogSteps
  <1>4. QED
    BY <1>2, <1>3, CallMoves DEF Start

(* The rows that are written. *)
LEMMA RowsAreRows ==
  ASSUME TypeInv
  PROVE  /\ NewRow \in Row /\ NewRow.status = "QUEUED"
         /\ \A row \in Row : /\ Claimed(row) \in Row /\ Claimed(row).status = "RUNNING"
                             /\ \A next \in NextRows(row) : next \in Row /\ row.status # "QUEUED"
  <1>1. now \in Nat
    BY DEF TypeInv
  <1>2. NewRow \in Row /\ NewRow.status = "QUEUED"
    BY <1>1 DEF NewRow, Row, State, Decision
  <1>3. ASSUME NEW row \in Row PROVE Claimed(row) \in Row /\ Claimed(row).status = "RUNNING"
    BY <1>1 DEF Claimed, Row
  <1>4. ASSUME NEW row \in Row, NEW next \in NextRows(row) PROVE next \in Row /\ row.status # "QUEUED"
    <2>1. \A state \in State : Completed(row, state) \in Row
      BY <1>1 DEF Completed, Row, State
    <2>2. [row EXCEPT !.status = "FAILED", !.updatedAt = now] \in Row
      BY <1>1 DEF Row
    <2>3. Assigned(row) \in Row
      BY <1>1 DEF Assigned, Row
    <2>4. ASSUME NEW d \in Decision PROVE Decided(row, d) \in Row
      <3>1. PICK state \in State : Decided(row, d) = [row EXCEPT !.decision = d, !.updatedAt = now, !.state = state]
        BY DEF Decided, State
      <3>2. QED
        BY <1>1, <3>1 DEF Row
    <2>5. CASE row.status = "RUNNING"
      BY <1>4, <2>1, <2>2, <2>5 DEF NextRows, State
    <2>6. CASE row.status = "COMPLETED"
      BY <1>4, <2>3, <2>4, <2>6 DEF NextRows
    <2>7. QED
      BY <1>4, <2>5, <2>6 DEF NextRows
  <1>5. QED
    BY <1>2, <1>3, <1>4

(* The calls, with what they are given. *)
CreateCall(r, row) == [Idle EXCEPT !.op = "create", !.run = r, !.row = row]
UpdateCall(r, row) == [Idle EXCEPT !.op = "update", !.run = r, !.row = row]
AppendCall(r, event) == [Idle EXCEPT !.op = "append", !.run = r, !.event = event]
OtherCall(op) == [Idle EXCEPT !.op = op]
LEMMA CallsAre ==
  /\ \A r \in Runs, row \in Row :
        /\ CreateCall(r, row) \in Call /\ CreateCall(r, row).op = "create"
        /\ CreateCall(r, row).run = r /\ CreateCall(r, row).row = row
        /\ UpdateCall(r, row) \in Call /\ UpdateCall(r, row).op = "update"
        /\ UpdateCall(r, row).run = r /\ UpdateCall(r, row).row = row
        /\ CreateCall(r, row).seen = << >> /\ UpdateCall(r, row).seen = << >>
  /\ \A r \in Runs, event \in Event :
        /\ AppendCall(r, event) \in Call /\ AppendCall(r, event).op = "append"
        /\ AppendCall(r, event).run = r /\ AppendCall(r, event).event = event
        /\ AppendCall(r, event).seen = << >> /\ AppendCall(r, event).row = Nothing
  /\ \A op \in {"claim", "refresh"} :
        /\ OtherCall(op) \in Call /\ OtherCall(op).op = op /\ OtherCall(op).run = Nothing
        /\ OtherCall(op).seen = << >> /\ OtherCall(op).row = Nothing
  <1>1. << >> \in Seen
    BY DEF Seen
  <1>2. ASSUME NEW r \in Runs, NEW row \in Row
        PROVE  /\ CreateCall(r, row) \in Call /\ CreateCall(r, row).op = "create"
               /\ CreateCall(r, row).run = r /\ CreateCall(r, row).row = row
               /\ UpdateCall(r, row) \in Call /\ UpdateCall(r, row).op = "update"
               /\ UpdateCall(r, row).run = r /\ UpdateCall(r, row).row = row
               /\ CreateCall(r, row).seen = << >> /\ UpdateCall(r, row).seen = << >>
    BY <1>1 DEF CreateCall, UpdateCall, Idle, Call, Op
  <1>3. ASSUME NEW r \in Runs, NEW event \in Event
        PROVE  /\ AppendCall(r, event) \in Call /\ AppendCall(r, event).op = "append"
               /\ AppendCall(r, event).run = r /\ AppendCall(r, event).event = event
               /\ AppendCall(r, event).seen = << >> /\ AppendCall(r, event).row = Nothing
    BY <1>1 DEF AppendCall, Idle, Call, Op
  <1>4. ASSUME NEW op \in {"claim", "refresh"}
        PROVE  /\ OtherCall(op) \in Call /\ OtherCall(op).op = op /\ OtherCall(op).run = Nothing
               /\ OtherCall(op).seen = << >> /\ OtherCall(op).row = Nothing
    BY <1>1 DEF OtherCall, Idle, Call, Op
  <1>5. QED
    BY <1>2, <1>3, <1>4
-----------------------------------------------------------------------------
(* Every step of a call, with the call it leaves. *)
LEMMA QueuedIs ==
  ASSUME NEW table, NEW x \in OldestQueued(table)
  PROVE  x \in DOMAIN table /\ table[x] # Nothing /\ table[x].status = "QUEUED"
  BY DEF OldestQueued

AskRow(r, row) == asked'.rows = [asked.rows EXCEPT ![r] = row] /\ asked'.log = asked.log
                  /\ asked' \in [rows : Table, log : [Runs -> Seq(Event)]]

LEMMA AskRowIs ==
  ASSUME TypeInv, NEW r \in Runs, NEW row \in Row, asked' = [asked EXCEPT !.rows[r] = row]
  PROVE  AskRow(r, row)
  BY DEF TypeInv, AskRow, Table

LEMMA StatementIs ==
  ASSUME CoreInv, NEW c \in Callers, Statement(c)
  PROVE  LET k == call[c]
             r == k.run
         IN  /\ kind = "database" /\ k.pc = "statement" /\ Moves(c, Idle)
             /\ UNCHANGED <<kind, queue, now, clash, fresh, writes>>
             /\ \/ /\ Rewrites(k) /\ rows' = [rows EXCEPT ![r] = k.row]
                   /\ UNCHANGED <<log, asked>>
                \/ /\ Appends(k) /\ log' = [log EXCEPT ![r] = Append(log[r], k.event)]
                   /\ UNCHANGED <<rows, asked>>
                \/ k.op = "claim" /\ k.run = Nothing /\ UNCHANGED <<rows, log, asked>>
                \/ /\ k.op = "claim" /\ k.run = Nothing
                   /\ \E x \in Runs : /\ rows[x] \in Row /\ rows[x].status = "QUEUED"
                                      /\ asked.rows[x] \in Row
                                      /\ rows' = [rows EXCEPT ![x] = Claimed(rows[x])]
                                      /\ AskRow(x, Claimed(asked.rows[x]))
                   /\ UNCHANGED log
  <1> DEFINE k == call[c]
             r == k.run
  <1>1. kind = "database" /\ k.pc = "statement" /\ Moves(c, Idle) /\ Shape(k)
        /\ UNCHANGED <<kind, queue, now, clash, fresh, writes>>
    BY ReturnIs DEF Statement, CoreInv, ShapeInv, Shape
  <1>2. Rewrites(k) \/ Appends(k) \/ (k.op = "claim" /\ k.run = Nothing)
    BY <1>1 DEF Shape
  <1>3. CASE Rewrites(k)
    BY <1>1, <1>3 DEF Statement, Rewrites
  <1>4. CASE Appends(k)
    BY <1>1, <1>4 DEF Statement, Appends
  <1>5. CASE k.op = "claim" /\ k.run = Nothing
    <2>1. CASE UNCHANGED <<rows, asked>>
      BY <1>1, <1>5, <2>1 DEF Statement
    <2>2. ASSUME NEW x \in OldestQueued(rows), rows' = [rows EXCEPT ![x] = Claimed(rows[x])],
                 asked' = [asked EXCEPT !.rows[x] = Claimed(asked.rows[x])]
          PROVE  /\ x \in Runs /\ rows[x] \in Row /\ rows[x].status = "QUEUED"
                 /\ asked.rows[x] \in Row /\ AskRow(x, Claimed(asked.rows[x]))
      <3>1. x \in Runs /\ rows[x] \in Row /\ rows[x].status = "QUEUED" /\ asked.rows[x] \in Row \cup {Nothing}
        BY QueuedIs DEF CoreInv, TypeInv, Table
      <3>2. asked.rows[x] # Nothing
        BY <3>1 DEF CoreInv, UncreatedInv, Uncreated
      <3>3. QED
        BY <2>2, <3>1, <3>2, RowsAreRows, AskRowIs DEF CoreInv
    <2>3. \/ UNCHANGED <<rows, asked>>
          \/ \E x \in OldestQueued(rows) : /\ rows' = [rows EXCEPT ![x] = Claimed(rows[x])]
                                           /\ asked' = [asked EXCEPT !.rows[x] = Claimed(asked.rows[x])]
      BY <1>5 DEF Statement
    <2>4. UNCHANGED log
      BY <1>5 DEF Statement
    <2>5. QED
      BY <1>1, <1>5, <2>1, <2>2, <2>3, <2>4
  <1>6. QED
    BY <1>2, <1>3, <1>4, <1>5

LEMMA OpenRowIs ==
  ASSUME CoreInv, NEW c \in Callers, OpenRow(c)
  PROVE  LET k == call[c]
         IN  /\ k.pc = "openRow" /\ k.op \in {"create", "update", "claim"}
             /\ k.run \in Runs /\ k.row \in Row
             /\ Moves(c, At(k, "writeRow", k.seen, k.left))
             /\ rows' = [rows EXCEPT ![k.run] = Nothing]
             /\ UNCHANGED <<kind, log, queue, now, asked, clash, fresh, writes>>
  BY GotoIs DEF OpenRow, CoreInv, ShapeInv, Shape, RowSteps

LEMMA WriteRowIs ==
  ASSUME CoreInv, NEW c \in Callers, WriteRow(c)
  PROVE  LET k == call[c]
         IN  /\ k.pc = "writeRow" /\ k.op \in {"create", "update", "claim"}
             /\ k.run \in Runs /\ k.row \in Row
             /\ Moves(c, IF k.op = "create" THEN Idle ELSE At(k, "list", << >>, Runs))
             /\ \E row \in {k.row, Nothing} : /\ rows' = [rows EXCEPT ![k.run] = row]
                                              /\ rows[k.run] = Nothing => row = k.row
             /\ UNCHANGED <<kind, log, queue, now, asked, clash, fresh, writes>>
  <1> DEFINE k == call[c]
             r == k.run
  <1>1. k.pc = "writeRow" /\ k.op \in {"create", "update", "claim"} /\ r \in Runs /\ k.row \in Row
    BY DEF WriteRow, CoreInv, ShapeInv, Shape, RowSteps
  <1>2. Moves(c, IF k.op = "create" THEN Idle ELSE At(k, "list", << >>, Runs))
    <2>1. CASE k.op = "create"
      BY <2>1, ReturnIs DEF WriteRow, CoreInv
    <2>2. CASE k.op # "create"
      <3>1. k \in Call /\ << >> \in Seen
        BY DEF CoreInv, TypeInv, Seen
      <3>2. [k EXCEPT !.pc = "list", !.seen = << >>, !.left = Runs] = At(k, "list", << >>, Runs)
        BY DEF At
      <3>3. At(k, "list", << >>, Runs) \in Call
        BY <3>1, AtIs DEF ListSteps
      <3>4. call' = [call EXCEPT ![c].pc = "list", ![c].seen = << >>, ![c].left = Runs]
            /\ c \in DOMAIN call
        BY <2>2 DEF WriteRow, CoreInv, TypeInv
      <3>5. call' = [call EXCEPT ![c] = [k EXCEPT !.pc = "list", !.seen = << >>, !.left = Runs]]
        BY <3>4
      <3>6. QED
        BY <2>2, <3>2, <3>3, <3>5, CallMoves DEF CoreInv
    <2>3. QED
      BY <2>1, <2>2
  <1>3. \E row \in {k.row, Nothing} : /\ rows' = [rows EXCEPT ![r] = row]
                                      /\ rows[r] = Nothing => row = k.row
    BY DEF WriteRow, Overwritten
  <1>4. QED
    BY <1>1, <1>2, <1>3 DEF WriteRow

LEMMA ReadRowIs ==
  ASSUME CoreInv, NEW c \in Callers, ReadRow(c)
  PROVE  LET k == call[c]
         IN  /\ k.pc = "list"
             /\ \E r \in k.left : Moves(c, At(k, "list", Noted(k.seen, r, rows[r]), k.left \ {r}))
             /\ UNCHANGED <<kind, rows, log, queue, now, asked, clash, fresh, writes>>
  <1> DEFINE k == call[c]
  <1>1. PICK r \in k.left : call' = [call EXCEPT ![c].left = k.left \ {r},
                                                 ![c].seen = Noted(k.seen, r, rows[r])]
    BY DEF ReadRow
  <1>2. k \in Call /\ k.pc = "list" /\ Shape(k)
    BY DEF CoreInv, TypeInv, ShapeInv, ReadRow
  <1>3. k.left \in SUBSET Runs /\ k.seen \in Seen /\ rows[r] \in Row \cup {Nothing} /\ r \in Runs
    BY <1>2, CallFields DEF CoreInv, TypeInv, Table
  <1>4. Noted(k.seen, r, rows[r]) \in Seen
    BY <1>2, <1>3, SeenGrows DEF Shape, ListSteps
  <1>5. At(k, "list", Noted(k.seen, r, rows[r]), k.left \ {r}) \in Call
    BY <1>2, <1>3, <1>4, AtIs DEF ListSteps
  <1> DEFINE seen == Noted(k.seen, r, rows[r])
  <1>6. call' = [call EXCEPT ![c] = At(k, "list", seen, k.left \ {r})]
    <2> HIDE DEF seen
    <2>1. [k EXCEPT !.left = k.left \ {r}, !.seen = seen] = At(k, "list", seen, k.left \ {r})
      BY <1>2 DEF At, Call
    <2>2. c \in DOMAIN call /\ call' = [call EXCEPT ![c].left = k.left \ {r}, ![c].seen = seen]
      BY <1>1 DEF CoreInv, TypeInv, seen
    <2>3. call' = [call EXCEPT ![c] = [k EXCEPT !.left = k.left \ {r}, !.seen = seen]]
      BY <2>2
    <2>4. QED
      BY <2>1, <2>3
  <1>7. QED
    BY <1>2, <1>5, <1>6, CallMoves DEF ReadRow, CoreInv

Chosen(k, r) == [k EXCEPT !.pc = "openRow", !.run = r, !.row = Claimed(k.seen[r])]
LEMMA ChosenIs ==
  ASSUME NEW k \in Call, NEW r \in Runs, Claimed(k.seen[r]) \in Row
  PROVE  /\ Chosen(k, r) \in Call /\ Chosen(k, r).pc = "openRow" /\ Chosen(k, r).run = r
         /\ Chosen(k, r).row = Claimed(k.seen[r]) /\ Chosen(k, r).op = k.op
         /\ Chosen(k, r).seen = k.seen /\ Chosen(k, r).left = k.left /\ Chosen(k, r).event = k.event
  BY DEF Chosen, Call, RowSteps

LEMMA ChooseRowIs ==
  ASSUME CoreInv, NEW c \in Callers, ChooseRow(c)
  PROVE  LET k == call[c]
         IN  /\ k.pc = "list" /\ k.op = "claim" /\ k.run = Nothing /\ kind = "file"
             /\ UNCHANGED <<kind, rows, log, queue, now, writes>>
             /\ \/ Moves(c, Idle) /\ UNCHANGED <<asked, clash, fresh>>
                \/ \E r \in Runs :
                      /\ k.seen[r] \in Row /\ asked.rows[r] \in Row /\ Claimed(k.seen[r]) \in Row
                      /\ r \in DOMAIN k.seen /\ k.seen[r].status = "QUEUED"
                      /\ Moves(c, Chosen(k, r)) /\ AskRow(r, Claimed(asked.rows[r]))
                      /\ clash' = Clashing(c, r) \cup {x \in {r} : rows[x] # k.seen[x]}
                      /\ fresh' = Alone(c)
  <1> DEFINE k == call[c]
  <1>1. k.pc = "list" /\ k.op = "claim" /\ k.run = Nothing /\ k \in Call /\ kind = "file"
        /\ DOMAIN k.seen = Runs /\ \A r \in Runs : k.seen[r] \in Row \cup {Nothing}
    BY DEF ChooseRow, Listed, Choosing, CoreInv, TypeInv, ShapeInv, Shape, ListSteps
  <1>2. CASE OldestQueued(k.seen) = {}
    BY <1>1, <1>2, ReturnIs DEF ChooseRow, CoreInv
  <1>3. CASE OldestQueued(k.seen) # {}
    <2>1. PICK r \in OldestQueued(k.seen) :
             /\ call' = [call EXCEPT ![c].pc = "openRow", ![c].run = r, ![c].row = Claimed(k.seen[r])]
             /\ asked' = [asked EXCEPT !.rows[r] = Claimed(asked.rows[r])]
             /\ clash' = Clashing(c, r) \cup {x \in {r} : rows[x] # k.seen[x]}
             /\ fresh' = Alone(c)
      BY <1>3 DEF ChooseRow
    <2>2. r \in Runs /\ k.seen[r] \in Row /\ k.seen[r].status = "QUEUED"
      BY <1>1, QueuedIs
    <2>3. asked.rows[r] \in Row
      <3>1. asked.rows[r] \in Row \cup {Nothing}
        BY <2>2 DEF CoreInv, TypeInv, Table
      <3>2. k.seen[r] # Nothing
        BY <2>2
      <3>3. asked.rows[r] # Nothing
        BY <1>1, <2>2, <3>2 DEF CoreInv, UncreatedInv, Uncreated, Lists, ListSteps
      <3>4. QED
        BY <3>1, <3>3
    <2>4. Claimed(k.seen[r]) \in Row /\ Claimed(asked.rows[r]) \in Row
      BY <2>2, <2>3, RowsAreRows DEF CoreInv
    <2>5. Moves(c, Chosen(k, r))
      <3>1. c \in DOMAIN call
        BY DEF CoreInv, TypeInv
      <3> DEFINE row == Claimed(k.seen[r])
      <3>2. call' = [call EXCEPT ![c].pc = "openRow", ![c].run = r, ![c].row = row]
        BY <2>1
      <3> HIDE DEF row
      <3>3. call' = [call EXCEPT ![c] = [k EXCEPT !.pc = "openRow", !.run = r, !.row = row]]
        BY <3>1, <3>2
      <3>4. call' = [call EXCEPT ![c] = Chosen(k, r)]
        BY <3>3 DEF Chosen, row
      <3>5. QED
        BY <1>1, <2>2, <2>4, <3>4, ChosenIs, CallMoves DEF CoreInv
    <2>6. QED
      BY <1>1, <2>1, <2>2, <2>3, <2>4, <2>5, AskRowIs DEF ChooseRow, CoreInv
  <1>4. QED
    BY <1>2, <1>3

LEMMA OpenQueueIs ==
  ASSUME CoreInv, NEW c \in Callers, OpenQueue(c)
  PROVE  LET k == call[c]
         IN  /\ k.pc = "list" /\ k.left = {} /\ (k.op = "claim" => k.run \in Runs)
             /\ Moves(c, At(k, "writeQueue", k.seen, k.left))
             /\ queue' = Nothing
             /\ UNCHANGED <<kind, rows, log, now, asked, clash, fresh, writes>>
  <1>1. call[c].run \in Runs \cup {Nothing}
    BY CallFields DEF CoreInv, TypeInv
  <1>2. QED
    BY <1>1, GotoIs DEF OpenQueue, Listed, Choosing, CoreInv, ListSteps

LEMMA WriteQueueIs ==
  ASSUME CoreInv, NEW c \in Callers, WriteQueue(c)
  PROVE  LET k == call[c]
         IN  /\ k.pc = "writeQueue" /\ Moves(c, Idle)
             /\ queue = Nothing => queue' = Waiting(k.seen)
             /\ UNCHANGED <<kind, rows, log, now, asked, clash, fresh, writes>>
  BY ReturnIs DEF WriteQueue, Overwritten, CoreInv

LEMMA ReadLogIs ==
  ASSUME CoreInv, NEW c \in Callers, ReadLog(c)
  PROVE  LET k == call[c]
         IN  /\ k.pc = "readLog" /\ Appends(k) /\ Moves(c, At(k, "openLog", log[k.run], k.left))
             /\ UNCHANGED <<kind, rows, log, queue, now, asked, clash, fresh, writes>>
  <1> DEFINE k == call[c]
             file == log[k.run]
  <1>1. k.pc = "readLog" /\ Appends(k) /\ k \in Call
    BY DEF ReadLog, CoreInv, TypeInv, ShapeInv, Shape, LogSteps
  <1>2. file \in Seq(Event) /\ file \in Seen
    BY <1>1 DEF CoreInv, TypeInv, Appends, Seen
  <1>3. c \in DOMAIN call /\ call' = [call EXCEPT ![c].pc = "openLog", ![c].seen = file]
    BY DEF ReadLog, CoreInv, TypeInv
  <1> HIDE DEF file
  <1>4. call' = [call EXCEPT ![c] = [k EXCEPT !.pc = "openLog", !.seen = file]]
    BY <1>3
  <1>5. [k EXCEPT !.pc = "openLog", !.seen = file] = At(k, "openLog", file, k.left)
    BY <1>1 DEF At, Call
  <1>6. At(k, "openLog", file, k.left) \in Call
    BY <1>1, <1>2, AtIs, CallFields DEF LogSteps
  <1>7. Moves(c, At(k, "openLog", file, k.left))
    BY <1>4, <1>5, <1>6, CallMoves DEF CoreInv
  <1>8. QED
    BY <1>1, <1>7 DEF ReadLog, file

LEMMA OpenLogIs ==
  ASSUME CoreInv, NEW c \in Callers, OpenLog(c)
  PROVE  LET k == call[c]
         IN  /\ k.pc = "openLog" /\ Appends(k) /\ k.seen \in Seq(Event)
             /\ Moves(c, At(k, "writeLog", k.seen, k.left))
             /\ log' = [log EXCEPT ![k.run] = << >>]
             /\ UNCHANGED <<kind, rows, queue, now, asked, clash, fresh, writes>>
  BY GotoIs DEF OpenLog, CoreInv, ShapeInv, Shape, LogSteps

(* An event sorted in: nothing else changes, and the stamps stay in order. *)
Sorted(events) == \A i, j \in DOMAIN events : i < j => events[i].at <= events[j].at
Distinct(events) == \A i, j \in DOMAIN events : events[i] = events[j] => i = j

LEMMA KeptIsPart ==
  ASSUME NEW T, NEW s \in Seq(T), NEW keep, keep \subseteq ToSet(s)
  PROVE  LET t == Kept(s, keep)
         IN  /\ t \in Seq(T) /\ ToSet(t) = keep
             /\ Distinct(s) => Distinct(t)
  <1> DEFINE t == Kept(s, keep)
  <1>1. PICK g : ComesFrom(g, t, s, keep, Len(s))
    BY KeptComesFrom
  <1>2. t \in Seq(T)
    BY KeptType
  <1> HIDE DEF t
  <1>3. /\ \A i \in 1..Len(t) : g[i] \in 1..Len(s) /\ t[i] = s[g[i]] /\ t[i] \in keep
        /\ \A i, j \in 1..Len(t) : i < j => g[i] < g[j]
        /\ \A k \in 1..Len(s) : s[k] \in keep => \E i \in 1..Len(t) : g[i] = k
    BY <1>1 DEF ComesFrom
  <1>4. DOMAIN t = 1..Len(t) /\ DOMAIN s = 1..Len(s) /\ Len(t) \in Nat /\ Len(s) \in Nat
    BY <1>2
  <1>5. ToSet(t) = keep
    <2>1. ToSet(t) \subseteq keep
      BY <1>3, <1>4 DEF ToSet
    <2>2. ASSUME NEW e \in keep PROVE e \in ToSet(t)
      <3>1. PICK k \in 1..Len(s) : s[k] = e
        BY <1>4 DEF ToSet
      <3>2. PICK i \in 1..Len(t) : g[i] = k
        BY <1>3, <3>1
      <3>3. t[i] = e
        BY <1>3, <3>1, <3>2
      <3>4. QED
        BY <1>4, <3>3 DEF ToSet
    <2>3. QED
      BY <2>1, <2>2
  <1>6. ASSUME Distinct(s) PROVE Distinct(t)
    <2> SUFFICES ASSUME NEW i \in 1..Len(t), NEW j \in 1..Len(t), t[i] = t[j] PROVE i = j
      BY <1>4 DEF Distinct
    <2>1. g[i] = g[j]
      BY <1>3, <1>4, <1>6 DEF Distinct
    <2>2. ~(i < j) /\ ~(j < i)
      <3>1. g[i] \in Nat /\ g[j] \in Nat
        BY <1>3, <1>4
      <3>2. QED
        BY <1>3, <2>1, <3>1
    <2>3. QED
      BY <1>4, <2>2
  <1>7. QED
    BY <1>2, <1>5, <1>6 DEF t

LEMMA KeptIsSorted ==
  ASSUME NEW s \in Seq(Event), NEW keep, Sorted(s) PROVE Sorted(Kept(s, keep))
  <1> DEFINE t == Kept(s, keep)
  <1>1. PICK g : ComesFrom(g, t, s, keep, Len(s))
    BY KeptComesFrom
  <1>2. t \in Seq(Event)
    BY KeptType
  <1> HIDE DEF t
  <1>3. /\ \A i \in 1..Len(t) : g[i] \in 1..Len(s) /\ t[i] = s[g[i]]
        /\ \A i, j \in 1..Len(t) : i < j => g[i] < g[j]
    BY <1>1 DEF ComesFrom
  <1>4. DOMAIN t = 1..Len(t) /\ DOMAIN s = 1..Len(s)
    BY <1>2
  <1>5. Sorted(t)
    BY <1>3, <1>4 DEF Sorted
  <1>6. QED
    BY <1>5 DEF t

LEMMA Joined ==
  ASSUME NEW T, NEW x \in Seq(T), NEW y \in Seq(T), NEW z, z = x \o y
  PROVE  /\ z \in Seq(T) /\ Len(z) = Len(x) + Len(y)
         /\ \A i \in 1..Len(x) : z[i] = x[i]
         /\ \A i \in 1..Len(y) : z[Len(x) + i] = y[i]
  OBVIOUS

Joins(x, y, z) ==
    /\ z \in Seq(Event) /\ Distinct(z) /\ ToSet(z) = ToSet(x) \cup ToSet(y)
    /\ \A i \in DOMAIN z : i \in DOMAIN x \/ \E k \in DOMAIN y : i = Len(x) + k

LEMMA JoinedDistinct ==
  ASSUME NEW x \in Seq(Event), NEW y \in Seq(Event), NEW z, z = x \o y,
         Distinct(x), Distinct(y), ToSet(x) \cap ToSet(y) = {}
  PROVE  Joins(x, y, z)
  <1>1. /\ z \in Seq(Event) /\ Len(z) = Len(x) + Len(y)
        /\ \A i \in 1..Len(x) : z[i] = x[i]
        /\ \A i \in 1..Len(y) : z[Len(x) + i] = y[i]
    BY Joined
  <1>2. /\ DOMAIN x = 1..Len(x) /\ DOMAIN y = 1..Len(y) /\ DOMAIN z = 1..Len(z)
        /\ Len(x) \in Nat /\ Len(y) \in Nat
    BY <1>1
  <1>3. \A i \in DOMAIN z : i \in DOMAIN x \/ \E k \in DOMAIN y : i = Len(x) + k
    <2> SUFFICES ASSUME NEW i \in 1..(Len(x) + Len(y)), i \notin 1..Len(x)
                 PROVE  \E k \in 1..Len(y) : i = Len(x) + k
      BY <1>1, <1>2
    <2>1. i - Len(x) \in 1..Len(y) /\ i = Len(x) + (i - Len(x))
      BY <1>2
    <2>2. QED
      BY <2>1
  <1>4. ToSet(z) = ToSet(x) \cup ToSet(y)
    <2>1. ASSUME NEW i \in DOMAIN z PROVE z[i] \in ToSet(x) \cup ToSet(y)
      BY <1>1, <1>2, <1>3 DEF ToSet
    <2>2. ASSUME NEW i \in 1..Len(x) PROVE i \in DOMAIN z /\ x[i] = z[i]
      BY <1>1, <1>2
    <2>3. ASSUME NEW i \in 1..Len(y) PROVE Len(x) + i \in DOMAIN z /\ y[i] = z[Len(x) + i]
      BY <1>1, <1>2
    <2>4. ToSet(z) \subseteq ToSet(x) \cup ToSet(y)
      BY <2>1 DEF ToSet
    <2>5. ToSet(x) \subseteq ToSet(z)
      BY <1>2, <2>2 DEF ToSet
    <2>6. ToSet(y) \subseteq ToSet(z)
      BY <1>2, <2>3 DEF ToSet
    <2>7. QED
      BY <2>4, <2>5, <2>6
  <1>5. ASSUME NEW i \in DOMAIN z, NEW j \in DOMAIN z, z[i] = z[j] PROVE i = j
    <2>1. \A k \in DOMAIN x, l \in DOMAIN y : x[k] # y[l]
      BY DEF ToSet
    <2>2. CASE i \in DOMAIN x /\ j \in DOMAIN x
      BY <1>1, <1>2, <1>5, <2>2 DEF Distinct
    <2>3. ASSUME i \in DOMAIN x, NEW l \in DOMAIN y, j = Len(x) + l PROVE FALSE
      BY <1>1, <1>2, <1>5, <2>1, <2>3
    <2>4. ASSUME NEW k \in DOMAIN y, i = Len(x) + k, j \in DOMAIN x PROVE FALSE
      BY <1>1, <1>2, <1>5, <2>1, <2>4
    <2>5. ASSUME NEW k \in DOMAIN y, i = Len(x) + k, NEW l \in DOMAIN y, j = Len(x) + l PROVE i = j
      <3>1. y[k] = y[l]
        BY <1>1, <1>2, <1>5, <2>5
      <3>2. QED
        BY <2>5, <3>1 DEF Distinct
    <2>6. QED
      BY <1>3, <2>2, <2>3, <2>4, <2>5
  <1>6. Distinct(z)
    BY <1>5 DEF Distinct
  <1>7. QED
    BY <1>1, <1>3, <1>4, <1>6 DEF Joins

LEMMA InsertedIs ==
  ASSUME NEW events \in Seq(Event), NEW event \in Event
  PROVE  LET file == Inserted(events, event)
         IN  /\ file \in Seq(Event) /\ ToSet(file) = ToSet(events) \cup {event}
             /\ Sorted(events) => Sorted(file)
             /\ Distinct(events) /\ event \notin ToSet(events) => Distinct(file)
  <1> DEFINE before == {e \in ToSet(events) : e.at <= event.at}
             a == Kept(events, before)
             b == Kept(events, ToSet(events) \ before)
             file == Inserted(events, event)
  <1>1. before \subseteq ToSet(events) /\ ToSet(events) \ before \subseteq ToSet(events)
    OBVIOUS
  <1>2. ToSet(events) \subseteq Event
    BY DEF ToSet
  <1>3. /\ a \in Seq(Event) /\ ToSet(a) = before /\ (Distinct(events) => Distinct(a))
        /\ b \in Seq(Event) /\ ToSet(b) = ToSet(events) \ before /\ (Distinct(events) => Distinct(b))
        /\ Sorted(events) => Sorted(a) /\ Sorted(b)
    <2> HIDE DEF before
    <2>1. QED
      BY <1>1, KeptIsPart, KeptIsSorted
  <1>4. file = a \o <<event>> \o b
    BY DEF Inserted
  <1> HIDE DEF a, b, file
  <1>5. Len(a) \in Nat /\ Len(b) \in Nat /\ DOMAIN a = 1..Len(a) /\ DOMAIN b = 1..Len(b)
    BY <1>3
  <1> DEFINE m == Len(a)
             n == Len(b)
  <1>6. /\ file \in Seq(Event) /\ Len(file) = m + 1 + n
        /\ \A i \in 1..m : file[i] = a[i]
        /\ file[m + 1] = event
        /\ \A i \in 1..n : file[m + 1 + i] = b[i]
    <2> DEFINE one == <<event>>
               front == a \o one
    <2>1. one \in Seq(Event) /\ front = a \o one /\ file = front \o b
          /\ a \in Seq(Event) /\ b \in Seq(Event)
      BY <1>3, <1>4
    <2>2. Len(one) = 1 /\ one[1] = event
      OBVIOUS
    <2> HIDE DEF one, front, m, n
    <2>3. /\ front \in Seq(Event) /\ Len(front) = Len(a) + Len(one)
          /\ \A i \in 1..Len(a) : front[i] = a[i]
          /\ \A i \in 1..Len(one) : front[Len(a) + i] = one[i]
      BY <2>1, Joined
    <2>4. /\ file \in Seq(Event) /\ Len(file) = Len(front) + Len(b)
          /\ \A i \in 1..Len(front) : file[i] = front[i]
          /\ \A i \in 1..Len(b) : file[Len(front) + i] = b[i]
      <3>1. front \in Seq(Event)
        BY <2>3
      <3>2. QED
        BY <2>1, <3>1, Joined
    <2>5. m + 1 \in 1..(m + 1) /\ \A i \in 1..m : i \in 1..(m + 1)
      BY <1>5 DEF m
    <2>6. front[m + 1] = event /\ Len(front) = m + 1
      BY <2>2, <2>3 DEF m
    <2>7. QED
      BY <2>3, <2>4, <2>5, <2>6 DEF m, n
  <1> HIDE DEF m, n
  <1>7. m \in Nat /\ n \in Nat /\ DOMAIN a = 1..m /\ DOMAIN b = 1..n /\ DOMAIN file = 1..(m + 1 + n)
    BY <1>3, <1>6 DEF m, n
  <1>8. /\ \A i \in 1..m : file[i] = a[i] /\ a[i] \in before
        /\ file[m + 1] = event
        /\ \A i \in 1..n : file[m + 1 + i] = b[i] /\ b[i] \in ToSet(events) \ before
    <2>1. (\A i \in 1..m : a[i] \in before) /\ \A i \in 1..n : b[i] \in ToSet(events) \ before
      BY <1>3, <1>7 DEF ToSet
    <2>2. QED
      BY <1>6, <2>1
  <1>9. \A i \in 1..(m + 1 + n) : i \in 1..m \/ i = m + 1 \/ \E k \in 1..n : i = m + 1 + k
    <2>1. \A i \in 1..(m + 1 + n) : i > m + 1 => i - (m + 1) \in 1..n /\ i = m + 1 + (i - (m + 1))
      BY <1>7
    <2>2. QED
      BY <1>7, <2>1
  <1>10. ToSet(file) = ToSet(events) \cup {event}
    <2>1. ToSet(file) = {file[i] : i \in 1..(m + 1 + n)} /\ ToSet(a) = {a[i] : i \in 1..m}
          /\ ToSet(b) = {b[i] : i \in 1..n}
      BY <1>7 DEF ToSet
    <2>2. ASSUME NEW e \in ToSet(file) PROVE e \in ToSet(events) \cup {event}
      BY <1>1, <1>8, <1>9, <2>1
    <2>3. ASSUME NEW e \in ToSet(events) PROVE e \in ToSet(file)
      <3>1. CASE e \in before
        <4>1. PICK i \in 1..m : a[i] = e
          BY <1>3, <2>1, <3>1
        <4>2. i \in 1..(m + 1 + n) /\ file[i] = e
          BY <1>7, <1>8, <4>1
        <4>3. QED
          BY <2>1, <4>2
      <3>2. CASE e \notin before
        <4>1. PICK i \in 1..n : b[i] = e
          BY <1>3, <2>1, <3>2
        <4>2. m + 1 + i \in 1..(m + 1 + n) /\ file[m + 1 + i] = e
          BY <1>7, <1>8, <4>1
        <4>3. QED
          BY <2>1, <4>2
      <3>3. QED
        BY <3>1, <3>2
    <2>4. event \in ToSet(file)
      <3>1. m + 1 \in 1..(m + 1 + n)
        BY <1>7
      <3>2. QED
        BY <1>8, <2>1, <3>1
    <2>5. QED
      BY <2>2, <2>3, <2>4
  <1>11. ASSUME Sorted(events) PROVE Sorted(file)
    <2>1. /\ \A i, j \in 1..m : i < j => a[i].at <= a[j].at
          /\ \A i, j \in 1..n : i < j => b[i].at <= b[j].at
      BY <1>3, <1>7, <1>11 DEF Sorted
    <2>2. event.at \in Nat /\ \A e \in ToSet(events) : e.at \in Nat
      BY <1>2 DEF Event
    <2>3. /\ \A i \in 1..m : a[i].at <= event.at /\ a[i].at \in Nat
          /\ \A i \in 1..n : event.at <= b[i].at /\ b[i].at \in Nat
      BY <1>8, <2>2
    <2> SUFFICES ASSUME NEW i \in 1..(m + 1 + n), NEW j \in 1..(m + 1 + n), i < j
                 PROVE  file[i].at <= file[j].at
      BY <1>7 DEF Sorted
    <2>4. CASE i \in 1..m /\ j \in 1..m
      BY <1>8, <2>1, <2>4
    <2>5. CASE i \in 1..m /\ j = m + 1
      BY <1>8, <2>3, <2>5
    <2>6. ASSUME NEW k \in 1..n, j = m + 1 + k, i \in 1..m PROVE file[i].at <= file[j].at
      <3>1. file[i] = a[i] /\ file[j] = b[k]
        BY <1>8, <2>6
      <3>2. a[i].at <= event.at /\ event.at <= b[k].at /\ a[i].at \in Nat /\ b[k].at \in Nat
        BY <2>3, <2>6
      <3>3. QED
        BY <2>2, <3>1, <3>2
    <2>7. ASSUME NEW k \in 1..n, j = m + 1 + k, i = m + 1 PROVE file[i].at <= file[j].at
      BY <1>8, <2>3, <2>7
    <2>8. ASSUME NEW k \in 1..n, j = m + 1 + k, NEW l \in 1..n, i = m + 1 + l PROVE file[i].at <= file[j].at
      <3>1. l < k
        BY <1>7, <2>8
      <3>2. QED
        BY <1>8, <2>1, <2>8, <3>1
    <2>9. ~(i = m + 1 /\ j \in 1..(m + 1)) /\ \A l \in 1..n : ~(i = m + 1 + l /\ j \in 1..(m + 1))
      BY <1>7
    <2>10. j \in 1..m \/ j = m + 1 => j \in 1..(m + 1)
      BY <1>7
    <2>11. QED
      BY <1>9, <2>4, <2>5, <2>6, <2>7, <2>8, <2>9, <2>10
  <1>12. ASSUME Distinct(events), event \notin ToSet(events) PROVE Distinct(file)
    <2> DEFINE one == <<event>>
               front == a \o one
    <2>1. one \in Seq(Event) /\ ToSet(one) = {event} /\ Distinct(one)
      BY DEF ToSet, Distinct
    <2>2. front = a \o one /\ file = front \o b
      BY <1>4
    <2> HIDE DEF one, front
    <2>3. a \in Seq(Event) /\ b \in Seq(Event) /\ Distinct(a) /\ Distinct(b)
      BY <1>1, <1>3, <1>12
    <2>4. event \notin ToSet(a) /\ event \notin ToSet(b) /\ ToSet(a) \cap ToSet(b) = {}
      BY <1>3, <1>12
    <2>5. ToSet(a) \cap ToSet(one) = {}
      BY <2>1, <2>4
    <2>6. Joins(a, one, front)
      BY <2>1, <2>2, <2>3, <2>5, JoinedDistinct
    <2>7. front \in Seq(Event) /\ Distinct(front) /\ ToSet(front) = ToSet(a) \cup ToSet(one)
      BY <2>6 DEF Joins
    <2>8. ToSet(front) \cap ToSet(b) = {}
      BY <2>1, <2>4, <2>7
    <2>9. Joins(front, b, file)
      BY <2>2, <2>3, <2>7, <2>8, JoinedDistinct
    <2>10. QED
      BY <2>9 DEF Joins
  <1>13. QED
    BY <1>6, <1>10, <1>11, <1>12 DEF file

LEMMA WriteLogIs ==
  ASSUME CoreInv, NEW c \in Callers, WriteLog(c)
  PROVE  LET k == call[c]
             file == Inserted(k.seen, k.event)
         IN  /\ k.pc = "writeLog" /\ Appends(k) /\ k.seen \in Seq(Event) /\ file \in Seq(Event)
             /\ Moves(c, Idle)
             /\ \E text \in {file, << >>} : /\ log' = [log EXCEPT ![k.run] = text]
                                            /\ log[k.run] = << >> => text = file
             /\ UNCHANGED <<kind, rows, queue, now, asked, clash, fresh, writes>>
  <1> DEFINE k == call[c]
             file == Inserted(k.seen, k.event)
  <1>1. k.pc = "writeLog" /\ Appends(k) /\ k.seen \in Seq(Event) /\ Moves(c, Idle)
    BY ReturnIs DEF WriteLog, CoreInv, ShapeInv, Shape, LogSteps
  <1>2. file \in Seq(Event)
    BY <1>1, InsertedIs DEF Appends
  <1>3. \E text \in Overwritten(log[k.run], file, << >>) : log' = [log EXCEPT ![k.run] = text]
    BY DEF WriteLog
  <1> HIDE DEF file
  <1>4. \E text \in {file, << >>} : /\ log' = [log EXCEPT ![k.run] = text]
                                    /\ log[k.run] = << >> => text = file
    BY <1>3 DEF Overwritten
  <1>5. UNCHANGED <<kind, rows, queue, now, asked, clash, fresh, writes>>
    BY DEF WriteLog
  <1>6. QED
    BY <1>1, <1>2, <1>4, <1>5 DEF file

(* A call that begins. *)
Begins(c, k) ==
    /\ ~Busy(c) /\ Moves(c, k) /\ k \in Call
    /\ k.pc = FirstStep(k.op) /\ k.seen = << >> /\ k.left = Runs
    /\ clash' = (IF k.run = Nothing THEN clash ELSE Clashing(c, k.run))
    /\ fresh' = (IF k.op \in {"update", "refresh"} THEN Alone(c) ELSE fresh)
    /\ UNCHANGED <<kind, rows, log, queue, now>>
AskEvent(r, event) ==
    /\ asked'.rows = asked.rows /\ asked'.log = [asked.log EXCEPT ![r] = Append(asked.log[r], event)]
    /\ asked' \in [rows : Table, log : [Runs -> Seq(Event)]]

LEMMA BeginsIs ==
  ASSUME TypeInv, NEW c \in Callers, NEW request \in Call, request.op \in Op,
         request.op = "refresh" => kind = "file", request.seen = << >>, Start(c, request)
  PROVE  LET k == Requested(request)
         IN  /\ Begins(c, k) /\ k.op = request.op /\ k.run = request.run
             /\ k.row = request.row /\ k.event = request.event
  <1> DEFINE k == Requested(request)
  <1>1. FirstStep(request.op) \in {"statement", "openRow", "list", "readLog"}
    BY DEF FirstStep, Op, TypeInv
  <1>2. << >> \in Seen
    BY DEF Seen
  <1>3. /\ k \in Call /\ k.pc = FirstStep(request.op) /\ k.seen = << >> /\ k.left = Runs
        /\ k.op = request.op /\ k.run = request.run
        /\ k.row = request.row /\ k.event = request.event
    BY <1>1, <1>2, AtIs DEF Requested, RowSteps, ListSteps, LogSteps
  <1>4. Moves(c, k) /\ ~Busy(c)
    BY StartIs
  <1> HIDE DEF k
  <1>5. /\ clash' = (IF k.run = Nothing THEN clash ELSE Clashing(c, k.run))
        /\ fresh' = (IF k.op \in {"update", "refresh"} THEN Alone(c) ELSE fresh)
        /\ UNCHANGED <<kind, rows, log, queue, now>>
    BY <1>3 DEF Start
  <1>6. QED
    BY <1>3, <1>4, <1>5 DEF Begins, k

LEMMA CreateJobIs ==
  ASSUME CoreInv, NEW c \in Callers, NEW r \in Runs, CreateJob(c, r)
  PROVE  /\ asked.rows[r] = Nothing /\ NewRow \in Row /\ NewRow.status = "QUEUED"
         /\ \E k : Begins(c, k) /\ k.op = "create" /\ k.run = r /\ k.row = NewRow
         /\ AskRow(r, NewRow) /\ writes' = writes + 1
  <1> DEFINE request == CreateCall(r, NewRow)
  <1>1. NewRow \in Row /\ NewRow.status = "QUEUED"
    BY RowsAreRows DEF CoreInv
  <1>2. request \in Call /\ request.op = "create" /\ request.run = r /\ request.row = NewRow
        /\ request.seen = << >>
    BY <1>1, CallsAre
  <1>3. Start(c, request)
    BY DEF CreateJob, CreateCall
  <1> HIDE DEF request
  <1>4. \E k : Begins(c, k) /\ k.op = "create" /\ k.run = r /\ k.row = NewRow
    BY <1>2, <1>3, BeginsIs DEF CoreInv, Op
  <1>5. AskRow(r, NewRow)
    BY <1>1, AskRowIs DEF CreateJob, CoreInv
  <1>6. QED
    BY <1>1, <1>4, <1>5 DEF CreateJob, Write

LEMMA UpdateJobIs ==
  ASSUME CoreInv, NEW c \in Callers, NEW r \in Runs, UpdateJob(c, r)
  PROVE  /\ rows[r] \in Row /\ rows[r].status # "QUEUED"
         /\ \E row \in Row : /\ AskRow(r, row) /\ row \in NextRows(rows[r])
                             /\ \E k : Begins(c, k) /\ k.op = "update" /\ k.run = r /\ k.row = row
         /\ writes' = writes + 1
  <1>1. rows[r] \in Row
    BY DEF UpdateJob, CoreInv, TypeInv, Table
  <1>2. PICK row \in NextRows(rows[r]) : Start(c, UpdateCall(r, row))
                                         /\ asked' = [asked EXCEPT !.rows[r] = row]
    BY DEF UpdateJob, UpdateCall
  <1>3. row \in Row /\ rows[r].status # "QUEUED"
    BY <1>1, RowsAreRows DEF CoreInv
  <1> DEFINE request == UpdateCall(r, row)
  <1>4. request \in Call /\ request.op = "update" /\ request.run = r /\ request.row = row
        /\ request.seen = << >>
    BY <1>3, CallsAre
  <1>5. Start(c, request)
    BY <1>2
  <1> HIDE DEF request
  <1>6. \E k : Begins(c, k) /\ k.op = "update" /\ k.run = r /\ k.row = row
    BY <1>4, <1>5, BeginsIs DEF CoreInv, Op
  <1>7. AskRow(r, row)
    BY <1>2, <1>3, AskRowIs DEF CoreInv
  <1>8. QED
    BY <1>1, <1>3, <1>6, <1>7 DEF UpdateJob, Write

LEMMA AppendRunEventIs ==
  ASSUME CoreInv, NEW c \in Callers, NEW r \in Runs, AppendRunEvent(c, r)
  PROVE  /\ asked.rows[r] # Nothing
         /\ \E event \in Event :
               /\ event.id = writes + 1 /\ AskEvent(r, event)
               /\ \E k : Begins(c, k) /\ k.op = "append" /\ k.run = r /\ k.event = event /\ k.row = Nothing
         /\ writes' = writes + 1
  <1> DEFINE event == [id |-> writes', at |-> now]
             request == AppendCall(r, event)
  <1>1. writes' = writes + 1 /\ event \in Event /\ event.id = writes + 1
    BY DEF AppendRunEvent, Write, CoreInv, TypeInv, Event
  <1>2. Start(c, request) /\ asked' = [asked EXCEPT !.log[r] = Append(asked.log[r], event)]
        /\ asked.rows[r] # Nothing
    BY DEF AppendRunEvent, AppendCall
  <1> HIDE DEF event
  <1>3. request \in Call /\ request.op = "append" /\ request.run = r /\ request.event = event
        /\ request.seen = << >> /\ request.row = Nothing
    BY <1>1, CallsAre
  <1> HIDE DEF request
  <1>4. \E k : Begins(c, k) /\ k.op = "append" /\ k.run = r /\ k.event = event /\ k.row = Nothing
    BY <1>2, <1>3, BeginsIs DEF CoreInv, Op
  <1>5. AskEvent(r, event)
    <2>1. asked.log[r] \in Seq(Event)
      BY DEF CoreInv, TypeInv
    <2> DEFINE file == Append(asked.log[r], event)
    <2>2. file \in Seq(Event)
      BY <1>1, <2>1, AppendProperties
    <2>3. asked' = [asked EXCEPT !.log[r] = file]
      BY <1>2
    <2> HIDE DEF file
    <2>4. asked'.rows = asked.rows /\ asked'.log = [asked.log EXCEPT ![r] = file]
          /\ asked' \in [rows : Table, log : [Runs -> Seq(Event)]]
      BY <2>2, <2>3 DEF CoreInv, TypeInv
    <2>5. QED
      BY <2>4 DEF AskEvent, file
  <1>6. QED
    BY <1>1, <1>2, <1>4, <1>5

LEMMA ClaimIs ==
  ASSUME CoreInv, NEW c \in Callers, ClaimNextQueuedJob(c)
  PROVE  /\ \E k : Begins(c, k) /\ k.op = "claim" /\ k.run = Nothing /\ k.row = Nothing
         /\ asked' = asked /\ writes' = writes + 1
  <1> DEFINE request == OtherCall("claim")
  <1>1. request \in Call /\ request.op = "claim" /\ request.run = Nothing /\ request.seen = << >>
        /\ request.row = Nothing
    BY CallsAre
  <1>2. Start(c, request) /\ asked' = asked /\ writes' = writes + 1
    BY DEF ClaimNextQueuedJob, OtherCall, Write
  <1> HIDE DEF request
  <1>3. QED
    BY <1>1, <1>2, BeginsIs DEF CoreInv, Op

LEMMA RefreshIs ==
  ASSUME CoreInv, NEW c \in Callers, Refresh(c)
  PROVE  /\ \E k : Begins(c, k) /\ k.op = "refresh" /\ k.run = Nothing /\ k.row = Nothing
         /\ kind = "file" /\ asked' = asked /\ writes' = writes
  <1> DEFINE request == OtherCall("refresh")
  <1>1. request \in Call /\ request.op = "refresh" /\ request.run = Nothing /\ request.seen = << >>
        /\ request.row = Nothing
    BY CallsAre
  <1>2. Start(c, request) /\ kind = "file" /\ asked' = asked /\ writes' = writes
    BY DEF Refresh, OtherCall
  <1> HIDE DEF request
  <1>3. QED
    BY <1>1, <1>2, BeginsIs DEF CoreInv, Op

LEMMA LoseIs ==
  ASSUME CoreInv, LoseCalls
  PROVE  /\ call' \in [Callers -> Call] /\ \A c \in Callers : call'[c] = Idle
         /\ clash' = clash \cup UNION {About(c) : c \in Callers}
         /\ fresh' = (fresh /\ \A c \in Callers : ~Rewriting(c))
         /\ UNCHANGED <<kind, rows, log, queue, now, asked, writes>>
  BY IdleIsCall DEF LoseCalls
-----------------------------------------------------------------------------
(* The step of each action keeps the types. *)
LEMMA BeginsTypes ==
  ASSUME TypeInv, NEW c, NEW k, Begins(c, k)
  PROVE  /\ call' \in [Callers -> Call] /\ kind' \in {"database", "file"} /\ rows' \in Table
         /\ log' \in [Runs -> Seq(Event)] /\ now' \in Nat /\ fresh' \in BOOLEAN
  <1>1. Alone(c) \in BOOLEAN
    BY DEF Alone
  <1>2. fresh' \in BOOLEAN
    BY <1>1 DEF Begins, TypeInv
  <1>3. QED
    BY <1>2 DEF Begins, TypeInv, Moves

LEMMA WorkTypes ==
  ASSUME CoreInv, NEW c \in Callers, Work(c) PROVE TypeInv'
  <1>1. call[c] \in Call /\ TypeInv
    BY DEF CoreInv, TypeInv
  <1>2. \A k \in Row \cup {Nothing}, x \in Runs : rows' = [rows EXCEPT ![x] = k] => rows' \in Table
    BY <1>1 DEF TypeInv, Table
  <1>3. \A e \in Seq(Event), x \in Runs : log' = [log EXCEPT ![x] = e] => log' \in [Runs -> Seq(Event)]
    BY <1>1 DEF TypeInv
  <1>4. CASE Statement(c)
    <2> DEFINE k == call[c]
    <2>1. Moves(c, Idle) /\ UNCHANGED <<kind, now, fresh, writes>>
      BY <1>4, StatementIs
    <2>2. CASE Rewrites(k) /\ rows' = [rows EXCEPT ![k.run] = k.row] /\ UNCHANGED <<log, asked>>
      <3>1. rows' \in Table
        BY <1>2, <2>2 DEF Rewrites
      <3>2. QED
        BY <1>1, <2>1, <2>2, <3>1 DEF TypeInv, Moves
    <2>3. CASE Appends(k) /\ log' = [log EXCEPT ![k.run] = Append(log[k.run], k.event)]
               /\ UNCHANGED <<rows, asked>>
      <3>1. k.run \in Runs /\ k.event \in Event /\ log[k.run] \in Seq(Event)
        BY <1>1, <2>3 DEF TypeInv, Appends
      <3>2. Append(log[k.run], k.event) \in Seq(Event)
        BY <3>1, AppendProperties
      <3>3. log' \in [Runs -> Seq(Event)]
        BY <1>3, <2>3, <3>1, <3>2
      <3>4. QED
        BY <1>1, <2>1, <2>3, <3>3 DEF TypeInv, Moves
    <2>4. CASE UNCHANGED <<rows, log, asked>>
      BY <1>1, <2>1, <2>4 DEF TypeInv, Moves
    <2>5. ASSUME NEW x \in Runs, rows[x] \in Row, rows' = [rows EXCEPT ![x] = Claimed(rows[x])],
                 AskRow(x, Claimed(asked.rows[x])), UNCHANGED log
          PROVE  TypeInv'
      <3>1. Claimed(rows[x]) \in Row
        BY <1>1, <2>5, RowsAreRows
      <3>2. rows' \in Table
        BY <1>2, <2>5, <3>1
      <3>3. asked' \in [rows : Table, log : [Runs -> Seq(Event)]]
        BY <2>5 DEF AskRow
      <3>4. QED
        BY <1>1, <2>1, <2>5, <3>2, <3>3 DEF TypeInv, Moves
    <2>6. QED
      BY <1>4, <2>2, <2>3, <2>4, <2>5, StatementIs
  <1>5. CASE OpenRow(c)
    <2>1. rows' \in Table
      BY <1>2, <1>5, OpenRowIs
    <2>2. QED
      BY <1>1, <1>5, <2>1, OpenRowIs DEF TypeInv, Moves
  <1>6. CASE WriteRow(c)
    <2>1. rows' \in Table
      BY <1>2, <1>6, WriteRowIs
    <2>2. call' \in [Callers -> Call]
      BY <1>6, WriteRowIs DEF Moves
    <2>3. QED
      BY <1>1, <1>6, <2>1, <2>2, WriteRowIs DEF TypeInv
  <1>7. CASE ReadRow(c)
    BY <1>1, <1>7, ReadRowIs DEF TypeInv, Moves
  <1>8. CASE ChooseRow(c)
    <2>1. UNCHANGED <<kind, rows, log, now, writes>>
      BY <1>8, ChooseRowIs
    <2>2. CASE Moves(c, Idle) /\ UNCHANGED <<asked, clash, fresh>>
      BY <1>1, <2>1, <2>2 DEF TypeInv, Moves
    <2>3. ASSUME NEW r \in Runs, Moves(c, Chosen(call[c], r)), AskRow(r, Claimed(asked.rows[r])),
                 fresh' = Alone(c)
          PROVE  TypeInv'
      <3>1. fresh' \in BOOLEAN
        BY <2>3 DEF Alone
      <3>2. asked' \in [rows : Table, log : [Runs -> Seq(Event)]]
        BY <2>3 DEF AskRow
      <3>3. QED
        BY <1>1, <2>1, <2>3, <3>1, <3>2 DEF TypeInv, Moves
    <2>4. QED
      BY <1>8, <2>2, <2>3, ChooseRowIs
  <1>9. CASE OpenQueue(c)
    BY <1>1, <1>9, OpenQueueIs DEF TypeInv, Moves
  <1>10. CASE WriteQueue(c)
    BY <1>1, <1>10, WriteQueueIs DEF TypeInv, Moves
  <1>11. CASE ReadLog(c)
    BY <1>1, <1>11, ReadLogIs DEF TypeInv, Moves
  <1>12. CASE OpenLog(c)
    <2>1. << >> \in Seq(Event)
      OBVIOUS
    <2>2. log' \in [Runs -> Seq(Event)]
      BY <1>3, <1>12, <2>1, OpenLogIs DEF Appends
    <2>3. QED
      BY <1>1, <1>12, <2>2, OpenLogIs DEF TypeInv, Moves
  <1>13. CASE WriteLog(c)
    <2>1. << >> \in Seq(Event)
      OBVIOUS
    <2>2. log' \in [Runs -> Seq(Event)]
      BY <1>3, <1>13, <2>1, WriteLogIs DEF Appends
    <2>3. QED
      BY <1>1, <1>13, <2>2, WriteLogIs DEF TypeInv, Moves
  <1>14. QED
    BY <1>4, <1>5, <1>6, <1>7, <1>8, <1>9, <1>10, <1>11, <1>12, <1>13 DEF Work

LEMMA TypeStep ==
  ASSUME CoreInv, StoreStep PROVE TypeInv'
  <1>1. TypeInv
    BY DEF CoreInv
  <1>2. ASSUME NEW c \in Callers, NEW r \in Runs, CreateJob(c, r) PROVE TypeInv'
    <2>1. asked' \in [rows : Table, log : [Runs -> Seq(Event)]]
      BY <1>2, CreateJobIs, Zenon DEF AskRow
    <2>2. (\E k : Begins(c, k)) /\ writes' = writes + 1
      BY <1>2, CreateJobIs, Zenon
    <2>3. QED
      BY <1>1, <2>1, <2>2, BeginsTypes DEF TypeInv
  <1>3. ASSUME NEW c \in Callers, NEW r \in Runs, UpdateJob(c, r) PROVE TypeInv'
    <2>1. asked' \in [rows : Table, log : [Runs -> Seq(Event)]]
      BY <1>3, UpdateJobIs, Zenon DEF AskRow
    <2>2. (\E k : Begins(c, k)) /\ writes' = writes + 1
      BY <1>3, UpdateJobIs, Zenon
    <2>3. QED
      BY <1>1, <2>1, <2>2, BeginsTypes DEF TypeInv
  <1>4. ASSUME NEW c \in Callers, NEW r \in Runs, AppendRunEvent(c, r) PROVE TypeInv'
    <2>1. asked' \in [rows : Table, log : [Runs -> Seq(Event)]]
      BY <1>4, AppendRunEventIs, Zenon DEF AskEvent
    <2>2. (\E k : Begins(c, k)) /\ writes' = writes + 1
      BY <1>4, AppendRunEventIs, Zenon
    <2>3. QED
      BY <1>1, <2>1, <2>2, BeginsTypes DEF TypeInv
  <1>5. ASSUME NEW c \in Callers, ClaimNextQueuedJob(c) PROVE TypeInv'
    BY <1>1, <1>5, ClaimIs, BeginsTypes DEF TypeInv
  <1>6. ASSUME NEW c \in Callers, Refresh(c) PROVE TypeInv'
    BY <1>1, <1>6, RefreshIs, BeginsTypes DEF TypeInv
  <1>7. CASE Wait
    BY <1>1, <1>7 DEF Wait, TypeInv
  <1>8. CASE LoseCalls
    BY <1>1, <1>8, LoseIs DEF TypeInv
  <1>9. CASE UNCHANGED stores
    BY <1>1, <1>9 DEF TypeInv, stores
  <1>10. QED
    BY <1>2, <1>3, <1>4, <1>5, <1>6, <1>7, <1>8, <1>9, WorkTypes DEF StoreStep, Request
-----------------------------------------------------------------------------
(* The step of each action keeps what the calls have with them.            *)
LEMMA ShapeKept ==
  ASSUME ShapeInv, NEW c, NEW k, Moves(c, k), kind' = kind, Shape(k)
  PROVE  ShapeInv'
  <1>1. \A d \in Callers : \E m : call'[d] = m /\ Shape(m)
    BY DEF ShapeInv, Moves
  <1>2. \A m : Shape(m) => Shape(m)'
    <2> SUFFICES ASSUME NEW m, Shape(m) PROVE Shape(m)'
      OBVIOUS
    <2>1. QED
      BY DEF Shape, Rewrites, Appends
  <1>3. ASSUME NEW d \in Callers PROVE Shape(call[d])'
    <2>1. PICK m : call'[d] = m /\ Shape(m)
      BY <1>1
    <2>2. Shape(m)'
      BY <1>2, <2>1
    <2>3. QED
      BY <2>1, <2>2 DEF Shape, Rewrites, Appends
  <1>4. QED
    BY <1>3 DEF ShapeInv

LEMMA IdleHasShape == Shape(Idle)
  BY DEF Shape, Idle, RowSteps, ListSteps, LogSteps

LEMMA BeginsShape ==
  ASSUME CoreInv, NEW c \in Callers, NEW k, Begins(c, k),
         \/ k.op \in {"create", "update"} /\ k.run \in Runs /\ k.row \in Row
         \/ k.op = "append" /\ k.run \in Runs /\ k.event \in Event
         \/ k.op = "claim" /\ k.run = Nothing
         \/ k.op = "refresh" /\ k.run = Nothing /\ kind = "file",
         k.op = "create" => k.row.status = "QUEUED"
  PROVE  ShapeInv'
  <1>1. /\ k.pc = FirstStep(k.op) /\ k.seen = << >> /\ k.left = Runs
        /\ Moves(c, k) /\ kind' = kind /\ kind \in {"database", "file"}
    BY DEF Begins, CoreInv, TypeInv
  <1>2. DOMAIN k.seen = Runs \ k.left
    BY <1>1
  <1>3. Shape(k)
    <2>1. CASE kind = "database"
      BY <1>1, <2>1 DEF Shape, FirstStep, Rewrites, Appends, RowSteps, ListSteps, LogSteps
    <2>2. CASE kind = "file" /\ k.op \in {"create", "update"}
      BY <1>1, <2>2 DEF Shape, FirstStep, Rewrites, Appends, RowSteps, ListSteps, LogSteps
    <2>3. CASE kind = "file" /\ k.op = "append"
      BY <1>1, <2>3 DEF Shape, FirstStep, Rewrites, Appends, RowSteps, ListSteps, LogSteps
    <2>4. CASE kind = "file" /\ k.op \in {"claim", "refresh"}
      <3>1. k.pc = "list" /\ DOMAIN k.seen = {}
        BY <1>1, <1>2, <2>4 DEF FirstStep
      <3>2. QED
        BY <1>1, <1>2, <2>4, <3>1 DEF Shape, Rewrites, Appends, RowSteps, ListSteps, LogSteps
    <2>5. QED
      BY <1>1, <2>1, <2>2, <2>3, <2>4
  <1>4. QED
    BY <1>1, <1>3, ShapeKept DEF CoreInv

LEMMA WorkShape ==
  ASSUME CoreInv, NEW c \in Callers, Work(c) PROVE ShapeInv'
  <1> DEFINE k == call[c]
  <1>1. k \in Call /\ ShapeInv /\ Shape(k) /\ k.left \in SUBSET Runs /\ k.seen \in Seen
    BY CallFields DEF CoreInv, TypeInv, ShapeInv
  <1>2. Moves(c, Idle) /\ kind' = kind => ShapeInv'
    BY <1>1, IdleHasShape, ShapeKept
  <1>3. CASE Statement(c)
    BY <1>2, <1>3, StatementIs
  <1>4. CASE OpenRow(c)
    <2> DEFINE m == At(k, "writeRow", k.seen, k.left)
    <2>1. /\ k.pc = "openRow" /\ k.op \in {"create", "update", "claim"}
          /\ k.run \in Runs /\ k.row \in Row /\ Moves(c, m) /\ kind' = kind
      BY <1>4, OpenRowIs
    <2>2. m.pc = "writeRow" /\ m.op = k.op /\ m.run = k.run /\ m.row = k.row
      BY <1>1, AtIs DEF RowSteps
    <2> HIDE DEF m
    <2>3. Shape(m)
      BY <1>1, <2>1, <2>2 DEF Shape, RowSteps, ListSteps, LogSteps
    <2>4. QED
      BY <1>1, <2>1, <2>3, ShapeKept
  <1>5. CASE WriteRow(c)
    <2> DEFINE m == At(k, "list", << >>, Runs)
    <2>1. /\ k.pc = "writeRow" /\ k.op \in {"create", "update", "claim"}
          /\ k.run \in Runs /\ kind' = kind
          /\ Moves(c, IF k.op = "create" THEN Idle ELSE m)
      BY <1>5, WriteRowIs
    <2>2. CASE k.op = "create"
      BY <1>2, <2>1, <2>2
    <2>3. CASE k.op # "create"
      <3>1. << >> \in Seen
        BY DEF Seen
      <3>2. m.pc = "list" /\ m.op = k.op /\ m.run = k.run /\ m.seen = << >> /\ m.left = Runs
        BY <1>1, <3>1, AtIs DEF ListSteps
      <3>3. Moves(c, m)
        BY <2>1, <2>3
      <3> HIDE DEF m
      <3>4. DOMAIN m.seen = Runs \ m.left /\ DOMAIN m.seen = {}
        BY <3>2
      <3>5. Shape(m)
        BY <1>1, <2>1, <2>3, <3>2, <3>4 DEF Shape, RowSteps, ListSteps, LogSteps
      <3>6. QED
        BY <1>1, <2>1, <3>3, <3>5, ShapeKept
    <2>4. QED
      BY <2>2, <2>3
  <1>6. CASE ReadRow(c)
    <2>1. k.pc = "list" /\ kind' = kind
      BY <1>6, ReadRowIs
    <2>2. PICK r \in k.left : Moves(c, At(k, "list", Noted(k.seen, r, rows[r]), k.left \ {r}))
      BY <1>6, ReadRowIs
    <2> DEFINE seen == Noted(k.seen, r, rows[r])
               m == At(k, "list", seen, k.left \ {r})
    <2>3. /\ DOMAIN k.seen = Runs \ k.left /\ \A x \in DOMAIN k.seen : k.seen[x] \in Row \cup {Nothing}
          /\ rows[r] \in Row \cup {Nothing} /\ r \in Runs /\ Runs \ k.left \in SUBSET Runs
      BY <1>1, <2>1 DEF Shape, ListSteps, CoreInv, TypeInv, Table
    <2>4. seen \in Seen /\ DOMAIN seen = (Runs \ k.left) \cup {r}
          /\ \A x \in DOMAIN seen : seen[x] \in Row \cup {Nothing}
      <3> DEFINE D == Runs \ k.left
      <3>1. /\ D \in SUBSET Runs /\ k.seen \in Seen /\ DOMAIN k.seen = D
            /\ \A x \in D : k.seen[x] \in Row \cup {Nothing}
        BY <1>1, <2>3
      <3> DEFINE old == k.seen
                 row == rows[r]
      <3>2. old \in Seen /\ DOMAIN old = D /\ r \in Runs /\ row \in Row \cup {Nothing}
            /\ \A x \in D : old[x] \in Row \cup {Nothing}
        BY <2>3, <3>1
      <3>3. seen = Noted(old, r, row)
        OBVIOUS
      <3> HIDE DEF D, k, old, row, seen
      <3>4. /\ DOMAIN Noted(old, r, row) = D \cup {r}
            /\ \A x \in D \cup {r} : Noted(old, r, row)[x] = IF x = r THEN row ELSE old[x]
        BY <3>2 DEF Noted
      <3>6. Noted(old, r, row) \in Seen
        BY <3>1, <3>2, SeenGrows
      <3>5. QED
        BY <3>2, <3>3, <3>4, <3>6 DEF D
    <2> HIDE DEF seen
    <2>5. m.pc = "list" /\ m.seen = seen /\ m.left = k.left \ {r} /\ m.op = k.op /\ m.run = k.run
      BY <1>1, <2>4, AtIs DEF ListSteps
    <2>6. Moves(c, m)
      BY <2>2 DEF seen
    <2> HIDE DEF m
    <2>7. DOMAIN m.seen = Runs \ m.left
      BY <1>1, <2>4, <2>5
    <2>8. Shape(m)
      BY <1>1, <2>1, <2>4, <2>5, <2>7 DEF Shape, RowSteps, ListSteps, LogSteps
    <2>9. QED
      BY <1>1, <2>1, <2>6, <2>8, ShapeKept
  <1>7. CASE ChooseRow(c)
    <2>1. k.pc = "list" /\ k.op = "claim" /\ kind = "file" /\ kind' = kind
      BY <1>7, ChooseRowIs
    <2>2. ASSUME NEW r \in Runs, Moves(c, Chosen(k, r)), Claimed(k.seen[r]) \in Row
          PROVE  ShapeInv'
      <3> DEFINE m == Chosen(k, r)
      <3>1. m.pc = "openRow" /\ m.op = k.op /\ m.run = r /\ m.row \in Row
        BY <1>1, <2>2, ChosenIs
      <3>2. Moves(c, m)
        BY <2>2
      <3> HIDE DEF m
      <3>3. Shape(m)
        BY <2>1, <3>1 DEF Shape, RowSteps, ListSteps, LogSteps
      <3>4. QED
        BY <1>1, <2>1, <3>2, <3>3, ShapeKept
    <2>3. QED
      BY <1>2, <1>7, <2>1, <2>2, ChooseRowIs
  <1>8. CASE OpenQueue(c)
    <2> DEFINE m == At(k, "writeQueue", k.seen, k.left)
    <2>1. k.pc = "list" /\ k.left = {} /\ (k.op = "claim" => k.run \in Runs) /\ kind' = kind /\ Moves(c, m)
      BY <1>8, OpenQueueIs
    <2>2. m.pc = "writeQueue" /\ m.seen = k.seen /\ m.left = k.left /\ m.op = k.op /\ m.run = k.run
      BY <1>1, AtIs DEF ListSteps
    <2> HIDE DEF m
    <2>3. Shape(m)
      BY <1>1, <2>1, <2>2 DEF Shape, RowSteps, ListSteps, LogSteps
    <2>4. QED
      BY <1>1, <2>1, <2>3, ShapeKept
  <1>9. CASE WriteQueue(c)
    BY <1>2, <1>9, WriteQueueIs
  <1>10. CASE ReadLog(c)
    <2> DEFINE m == At(k, "openLog", log[k.run], k.left)
    <2>1. k.pc = "readLog" /\ Appends(k) /\ Moves(c, m) /\ kind' = kind
      BY <1>10, ReadLogIs
    <2>2. log[k.run] \in Seq(Event) /\ log[k.run] \in Seen
      BY <2>1 DEF CoreInv, TypeInv, Appends, Seen
    <2>3. m.pc = "openLog" /\ m.seen = log[k.run] /\ m.op = k.op /\ m.run = k.run /\ m.event = k.event
      BY <1>1, <2>2, AtIs DEF LogSteps
    <2> HIDE DEF m
    <2>4. Shape(m)
      BY <1>1, <2>1, <2>2, <2>3 DEF Shape, Appends, RowSteps, ListSteps, LogSteps
    <2>5. QED
      BY <1>1, <2>1, <2>4, ShapeKept
  <1>11. CASE OpenLog(c)
    <2> DEFINE m == At(k, "writeLog", k.seen, k.left)
    <2>1. k.pc = "openLog" /\ Appends(k) /\ k.seen \in Seq(Event) /\ Moves(c, m) /\ kind' = kind
      BY <1>11, OpenLogIs
    <2>2. m.pc = "writeLog" /\ m.seen = k.seen /\ m.op = k.op /\ m.run = k.run /\ m.event = k.event
      <3>1. "writeLog" \in LogSteps
        BY DEF LogSteps
      <3> HIDE DEF k
      <3>2. QED
        BY <1>1, <3>1, AtIs
    <2> HIDE DEF m
    <2>3. Shape(m)
      BY <1>1, <2>1, <2>2 DEF Shape, Appends, RowSteps, ListSteps, LogSteps
    <2>4. QED
      BY <1>1, <2>1, <2>3, ShapeKept
  <1>12. CASE WriteLog(c)
    BY <1>2, <1>12, WriteLogIs
  <1>13. QED
    BY <1>3, <1>4, <1>5, <1>6, <1>7, <1>8, <1>9, <1>10, <1>11, <1>12 DEF Work

LEMMA ShapeStep ==
  ASSUME CoreInv, StoreStep PROVE ShapeInv'
  <1>1. ShapeInv
    BY DEF CoreInv
  <1>2. ASSUME NEW c \in Callers, NEW r \in Runs, CreateJob(c, r) PROVE ShapeInv'
    <2>1. PICK k : Begins(c, k) /\ k.op = "create" /\ k.run = r /\ k.row = NewRow
      BY <1>2, CreateJobIs
    <2>2. NewRow \in Row /\ NewRow.status = "QUEUED"
      BY <1>2, CreateJobIs
    <2>3. QED
      BY <2>1, <2>2, BeginsShape
  <1>3. ASSUME NEW c \in Callers, NEW r \in Runs, UpdateJob(c, r) PROVE ShapeInv'
    <2>0. PICK row \in Row : \E k : Begins(c, k) /\ k.op = "update" /\ k.run = r /\ k.row = row
      BY <1>3, UpdateJobIs
    <2>1. PICK k : Begins(c, k) /\ k.op = "update" /\ k.run = r /\ k.row = row
      BY <2>0
    <2>2. QED
      BY <2>1, BeginsShape
  <1>4. ASSUME NEW c \in Callers, NEW r \in Runs, AppendRunEvent(c, r) PROVE ShapeInv'
    <2>0. PICK event \in Event : \E k : Begins(c, k) /\ k.op = "append" /\ k.run = r /\ k.event = event
      BY <1>4, AppendRunEventIs
    <2>1. PICK k : Begins(c, k) /\ k.op = "append" /\ k.run = r /\ k.event = event
      BY <2>0
    <2>2. QED
      BY <2>1, BeginsShape
  <1>5. ASSUME NEW c \in Callers, ClaimNextQueuedJob(c) PROVE ShapeInv'
    BY <1>5, ClaimIs, BeginsShape
  <1>6. ASSUME NEW c \in Callers, Refresh(c) PROVE ShapeInv'
    BY <1>6, RefreshIs, BeginsShape
  <1>7. CASE UNCHANGED <<kind, call>>
    BY <1>1, <1>7 DEF ShapeInv, Shape, Rewrites, Appends
  <1>8. CASE LoseCalls
    <2>1. \A c \in Callers : call'[c] = Idle
      BY <1>8, LoseIs
    <2>2. Shape(Idle)'
      BY DEF Shape, Idle, RowSteps, ListSteps, LogSteps
    <2>3. QED
      BY <2>1, <2>2 DEF ShapeInv, Shape, Rewrites, Appends
  <1>9. (Wait \/ UNCHANGED stores) => UNCHANGED <<kind, call>>
    BY DEF Wait, stores
  <1>10. QED
    BY <1>2, <1>3, <1>4, <1>5, <1>6, <1>7, <1>8, <1>9, WorkShape DEF StoreStep, Request
-----------------------------------------------------------------------------
(* The step of each action keeps a run that is not there yet out of every  *)
(* table.                                                                  *)
LEMMA UncreatedKept ==
  ASSUME CoreInv, NEW c \in Callers, NEW m, Moves(c, m),
         \A x \in Runs : asked'.rows[x] = Nothing <=> asked.rows[x] = Nothing,
         m.pc # "idle" => /\ Busy(c) /\ m.op = call[c].op
                          /\ m.run = call[c].run \/ (m.op = "claim" /\ ~Uncreated(m.run)),
         \A x \in Runs : rows'[x] \in {Nothing, rows[x]} \/ ~Uncreated(x) \/ (Creates(c, x) /\ m.pc = "idle"),
         m.pc \in ListSteps => \A x \in DOMAIN m.seen : x \in Runs /\ (Uncreated(x) => m.seen[x] = Nothing)
  PROVE  UncreatedInv'
  <1>1. /\ \A d \in Callers \ {c} : call'[d] = call[d]
        /\ call'[c] = m
    BY DEF Moves
  <1>2. ASSUME NEW d \in Callers, NEW x \in Runs, Creates(d, x)' PROVE Creates(d, x) /\ (d = c => m.pc # "idle")
    <2>1. CASE d = c
      BY <1>1, <1>2, <2>1 DEF Creates, Busy
    <2>2. CASE d # c
      BY <1>1, <1>2, <2>2 DEF Creates, Busy
    <2>3. QED
      BY <2>1, <2>2
  <1>3. ASSUME NEW x \in Runs, Uncreated(x)' PROVE Uncreated(x) /\ ~(Creates(c, x) /\ m.pc = "idle")
    <2>1. CASE asked'.rows[x] = Nothing
      BY <2>1 DEF Uncreated, CoreInv, UncreatedInv, Creates
    <2>2. CASE \E d \in Callers : Creates(d, x)'
      BY <1>2, <2>2 DEF Uncreated, CoreInv, UncreatedInv
    <2>3. QED
      BY <1>3, <2>1, <2>2 DEF Uncreated
  <1>4. ASSUME NEW x \in Runs, Uncreated(x)'
        PROVE  /\ rows'[x] = Nothing
               /\ \A d \in Callers :
                    /\ Lists(d)' /\ x \in DOMAIN call'[d].seen => call'[d].seen[x] = Nothing
                    /\ Busy(d)' /\ call'[d].run = x => call'[d].op \in {"create", "append"}
    <2>1. Uncreated(x)
      BY <1>3, <1>4
    <2>2. rows'[x] = Nothing
      BY <1>3, <1>4, <2>1 DEF CoreInv, UncreatedInv
    <2>3. ASSUME NEW d \in Callers
          PROVE  /\ Lists(d)' /\ x \in DOMAIN call'[d].seen => call'[d].seen[x] = Nothing
                 /\ Busy(d)' /\ call'[d].run = x => call'[d].op \in {"create", "append"}
      <3>1. CASE d = c
        BY <1>1, <2>1, <3>1 DEF CoreInv, UncreatedInv, Lists, Busy
      <3>2. CASE d # c
        BY <1>1, <2>1, <3>2 DEF CoreInv, UncreatedInv, Lists, Busy
      <3>3. QED
        BY <3>1, <3>2
    <2>4. QED
      BY <2>2, <2>3
  <1>5. ASSUME NEW d \in Callers, Busy(d)', call'[d].run \in Runs
        PROVE  asked'.rows[call'[d].run] # Nothing
    <2>1. CASE d = c /\ m.run = call[c].run
      BY <1>1, <1>5, <2>1 DEF CoreInv, UncreatedInv, Busy
    <2>2. CASE d = c /\ m.run # call[c].run
      BY <1>1, <1>5, <2>2 DEF Uncreated, Busy
    <2>3. CASE d # c
      BY <1>1, <1>5, <2>3 DEF CoreInv, UncreatedInv, Busy
    <2>4. QED
      BY <2>1, <2>2, <2>3
  <1>6. ASSUME NEW x \in Runs, NEW d \in Callers, NEW e \in Callers, Creates(d, x)', Creates(e, x)' PROVE d = e
    BY <1>2, <1>6 DEF CoreInv, UncreatedInv
  <1>7. QED
    BY <1>4, <1>5, <1>6, Zenon DEF UncreatedInv

LEMMA BeginsUncreated ==
  ASSUME CoreInv, NEW c \in Callers, NEW k, Begins(c, k),
         \A x \in Runs : asked.rows[x] # Nothing => asked'.rows[x] # Nothing,
         k.run \in Runs => asked'.rows[k.run] # Nothing,
         k.run \in Runs => \/ k.op = "create" /\ asked.rows[k.run] = Nothing
                           \/ k.op = "append" /\ asked.rows[k.run] # Nothing
                           \/ k.op = "update" /\ ~Uncreated(k.run)
  PROVE  UncreatedInv'
  <1>1. /\ \A d \in Callers \ {c} : call'[d] = call[d]
        /\ call'[c] = k /\ k.seen = << >> /\ rows' = rows /\ ~Busy(c)
    BY DEF Begins, Moves
  <1>2. ASSUME NEW d \in Callers, NEW x \in Runs, Creates(d, x)'
        PROVE  (d # c /\ Creates(d, x)) \/ (d = c /\ asked.rows[x] = Nothing)
    <2>1. CASE d = c
      BY <1>1, <1>2, <2>1 DEF Creates, Busy
    <2>2. CASE d # c
      BY <1>1, <1>2, <2>2 DEF Creates, Busy
    <2>3. QED
      BY <2>1, <2>2
  <1>3. ASSUME NEW x \in Runs, Uncreated(x)' PROVE Uncreated(x)
    BY <1>2, <1>3 DEF Uncreated
  <1>4. ASSUME NEW x \in Runs, Uncreated(x)'
        PROVE  /\ rows'[x] = Nothing
               /\ \A d \in Callers :
                    /\ Lists(d)' /\ x \in DOMAIN call'[d].seen => call'[d].seen[x] = Nothing
                    /\ Busy(d)' /\ call'[d].run = x => call'[d].op \in {"create", "append"}
    <2>1. Uncreated(x)
      BY <1>3, <1>4
    <2>2. rows'[x] = Nothing
      BY <1>1, <2>1 DEF CoreInv, UncreatedInv
    <2>3. ASSUME NEW d \in Callers
          PROVE  /\ Lists(d)' /\ x \in DOMAIN call'[d].seen => call'[d].seen[x] = Nothing
                 /\ Busy(d)' /\ call'[d].run = x => call'[d].op \in {"create", "append"}
      <3>1. CASE d = c
        <4>1. DOMAIN k.seen = {}
          BY <1>1
        <4>2. QED
          BY <1>1, <2>1, <3>1, <4>1 DEF Lists, Busy
      <3>2. CASE d # c
        BY <1>1, <2>1, <3>2 DEF CoreInv, UncreatedInv, Lists, Busy
      <3>3. QED
        BY <3>1, <3>2
    <2>4. QED
      BY <2>2, <2>3
  <1>5. ASSUME NEW d \in Callers, Busy(d)', call'[d].run \in Runs
        PROVE  asked'.rows[call'[d].run] # Nothing
    <2>1. CASE d = c
      BY <1>1, <1>5, <2>1
    <2>2. CASE d # c
      BY <1>1, <1>5, <2>2 DEF CoreInv, UncreatedInv, Busy
    <2>3. QED
      BY <2>1, <2>2
  <1>6. ASSUME NEW x \in Runs, NEW d \in Callers, NEW e \in Callers, Creates(d, x)', Creates(e, x)' PROVE d = e
    <2>1. \A a \in Callers : Creates(a, x) => asked.rows[x] # Nothing
      BY DEF CoreInv, UncreatedInv, Creates
    <2>2. QED
      BY <1>2, <1>6, <2>1 DEF CoreInv, UncreatedInv
  <1>7. QED
    BY <1>4, <1>5, <1>6, Zenon DEF UncreatedInv

LEMMA WorkUncreated ==
  ASSUME CoreInv, NEW c \in Callers, Work(c) PROVE UncreatedInv'
  <1> DEFINE k == call[c]
  <1>1. k \in Call /\ Shape(k) /\ k.left \in SUBSET Runs /\ k.seen \in Seen /\ rows \in Table
        /\ asked.rows \in Table /\ (k.pc # "idle" => Busy(c)) /\ Idle.pc = "idle"
        /\ Nothing \notin Row
    BY CallFields DEF CoreInv, TypeInv, ShapeInv, Busy, Idle
  <1>2. ASSUME NEW x \in Runs, rows[x] \in Row PROVE ~Uncreated(x)
    BY <1>1, <1>2 DEF CoreInv, UncreatedInv
  <1>3. k.pc # "idle" /\ k.run \in Runs /\ k.op \in {"update", "claim"} => ~Uncreated(k.run)
    BY <1>1 DEF CoreInv, UncreatedInv
  <1>4. Idle.pc \notin ListSteps
    BY <1>1 DEF ListSteps
  <1>5. ASSUME Moves(c, Idle), asked' = asked, rows' = rows PROVE UncreatedInv'
    BY <1>1, <1>4, <1>5, UncreatedKept
  <1>6. CASE Statement(c)
    <2>1. k.pc = "statement" /\ Moves(c, Idle)
      BY <1>6, StatementIs
    <2>2. CASE Rewrites(k) /\ rows' = [rows EXCEPT ![k.run] = k.row] /\ UNCHANGED asked
      <3>1. \A x \in Runs : x # k.run => rows'[x] = rows[x]
        BY <1>1, <2>2 DEF Table
      <3>2. k.op = "create" => Creates(c, k.run)
        BY <1>1, <2>1 DEF Creates
      <3>3. \A x \in Runs : rows'[x] \in {Nothing, rows[x]} \/ ~Uncreated(x) \/ (Creates(c, x) /\ Idle.pc = "idle")
        BY <1>1, <1>3, <2>1, <2>2, <3>1, <3>2 DEF Rewrites
      <3>4. QED
        BY <1>1, <1>4, <2>1, <2>2, <3>3, UncreatedKept
    <2>3. CASE UNCHANGED <<rows, asked>>
      BY <1>5, <2>1, <2>3
    <2>4. ASSUME NEW x \in Runs, rows[x] \in Row, rows' = [rows EXCEPT ![x] = Claimed(rows[x])],
                 asked.rows[x] \in Row, AskRow(x, Claimed(asked.rows[x]))
          PROVE  UncreatedInv'
      <3>1. Claimed(asked.rows[x]) \in Row
        BY <2>4, RowsAreRows DEF CoreInv
      <3>2. \A y \in Runs : asked'.rows[y] = Nothing <=> asked.rows[y] = Nothing
        BY <1>1, <2>4, <3>1 DEF AskRow, Table
      <3>3. \A y \in Runs : y # x => rows'[y] = rows[y]
        BY <1>1, <2>4 DEF Table
      <3>4. ~Uncreated(x)
        BY <1>2, <2>4
      <3>5. \A y \in Runs : rows'[y] \in {Nothing, rows[y]} \/ ~Uncreated(y) \/ (Creates(c, y) /\ Idle.pc = "idle")
        BY <3>3, <3>4
      <3>6. QED
        BY <1>1, <1>4, <2>1, <3>2, <3>5, UncreatedKept
    <2>5. QED
      BY <1>6, <2>2, <2>3, <2>4, StatementIs
  <1>7. CASE OpenRow(c)
    <2> DEFINE m == At(k, "writeRow", k.seen, k.left)
    <2>1. k.pc = "openRow" /\ Moves(c, m) /\ rows' = [rows EXCEPT ![k.run] = Nothing] /\ asked' = asked
      BY <1>7, OpenRowIs
    <2>2. m.pc = "writeRow" /\ m.op = k.op /\ m.run = k.run
      BY <1>1, AtIs DEF RowSteps
    <2> HIDE DEF m
    <2>3. \A x \in Runs : rows'[x] \in {Nothing, rows[x]}
      BY <1>1, <2>1 DEF Table
    <2>4. m.pc \notin ListSteps
      BY <2>2 DEF ListSteps
    <2>5. QED
      BY <1>1, <2>1, <2>2, <2>3, <2>4, UncreatedKept
  <1>8. CASE WriteRow(c)
    <2> DEFINE m == IF k.op = "create" THEN Idle ELSE At(k, "list", << >>, Runs)
    <2>1. /\ k.pc = "writeRow" /\ Moves(c, m) /\ asked' = asked
          /\ k.op \in {"create", "update", "claim"} /\ k.run \in Runs
          /\ \E row \in {k.row, Nothing} : rows' = [rows EXCEPT ![k.run] = row]
      BY <1>8, WriteRowIs
    <2>2. << >> \in Seen /\ DOMAIN << >> = {}
      BY DEF Seen
    <2>3. k.op # "create" => m.pc = "list" /\ m.op = k.op /\ m.run = k.run /\ m.seen = << >>
      BY <1>1, <2>2, AtIs DEF ListSteps
    <2>4. k.op = "create" => m = Idle
      OBVIOUS
    <2> HIDE DEF m
    <2>5. \A x \in Runs : x # k.run => rows'[x] = rows[x]
      BY <1>1, <2>1 DEF Table
    <2>6. k.op = "create" => Creates(c, k.run)
      BY <1>1, <2>1 DEF Creates
    <2>7. \A x \in Runs : rows'[x] \in {Nothing, rows[x]} \/ ~Uncreated(x) \/ (Creates(c, x) /\ m.pc = "idle")
      BY <1>1, <1>3, <2>1, <2>4, <2>5, <2>6
    <2>8. m.pc \in ListSteps => \A x \in DOMAIN m.seen : x \in Runs /\ (Uncreated(x) => m.seen[x] = Nothing)
      BY <1>4, <2>2, <2>3, <2>4
    <2>9. m.pc # "idle" => Busy(c) /\ m.op = call[c].op /\ m.run = call[c].run
      BY <1>1, <2>1, <2>3, <2>4
    <2>10. QED
      BY <2>1, <2>7, <2>8, <2>9, UncreatedKept
  <1>9. CASE ReadRow(c)
    <2>1. k.pc = "list" /\ rows' = rows /\ asked' = asked
      BY <1>9, ReadRowIs
    <2>2. PICK r \in k.left : Moves(c, At(k, "list", Noted(k.seen, r, rows[r]), k.left \ {r}))
      BY <1>9, ReadRowIs
    <2> DEFINE D == Runs \ k.left
               old == k.seen
               row == rows[r]
               seen == Noted(old, r, row)
               m == At(k, "list", seen, k.left \ {r})
    <2>3. /\ D \in SUBSET Runs /\ old \in Seen /\ DOMAIN old = D /\ r \in Runs /\ row \in Row \cup {Nothing}
          /\ \A x \in D : old[x] \in Row \cup {Nothing}
      BY <1>1, <2>1 DEF Shape, ListSteps, Table
    <2>4. \A x \in D : Uncreated(x) => old[x] = Nothing
      BY <1>1, <2>1, <2>3 DEF CoreInv, UncreatedInv, Lists, ListSteps
    <2>5. Uncreated(r) => row = Nothing
      BY <2>3 DEF CoreInv, UncreatedInv
    <2>6. Moves(c, m)
      BY <2>2
    <2> HIDE DEF D, old, row
    <2>7. DOMAIN seen = D \cup {r} /\ \A x \in D \cup {r} : seen[x] = IF x = r THEN row ELSE old[x]
      BY <2>3 DEF Noted
    <2>8. seen \in Seen
      BY <2>3, SeenGrows
    <2> HIDE DEF seen
    <2>9. m.pc = "list" /\ m.seen = seen /\ m.op = k.op /\ m.run = k.run
      BY <1>1, <2>8, AtIs DEF ListSteps
    <2> HIDE DEF m
    <2>10. \A x \in DOMAIN m.seen : x \in Runs /\ (Uncreated(x) => m.seen[x] = Nothing)
      BY <2>3, <2>4, <2>5, <2>7, <2>9
    <2>11. QED
      BY <1>1, <2>1, <2>6, <2>9, <2>10, UncreatedKept
  <1>10. CASE ChooseRow(c)
    <2>1. k.pc = "list" /\ k.op = "claim" /\ kind = "file" /\ rows' = rows
      BY <1>10, ChooseRowIs
    <2>2. ASSUME NEW r \in Runs, Moves(c, Chosen(k, r)), Claimed(k.seen[r]) \in Row, k.seen[r] \in Row,
                 asked.rows[r] \in Row, AskRow(r, Claimed(asked.rows[r]))
          PROVE  UncreatedInv'
      <3> DEFINE m == Chosen(k, r)
      <3>1. m.pc = "openRow" /\ m.op = k.op /\ m.run = r
        BY <1>1, <2>2, ChosenIs
      <3>2. Claimed(asked.rows[r]) \in Row
        BY <2>2, RowsAreRows DEF CoreInv
      <3>3. \A y \in Runs : asked'.rows[y] = Nothing <=> asked.rows[y] = Nothing
        BY <1>1, <2>2, <3>2 DEF AskRow, Table
      <3>4. Moves(c, m)
        BY <2>2
      <3>5. ~Uncreated(r)
        <4>1. r \in DOMAIN k.seen \/ k.left # {}
          BY <1>1, <2>1 DEF Shape, ListSteps
        <4>2. k.left = {}
          BY <1>10 DEF ChooseRow, Listed
        <4>3. QED
          BY <1>1, <2>1, <2>2, <4>1, <4>2 DEF CoreInv, UncreatedInv, Lists, ListSteps
      <3> HIDE DEF m
      <3>6. m.pc \notin ListSteps
        BY <3>1 DEF ListSteps
      <3>7. QED
        BY <1>1, <2>1, <3>1, <3>3, <3>4, <3>5, <3>6, UncreatedKept
    <2>3. QED
      BY <1>5, <1>10, <2>1, <2>2, ChooseRowIs
  <1>11. CASE OpenQueue(c)
    <2> DEFINE m == At(k, "writeQueue", k.seen, k.left)
    <2>1. k.pc = "list" /\ Moves(c, m) /\ rows' = rows /\ asked' = asked
      BY <1>11, OpenQueueIs
    <2>2. m.pc = "writeQueue" /\ m.seen = k.seen /\ m.op = k.op /\ m.run = k.run
      BY <1>1, AtIs DEF ListSteps
    <2> HIDE DEF m
    <2>3. \A x \in DOMAIN m.seen : x \in Runs /\ (Uncreated(x) => m.seen[x] = Nothing)
      BY <1>1, <2>1, <2>2 DEF CoreInv, UncreatedInv, Lists, ListSteps, Shape
    <2>4. QED
      BY <1>1, <2>1, <2>2, <2>3, UncreatedKept
  <1>12. CASE WriteQueue(c)
    BY <1>5, <1>12, WriteQueueIs
  <1>13. CASE ReadLog(c)
    <2> DEFINE m == At(k, "openLog", log[k.run], k.left)
    <2>1. k.pc = "readLog" /\ Appends(k) /\ Moves(c, m) /\ rows' = rows /\ asked' = asked
      BY <1>13, ReadLogIs
    <2>2. log[k.run] \in Seen
      BY <2>1 DEF CoreInv, TypeInv, Appends, Seen
    <2>3. m.pc = "openLog" /\ m.op = k.op /\ m.run = k.run
      BY <1>1, <2>2, AtIs DEF LogSteps
    <2> HIDE DEF m
    <2>4. m.pc \notin ListSteps
      BY <2>3 DEF ListSteps
    <2>5. QED
      BY <1>1, <2>1, <2>3, <2>4, UncreatedKept
  <1>14. CASE OpenLog(c)
    <2> DEFINE m == At(k, "writeLog", k.seen, k.left)
    <2>1. k.pc = "openLog" /\ Moves(c, m) /\ rows' = rows /\ asked' = asked
      BY <1>14, OpenLogIs
    <2>2. m.pc = "writeLog" /\ m.op = k.op /\ m.run = k.run
      BY <1>1, AtIs DEF LogSteps
    <2> HIDE DEF m
    <2>3. m.pc \notin ListSteps
      BY <2>2 DEF ListSteps
    <2>4. QED
      BY <1>1, <2>1, <2>2, <2>3, UncreatedKept
  <1>15. CASE WriteLog(c)
    BY <1>5, <1>15, WriteLogIs
  <1>16. QED
    BY <1>6, <1>7, <1>8, <1>9, <1>10, <1>11, <1>12, <1>13, <1>14, <1>15 DEF Work

LEMMA UncreatedStep ==
  ASSUME CoreInv, StoreStep PROVE UncreatedInv'
  <1>1. UncreatedInv /\ rows \in Table /\ asked.rows \in Table /\ Nothing \notin Row /\ Nothing \notin Runs
    BY DEF CoreInv, TypeInv
  <1>2. ASSUME NEW c \in Callers, NEW r \in Runs, CreateJob(c, r) PROVE UncreatedInv'
    <2>1. PICK k : Begins(c, k) /\ k.op = "create" /\ k.run = r
      BY <1>2, CreateJobIs
    <2>2. asked.rows[r] = Nothing /\ NewRow \in Row /\ AskRow(r, NewRow)
      BY <1>2, CreateJobIs
    <2>3. asked'.rows[r] # Nothing /\ \A x \in Runs : asked.rows[x] # Nothing => asked'.rows[x] # Nothing
      BY <1>1, <2>2 DEF AskRow, Table
    <2>4. QED
      BY <2>1, <2>2, <2>3, BeginsUncreated
  <1>3. ASSUME NEW c \in Callers, NEW r \in Runs, UpdateJob(c, r) PROVE UncreatedInv'
    <2>0. PICK row \in Row : \E k : Begins(c, k) /\ k.op = "update" /\ k.run = r /\ AskRow(r, row)
      BY <1>3, UpdateJobIs
    <2>1. PICK k : Begins(c, k) /\ k.op = "update" /\ k.run = r /\ AskRow(r, row)
      BY <2>0
    <2>2. ~Uncreated(r)
      <3>1. rows[r] \in Row
        BY <1>3, UpdateJobIs
      <3>2. QED
        BY <1>1, <3>1 DEF UncreatedInv
    <2>3. asked'.rows[r] # Nothing /\ \A x \in Runs : asked.rows[x] # Nothing => asked'.rows[x] # Nothing
      BY <1>1, <2>1 DEF AskRow, Table
    <2>4. QED
      BY <2>1, <2>2, <2>3, BeginsUncreated
  <1>4. ASSUME NEW c \in Callers, NEW r \in Runs, AppendRunEvent(c, r) PROVE UncreatedInv'
    <2>0. PICK event \in Event : \E k : Begins(c, k) /\ k.op = "append" /\ k.run = r /\ AskEvent(r, event)
      BY <1>4, AppendRunEventIs
    <2>1. PICK k : Begins(c, k) /\ k.op = "append" /\ k.run = r /\ AskEvent(r, event)
      BY <2>0
    <2>2. asked.rows[r] # Nothing /\ asked'.rows = asked.rows
      BY <1>4, <2>1, AppendRunEventIs DEF AskEvent
    <2>3. QED
      BY <2>1, <2>2, BeginsUncreated
  <1>5. ASSUME NEW c \in Callers, NEW k, Begins(c, k), k.run = Nothing, asked' = asked PROVE UncreatedInv'
    BY <1>1, <1>5, BeginsUncreated
  <1>6. ASSUME NEW c \in Callers, ClaimNextQueuedJob(c) \/ Refresh(c) PROVE UncreatedInv'
    BY <1>5, <1>6, ClaimIs, RefreshIs
  <1>7. CASE UNCHANGED <<rows, asked, call>>
    BY <1>1, <1>7 DEF UncreatedInv, Uncreated, Creates, Lists, Busy
  <1>8. CASE LoseCalls
    <2>1. \A c \in Callers : call'[c] = Idle
      BY <1>8, LoseIs
    <2>2. \A c \in Callers : call'[c].pc = "idle"
      BY <2>1 DEF Idle
    <2>3. rows' = rows /\ asked' = asked
      BY <1>8, LoseIs
    <2>4. QED
      BY <1>1, <2>2, <2>3 DEF UncreatedInv, Uncreated, Creates, Lists, Busy, ListSteps
  <1>9. (Wait \/ UNCHANGED stores) => UNCHANGED <<rows, asked, call>>
    BY DEF Wait, stores
  <1>10. QED
    BY <1>2, <1>3, <1>4, <1>6, <1>7, <1>8, <1>9, WorkUncreated DEF StoreStep, Request

LEMMA CoreStep ==
  ASSUME CoreInv, StoreStep PROVE CoreInv'
  BY TypeStep, ShapeStep, UncreatedStep DEF CoreInv

LEMMA CoreInit == StoresInit => CoreInv
  <1> SUFFICES ASSUME StoresInit PROVE CoreInv
    OBVIOUS
  <1>1. rows \in Table /\ asked.rows = rows
    BY DEF StoresInit, Table
  <1>2. << >> \in Seq(Event)
    OBVIOUS
  <1>3. log \in [Runs -> Seq(Event)]
    BY <1>2 DEF StoresInit
  <1>4. call \in [Callers -> Call] /\ (\A c \in Callers : call[c] = Idle /\ call[c].pc = "idle")
    BY IdleIsCall DEF StoresInit, Idle
  <1>5. asked \in [rows : Table, log : [Runs -> Seq(Event)]]
    BY <1>1, <1>3 DEF StoresInit
  <1>6. TypeInv
    BY <1>1, <1>3, <1>4, <1>5 DEF TypeInv, StoresInit
  <1>7. ShapeInv
    BY <1>4, IdleHasShape DEF ShapeInv
  <1>8. UncreatedInv
    BY <1>1, <1>4 DEF UncreatedInv, Uncreated, Creates, Lists, Busy, ListSteps
  <1>9. QED
    BY <1>6, <1>7, <1>8 DEF CoreInv
-----------------------------------------------------------------------------
(* Calls about different runs.  What call k, as long as it is the only one *)
(* about r, has still to write of r: its row, or its event.                *)
WritesRow(k) == k.op # "append" /\ k.pc \in RowSteps \cup {"statement"}
Holds(k) == k.pc \in {"openLog", "writeLog"}
StillTo(k, r) ==
    /\ asked.rows[r] = IF WritesRow(k) THEN k.row ELSE rows[r]
    /\ ToSet(asked.log[r]) = ToSet(IF Holds(k) THEN k.seen ELSE log[r])
                                \cup (IF k.op = "append" THEN {k.event} ELSE {})
    /\ k.pc = "statement" /\ k.op = "update" => rows[r] # Nothing /\ rows[r].status # "QUEUED"
    /\ k.pc = "writeRow" => rows[r] = Nothing
    /\ k.pc = "writeLog" => log[r] = << >>
Told(r) == rows[r] = asked.rows[r] /\ ToSet(log[r]) = ToSet(asked.log[r])
ApartInv == \A r \in Runs \ clash :
    /\ \A c, d \in Callers : r \in About(c) /\ r \in About(d) => c = d
    /\ \A c \in Callers : r \in About(c) => StillTo(call[c], r)
    /\ (\A c \in Callers : r \notin About(c)) => Told(r)

(* A step that leaves alone what is stored of r, or claims it for its      *)
(* callers and in a database at once.                                      *)
SameOf(r) == /\ rows'[r] = rows[r] /\ asked'.rows[r] = asked.rows[r]
             /\ log'[r] = log[r] /\ asked'.log[r] = asked.log[r]
ClaimedOf(r) == /\ kind = "database" /\ rows[r] \in Row /\ rows[r].status = "QUEUED"
                /\ rows'[r] = Claimed(rows[r]) /\ asked'.rows[r] = Claimed(asked.rows[r])
                /\ log'[r] = log[r] /\ asked'.log[r] = asked.log[r]

LEMMA ToldKept ==
  ASSUME NEW r, Told(r), SameOf(r) \/ ClaimedOf(r) PROVE Told(r)'
  BY DEF Told, SameOf, ClaimedOf

LEMMA StillToKept ==
  ASSUME CoreInv, NEW d \in Callers, NEW r \in Runs, r \in About(d), StillTo(call[d], r),
         SameOf(r) \/ ClaimedOf(r), NEW k, k = call[d]
  PROVE  StillTo(k, r)'
  <1>1. CASE SameOf(r)
    BY <1>1 DEF StillTo, SameOf
  <1>2. CASE ClaimedOf(r)
    <2>1. k.pc = "statement" /\ k.run = r /\ (Rewrites(k) \/ Appends(k))
      <3>1. Shape(k) /\ k.pc # "idle" /\ k.run = r /\ kind = "database" /\ k \in Call
        BY <1>2 DEF CoreInv, TypeInv, ShapeInv, About, Busy, ClaimedOf
      <3>2. k.pc = "statement"
        BY <3>1, CallFields DEF Shape, RowSteps, ListSteps, LogSteps
      <3>3. QED
        BY <3>1, <3>2 DEF Shape
    <2>2. rows[r] # Nothing /\ rows[r].status = "QUEUED"
      BY <1>2 DEF ClaimedOf
    <2>3. ~Rewrites(k)
      <3>1. CASE k.op = "update"
        BY <2>1, <2>2, <3>1 DEF StillTo
      <3>2. CASE k.op = "create"
        BY <2>1, <2>2, <3>2 DEF CoreInv, UncreatedInv, Uncreated, Creates, Busy
      <3>3. QED
        BY <3>1, <3>2 DEF Rewrites
    <2>4. k.op = "append" /\ ~WritesRow(k)
      BY <2>1, <2>3 DEF Appends, WritesRow
    <2>5. asked.rows[r] = rows[r]
      BY <2>4 DEF StillTo
    <2>6. rows'[r] = asked'.rows[r] /\ log'[r] = log[r] /\ asked'.log[r] = asked.log[r]
      BY <1>2, <2>5 DEF ClaimedOf
    <2>7. QED
      BY <2>1, <2>4, <2>6 DEF StillTo
  <1>3. QED
    BY <1>1, <1>2

LEMMA ApartKept ==
  ASSUME CoreInv, ApartInv, NEW c \in Callers, NEW m, Moves(c, m), clash \subseteq clash',
         m.pc # "idle" /\ m.run # Nothing => m.run \in About(c),
         \A x \in Runs \ About(c) : SameOf(x) \/ ClaimedOf(x),
         \A x \in About(c) : StillTo(call[c], x) =>
             IF m.pc = "idle" THEN Told(x)' ELSE m.run = x /\ StillTo(m, x)'
  PROVE  ApartInv'
  <1> DEFINE AboutNow(d) == IF call'[d].pc # "idle" THEN {call'[d].run} \ {Nothing} ELSE {}
  <1>1. \A d \in Callers : AboutNow(d) = About(d)'
    BY DEF About, Busy
  <1>2. \A d \in Callers \ {c} : call'[d] = call[d] /\ AboutNow(d) = About(d)
    BY DEF Moves, About, Busy
  <1>3. call'[c] = m /\ AboutNow(c) = IF m.pc # "idle" THEN {m.run} \ {Nothing} ELSE {}
    BY DEF Moves
  <1> HIDE DEF AboutNow
  <1>4. AboutNow(c) \subseteq About(c)
    BY <1>3
  <1>5. \A d \in Callers : AboutNow(d) \subseteq About(d)
    BY <1>2, <1>4
  <1> SUFFICES ASSUME NEW r \in Runs \ clash'
               PROVE  /\ \A d, e \in Callers : r \in AboutNow(d) /\ r \in AboutNow(e) => d = e
                      /\ \A d \in Callers : r \in AboutNow(d) => StillTo(call[d], r)'
                      /\ (\A d \in Callers : r \notin AboutNow(d)) => Told(r)'
    BY <1>1 DEF ApartInv
  <1>6. r \in Runs \ clash
    OBVIOUS
  <1>7. \A d, e \in Callers : r \in AboutNow(d) /\ r \in AboutNow(e) => d = e
    BY <1>5, <1>6 DEF ApartInv
  <1>8. ASSUME NEW d \in Callers, r \in AboutNow(d) PROVE StillTo(call[d], r)'
    <2>1. r \in About(d) /\ StillTo(call[d], r)
      BY <1>5, <1>6, <1>8 DEF ApartInv
    <2>2. CASE d = c
      <3>1. m.pc # "idle"
        BY <1>3, <1>8, <2>2
      <3>2. StillTo(m, r)'
        BY <2>1, <2>2, <3>1
      <3>3. QED
        BY <1>3, <2>2, <3>2 DEF StillTo, WritesRow, Holds
    <2>3. CASE d # c
      <3>1. r \notin About(c)
        BY <1>6, <2>1, <2>3 DEF ApartInv
      <3>2. PICK k : k = call[d]
        OBVIOUS
      <3>3. StillTo(k, r)'
        BY <2>1, <3>1, <3>2, StillToKept
      <3>4. QED
        BY <1>2, <2>3, <3>2, <3>3 DEF StillTo, WritesRow, Holds
    <2>4. QED
      BY <2>2, <2>3
  <1>9. ASSUME \A d \in Callers : r \notin AboutNow(d) PROVE Told(r)'
    <2>1. CASE r \in About(c)
      <3>1. StillTo(call[c], r)
        BY <1>6, <2>1 DEF ApartInv
      <3>2. m.pc = "idle"
        <4>1. m.pc # "idle" => m.run = r
          BY <2>1, <3>1
        <4>2. r # Nothing
          BY <2>1 DEF About
        <4>3. QED
          BY <1>3, <1>9, <4>1, <4>2
      <3>3. QED
        BY <2>1, <3>1, <3>2
    <2>2. CASE r \notin About(c)
      <3>1. \A d \in Callers : r \notin About(d)
        BY <1>2, <1>9, <2>2
      <3>2. Told(r)
        BY <1>6, <3>1 DEF ApartInv
      <3>3. QED
        BY <2>2, <3>2, ToldKept
    <2>3. QED
      BY <2>1, <2>2
  <1>10. QED
    BY <1>7, <1>8, <1>9

(* A call that comes to be about r. *)
LEMMA ApartJoins ==
  ASSUME CoreInv, ApartInv, NEW c \in Callers, NEW m, NEW r \in Runs, Moves(c, m),
         m.pc # "idle", m.run = r, About(c) = {}, Clashing(c, r) \subseteq clash',
         \A x \in Runs \ {r} : SameOf(x),
         r \notin clash' /\ Told(r) => StillTo(m, r)'
  PROVE  ApartInv'
  <1> DEFINE AboutNow(d) == IF call'[d].pc # "idle" THEN {call'[d].run} \ {Nothing} ELSE {}
  <1>1. \A d \in Callers : AboutNow(d) = About(d)'
    BY DEF About, Busy
  <1>2. \A d \in Callers \ {c} : call'[d] = call[d] /\ AboutNow(d) = About(d)
    BY DEF Moves, About, Busy
  <1>3. call'[c] = m /\ AboutNow(c) = {r}
    BY DEF Moves
  <1> HIDE DEF AboutNow
  <1>4. clash \subseteq clash' /\ (r \notin clash' => \A d \in Callers \ {c} : r \notin About(d))
    BY DEF Clashing, Others
  <1> SUFFICES ASSUME NEW x \in Runs \ clash'
               PROVE  /\ \A d, e \in Callers : x \in AboutNow(d) /\ x \in AboutNow(e) => d = e
                      /\ \A d \in Callers : x \in AboutNow(d) => StillTo(call[d], x)'
                      /\ (\A d \in Callers : x \notin AboutNow(d)) => Told(x)'
    BY <1>1 DEF ApartInv
  <1>5. x \in Runs \ clash
    BY <1>4
  <1>6. CASE x = r
    <2>1. \A d \in Callers \ {c} : x \notin AboutNow(d)
      BY <1>2, <1>4, <1>6
    <2>2. \A d \in Callers : x \notin About(d)
      BY <1>4, <1>6
    <2>3. Told(r)
      BY <1>5, <1>6, <2>2 DEF ApartInv
    <2>4. StillTo(m, r)'
      BY <1>6, <2>3
    <2>5. StillTo(call[c], r)'
      BY <1>3, <2>4 DEF StillTo, WritesRow, Holds
    <2>6. QED
      BY <1>3, <1>6, <2>1, <2>5
  <1>7. CASE x # r
    <2>1. SameOf(x) /\ \A d \in Callers : AboutNow(d) \ {r} = About(d) \ {r}
      BY <1>2, <1>3, <1>7
    <2>2. \A d \in Callers : x \in AboutNow(d) => x \in About(d) /\ d # c
      BY <1>3, <1>7, <2>1
    <2>3. \A d, e \in Callers : x \in AboutNow(d) /\ x \in AboutNow(e) => d = e
      BY <1>5, <2>2 DEF ApartInv
    <2>4. ASSUME NEW d \in Callers, x \in AboutNow(d) PROVE StillTo(call[d], x)'
      <3>1. x \in About(d) /\ d # c /\ StillTo(call[d], x)
        BY <1>5, <2>2, <2>4 DEF ApartInv
      <3>2. PICK k : k = call[d]
        OBVIOUS
      <3>3. StillTo(k, x)'
        BY <2>1, <3>1, <3>2, StillToKept
      <3>4. QED
        BY <1>2, <3>1, <3>2, <3>3 DEF StillTo, WritesRow, Holds
    <2>5. ASSUME \A d \in Callers : x \notin AboutNow(d) PROVE Told(x)'
      <3>1. \A d \in Callers : x \notin About(d)
        BY <1>7, <2>1, <2>5
      <3>2. Told(x)
        BY <1>5, <3>1 DEF ApartInv
      <3>3. QED
        BY <2>1, <3>2, ToldKept
    <2>6. QED
      BY <2>3, <2>4, <2>5
  <1>8. QED
    BY <1>6, <1>7

LEMMA AppendedSet ==
  ASSUME NEW T, NEW s \in Seq(T), NEW e \in T
  PROVE  ToSet(Append(s, e)) = ToSet(s) \cup {e}
  <1> DEFINE t == Append(s, e)
  <1>1. /\ DOMAIN t = 1..(Len(s) + 1) /\ DOMAIN s = 1..Len(s) /\ Len(s) \in Nat
        /\ t[Len(s) + 1] = e /\ \A i \in 1..Len(s) : t[i] = s[i]
    OBVIOUS
  <1> HIDE DEF t
  <1>2. 1..(Len(s) + 1) = (1..Len(s)) \cup {Len(s) + 1}
    BY <1>1
  <1>3. ToSet(t) = {t[i] : i \in 1..Len(s)} \cup {e}
    BY <1>1, <1>2 DEF ToSet
  <1>4. {t[i] : i \in 1..Len(s)} = ToSet(s)
    BY <1>1 DEF ToSet
  <1>5. QED
    BY <1>3, <1>4 DEF t

LEMMA WorkApart ==
  ASSUME CoreInv, ApartInv, NEW c \in Callers, Work(c) PROVE ApartInv'
  <1>0. PICK k : k = call[c]
    OBVIOUS
  <1> DEFINE r == k.run
  <1>1. /\ k \in Call /\ Shape(k) /\ k.left \in SUBSET Runs /\ k.seen \in Seen /\ Idle.pc = "idle"
        /\ rows \in Table /\ asked.rows \in Table /\ log \in [Runs -> Seq(Event)]
        /\ asked.log \in [Runs -> Seq(Event)] /\ Nothing \notin Runs /\ Nothing \notin Row
    BY <1>0, CallFields DEF CoreInv, TypeInv, ShapeInv, Idle
  <1>2. /\ k.pc # "idle" => About(c) = {r} \ {Nothing}
        /\ k.pc # "idle" /\ r # Nothing => r \in About(c)
        /\ \A x \in About(c) : x = r
    BY <1>0 DEF About, Busy
  <1>3. ASSUME UNCHANGED <<rows, log, asked>> PROVE \A x \in Runs : SameOf(x)
    BY <1>3 DEF SameOf
  <1>5. ASSUME NEW text, log' = [log EXCEPT ![r] = text], UNCHANGED <<rows, asked>>
        PROVE  \A x \in Runs \ {r} : SameOf(x)
    BY <1>1, <1>5 DEF SameOf
  <1>6. ASSUME NEW row, rows' = [rows EXCEPT ![r] = row], UNCHANGED <<log, asked>>
        PROVE  \A x \in Runs \ {r} : SameOf(x)
    BY <1>1, <1>6 DEF SameOf, Table
  <1>7. CASE Statement(c)
    <2>1. k.pc = "statement" /\ Moves(c, Idle) /\ clash' = clash
      BY <1>0, <1>7, StatementIs
    <2>2. CASE Rewrites(k) /\ rows' = [rows EXCEPT ![r] = k.row] /\ UNCHANGED <<log, asked>>
      <3>1. \A x \in Runs \ {r} : SameOf(x)
        BY <1>6, <2>2
      <3>2. r \in About(c) /\ r \in Runs
        BY <1>1, <1>2, <2>1, <2>2 DEF Rewrites
      <3>3. rows'[r] = k.row /\ asked' = asked /\ log' = log
        BY <1>1, <2>2, <3>2 DEF Table
      <3>4. WritesRow(k) /\ ~Holds(k) /\ k.op # "append"
        BY <2>1, <2>2 DEF WritesRow, Holds, Rewrites
      <3>5. StillTo(k, r) => Told(r)'
        BY <3>3, <3>4 DEF StillTo, Told
      <3>6. QED
        BY <1>0, <1>1, <1>2, <2>1, <3>1, <3>2, <3>5, ApartKept
    <2>3. CASE Appends(k) /\ log' = [log EXCEPT ![r] = Append(log[r], k.event)] /\ UNCHANGED <<rows, asked>>
      <3>1. \A x \in Runs \ {r} : SameOf(x)
        BY <1>5, <2>3
      <3>2. r \in About(c) /\ r \in Runs /\ k.event \in Event /\ k.op = "append"
        BY <1>1, <1>2, <2>1, <2>3 DEF Appends
      <3>3. log'[r] = Append(log[r], k.event) /\ asked' = asked /\ rows' = rows
        BY <1>1, <2>3, <3>2
      <3>4. ToSet(log'[r]) = ToSet(log[r]) \cup {k.event}
        BY <1>1, <3>2, <3>3, AppendedSet
      <3>5. ~WritesRow(k) /\ ~Holds(k)
        BY <2>1, <3>2 DEF WritesRow, Holds
      <3>6. StillTo(k, r) => Told(r)'
        BY <3>2, <3>3, <3>4, <3>5 DEF StillTo, Told
      <3>7. QED
        BY <1>0, <1>1, <1>2, <2>1, <3>1, <3>2, <3>6, ApartKept
    <2>4. CASE r = Nothing /\ UNCHANGED <<rows, log, asked>>
      <3>1. About(c) = {}
        BY <1>2, <2>1, <2>4
      <3>2. QED
        BY <1>0, <1>1, <1>3, <2>1, <2>4, <3>1, ApartKept
    <2>5. ASSUME r = Nothing, NEW x \in Runs, rows[x] \in Row, rows[x].status = "QUEUED",
                 rows' = [rows EXCEPT ![x] = Claimed(rows[x])],
                 AskRow(x, Claimed(asked.rows[x])), UNCHANGED log
          PROVE  ApartInv'
      <3>1. About(c) = {}
        BY <1>2, <2>1, <2>5
      <3>2. \A y \in Runs \ {x} : SameOf(y)
        BY <1>1, <2>5 DEF SameOf, AskRow, Table
      <3>3. ClaimedOf(x)
        <4>1. kind = "database"
          BY <1>0, <1>7, StatementIs
        <4>2. rows'[x] = Claimed(rows[x]) /\ asked'.rows[x] = Claimed(asked.rows[x]) /\ asked'.log = asked.log
          BY <1>1, <2>5 DEF AskRow, Table
        <4>3. QED
          BY <2>5, <4>1, <4>2 DEF ClaimedOf
      <3>4. \A y \in Runs : SameOf(y) \/ ClaimedOf(y)
        BY <3>2, <3>3
      <3>5. QED
        BY <1>0, <1>1, <2>1, <3>1, <3>4, ApartKept
    <2>6. QED
      BY <1>0, <1>7, <2>2, <2>3, <2>4, <2>5, StatementIs
  <1>8. CASE OpenRow(c)
    <2> DEFINE m == At(k, "writeRow", k.seen, k.left)
    <2>1. /\ k.pc = "openRow" /\ k.op \in {"create", "update", "claim"} /\ r \in Runs
          /\ Moves(c, m) /\ rows' = [rows EXCEPT ![r] = Nothing] /\ UNCHANGED <<log, asked, clash>>
      BY <1>0, <1>8, OpenRowIs
    <2>2. m.pc = "writeRow" /\ m.op = k.op /\ m.run = r /\ m.row = k.row /\ m.seen = k.seen
      BY <1>0, <1>1, AtIs DEF RowSteps
    <2> HIDE DEF m
    <2>3. rows'[r] = Nothing /\ \A x \in Runs \ {r} : SameOf(x)
      BY <1>1, <1>6, <2>1 DEF Table
    <2>4. WritesRow(k) /\ WritesRow(m) /\ ~Holds(k) /\ ~Holds(m)
      BY <2>1, <2>2 DEF WritesRow, Holds, RowSteps
    <2>5. StillTo(k, r) => StillTo(m, r)'
      BY <2>1, <2>2, <2>3, <2>4 DEF StillTo
    <2>6. r \in About(c)
      BY <1>1, <1>2, <2>1
    <2>7. QED
      BY <1>0, <1>2, <2>1, <2>2, <2>3, <2>5, <2>6, ApartKept
  <1>9. CASE WriteRow(c)
    <2> DEFINE m == IF k.op = "create" THEN Idle ELSE At(k, "list", << >>, Runs)
    <2>1. /\ k.pc = "writeRow" /\ k.op \in {"create", "update", "claim"} /\ r \in Runs
          /\ Moves(c, m) /\ UNCHANGED <<log, asked, clash>>
      BY <1>0, <1>9, WriteRowIs
    <2>2. PICK row : rows' = [rows EXCEPT ![r] = row] /\ (rows[r] = Nothing => row = k.row)
      BY <1>0, <1>9, WriteRowIs
    <2>3. << >> \in Seen
      BY DEF Seen
    <2>4. k.op # "create" => m.pc = "list" /\ m.op = k.op /\ m.run = r
      BY <1>0, <1>1, <2>3, AtIs DEF ListSteps
    <2>5. k.op = "create" => m.pc = "idle"
      BY <1>1
    <2> HIDE DEF m
    <2>6. rows'[r] = row /\ \A x \in Runs \ {r} : SameOf(x)
      BY <1>1, <1>6, <2>1, <2>2 DEF Table
    <2>7. WritesRow(k) /\ ~Holds(k) /\ k.op # "append"
      BY <2>1 DEF WritesRow, Holds, RowSteps
    <2>8. StillTo(k, r) => rows'[r] = asked.rows[r] /\ ToSet(asked.log[r]) = ToSet(log[r])
      BY <2>1, <2>2, <2>6, <2>7 DEF StillTo
    <2>9. k.op # "create" => ~WritesRow(m) /\ ~Holds(m) /\ m.op # "append"
      BY <2>4, <2>7 DEF WritesRow, Holds, RowSteps
    <2>10. StillTo(k, r) => IF m.pc = "idle" THEN Told(r)' ELSE m.run = r /\ StillTo(m, r)'
      BY <2>1, <2>4, <2>5, <2>8, <2>9 DEF StillTo, Told
    <2>11. r \in About(c)
      BY <1>1, <1>2, <2>1
    <2>12. QED
      BY <1>0, <1>2, <2>1, <2>4, <2>5, <2>6, <2>10, <2>11, ApartKept
  <1>10. CASE ReadRow(c)
    <2>1. k.pc = "list" /\ UNCHANGED <<rows, log, asked, clash>>
      BY <1>0, <1>10, ReadRowIs
    <2>2. PICK x \in k.left : Moves(c, At(k, "list", Noted(k.seen, x, rows[x]), k.left \ {x}))
      BY <1>0, <1>10, ReadRowIs
    <2>a. PICK seen : seen = Noted(k.seen, x, rows[x])
      OBVIOUS
    <2> DEFINE m == At(k, "list", seen, k.left \ {x})
    <2>3. seen \in Seen
      BY <2>a, <1>1, <2>1, SeenGrows DEF Shape, ListSteps, Table
    <2>4. Moves(c, m)
      BY <2>a, <2>2
    <2>b. "list" \in ListSteps /\ k.left \ {x} \in SUBSET Runs
      BY <1>1 DEF ListSteps
    <2>5. m.pc = "list" /\ m.op = k.op /\ m.run = r
      BY <1>0, <1>1, <2>3, <2>b, AtIs
    <2> HIDE DEF m
    <2>6. ~WritesRow(k) /\ ~Holds(k) /\ ~WritesRow(m) /\ ~Holds(m) /\ k.op # "append"
      BY <1>1, <2>1, <2>5 DEF WritesRow, Holds, RowSteps, Shape, ListSteps
    <2>7. StillTo(k, r) => StillTo(m, r)'
      BY <2>1, <2>5, <2>6 DEF StillTo
    <2>8. QED
      BY <1>0, <1>2, <1>3, <2>1, <2>4, <2>5, <2>7, ApartKept
  <1>11. CASE ChooseRow(c)
    <2>1. k.pc = "list" /\ k.op = "claim" /\ r = Nothing /\ UNCHANGED <<rows, log>>
      BY <1>0, <1>11, ChooseRowIs
    <2>2. About(c) = {}
      BY <1>2, <2>1
    <2>3. CASE Moves(c, Idle) /\ UNCHANGED <<asked, clash, fresh>>
      BY <1>0, <1>1, <1>3, <2>1, <2>2, <2>3, ApartKept
    <2>4. ASSUME NEW x \in Runs, Moves(c, Chosen(k, x)), Claimed(k.seen[x]) \in Row,
                 AskRow(x, Claimed(asked.rows[x])),
                 clash' = Clashing(c, x) \cup {y \in {x} : rows[y] # k.seen[y]}
          PROVE  ApartInv'
      <3>a. PICK m : m = Chosen(k, x)
        OBVIOUS
      <3>1. m.pc = "openRow" /\ m.op = k.op /\ m.run = x /\ m.row = Claimed(k.seen[x])
        BY <3>a, <1>0, <1>1, <2>4, ChosenIs
      <3>2. Moves(c, m)
        BY <3>a, <2>4
      <3>3. /\ asked'.rows[x] = Claimed(asked.rows[x]) /\ asked'.log = asked.log
            /\ \A y \in Runs \ {x} : SameOf(y)
        BY <1>1, <2>1, <2>4 DEF AskRow, SameOf, Table
      <3>4. WritesRow(m) /\ ~Holds(m) /\ m.op # "append"
        BY <2>1, <3>1 DEF WritesRow, Holds, RowSteps
      <3>5. x \notin clash' => rows[x] = k.seen[x]
        BY <2>4
      <3>6. x \notin clash' /\ Told(x) => asked'.rows[x] = m.row /\ ToSet(asked'.log[x]) = ToSet(log'[x])
        BY <2>1, <3>1, <3>3, <3>5 DEF Told
      <3>7. x \notin clash' /\ Told(x) => StillTo(m, x)'
        BY <3>1, <3>4, <3>6 DEF StillTo
      <3>8. Clashing(c, x) \subseteq clash'
        BY <2>4
      <3>9. QED
        BY <1>0, <2>2, <3>1, <3>2, <3>3, <3>7, <3>8, ApartJoins
    <2>5. QED
      BY <1>0, <1>11, <2>3, <2>4, ChooseRowIs
  <1>12. CASE OpenQueue(c)
    <2> DEFINE m == At(k, "writeQueue", k.seen, k.left)
    <2>a. "writeQueue" \in ListSteps
      BY DEF ListSteps
    <2>1. k.pc = "list" /\ Moves(c, m) /\ UNCHANGED <<rows, log, asked, clash>>
      BY <1>0, <1>12, OpenQueueIs
    <2>2. m.pc = "writeQueue" /\ m.op = k.op /\ m.run = r
      <3>1. k \in Call /\ k.left \in SUBSET Runs /\ k.seen \in Seen
        BY <1>1
      <3>2. QED
        BY <2>a, <3>1, AtIs
    <2> HIDE DEF m
    <2>3. ~WritesRow(k) /\ ~Holds(k) /\ ~WritesRow(m) /\ ~Holds(m) /\ k.op # "append"
      BY <1>1, <2>1, <2>2 DEF WritesRow, Holds, RowSteps, Shape, ListSteps
    <2>4. StillTo(k, r) => StillTo(m, r)'
      BY <2>1, <2>2, <2>3 DEF StillTo
    <2>5. QED
      BY <1>0, <1>2, <1>3, <2>1, <2>2, <2>4, ApartKept
  <1>13. CASE WriteQueue(c)
    <2>1. k.pc = "writeQueue" /\ Moves(c, Idle) /\ UNCHANGED <<rows, log, asked, clash>>
      BY <1>0, <1>13, WriteQueueIs
    <2>2. ~WritesRow(k) /\ ~Holds(k) /\ k.op # "append"
      BY <1>1, <2>1 DEF WritesRow, Holds, RowSteps, Shape, ListSteps
    <2>3. StillTo(k, r) => Told(r)'
      BY <2>1, <2>2 DEF StillTo, Told
    <2>4. QED
      BY <1>0, <1>1, <1>2, <1>3, <2>1, <2>3, ApartKept
  <1>14. CASE ReadLog(c)
    <2>a. PICK file : file = log[r]
      OBVIOUS
    <2> DEFINE m == At(k, "openLog", file, k.left)
    <2>1. k.pc = "readLog" /\ Appends(k) /\ Moves(c, m) /\ UNCHANGED <<rows, log, asked, clash>>
      BY <2>a, <1>0, <1>14, ReadLogIs
    <2>2. file \in Seen
      BY <2>a, <1>1, <2>1 DEF Appends, Seen
    <2>3. m.pc = "openLog" /\ m.seen = file /\ m.op = k.op /\ m.run = r /\ m.event = k.event
      BY <1>0, <1>1, <2>2, AtIs DEF LogSteps
    <2> HIDE DEF m
    <2>4. ~WritesRow(k) /\ ~Holds(k) /\ ~WritesRow(m) /\ Holds(m) /\ k.op = "append"
      BY <2>1, <2>3 DEF WritesRow, Holds, RowSteps, Appends
    <2>5. StillTo(k, r) => StillTo(m, r)'
      BY <2>a, <2>1, <2>3, <2>4 DEF StillTo
    <2>6. QED
      BY <1>0, <1>2, <1>3, <2>1, <2>3, <2>5, ApartKept
  <1>15. CASE OpenLog(c)
    <2> DEFINE m == At(k, "writeLog", k.seen, k.left)
    <2>1. k.pc = "openLog" /\ Appends(k) /\ Moves(c, m) /\ UNCHANGED <<rows, asked, clash>>
          /\ log' = [log EXCEPT ![r] = << >>]
      BY <1>0, <1>15, OpenLogIs
    <2>2. m.pc = "writeLog" /\ m.seen = k.seen /\ m.op = k.op /\ m.run = r /\ m.event = k.event
      BY <1>0, <1>1, AtIs DEF LogSteps
    <2> HIDE DEF m
    <2>3. ~WritesRow(k) /\ Holds(k) /\ ~WritesRow(m) /\ Holds(m) /\ k.op = "append" /\ r \in Runs
      BY <2>1, <2>2 DEF WritesRow, Holds, RowSteps, Appends
    <2>4. log'[r] = << >> /\ \A x \in Runs \ {r} : SameOf(x)
      BY <1>1, <1>5, <2>1, <2>3
    <2>5. StillTo(k, r) => StillTo(m, r)'
      BY <2>1, <2>2, <2>3, <2>4 DEF StillTo
    <2>6. r \in About(c)
      BY <1>1, <1>2, <2>1, <2>3
    <2>7. QED
      BY <1>0, <1>2, <2>1, <2>2, <2>4, <2>5, <2>6, ApartKept
  <1>16. CASE WriteLog(c)
    <2> DEFINE file == Inserted(k.seen, k.event)
    <2>1. k.pc = "writeLog" /\ Appends(k) /\ Moves(c, Idle) /\ UNCHANGED <<rows, asked, clash>>
          /\ k.seen \in Seq(Event)
      BY <1>0, <1>16, WriteLogIs
    <2>2. PICK text : log' = [log EXCEPT ![r] = text] /\ (log[r] = << >> => text = file)
      BY <1>0, <1>16, WriteLogIs
    <2>3. ToSet(file) = ToSet(k.seen) \cup {k.event}
      BY <1>0, <2>1, InsertedIs DEF Appends
    <2> HIDE DEF file
    <2>4. ~WritesRow(k) /\ Holds(k) /\ k.op = "append" /\ r \in Runs
      BY <2>1 DEF WritesRow, Holds, RowSteps, Appends
    <2>5. log'[r] = text /\ \A x \in Runs \ {r} : SameOf(x)
      BY <1>1, <1>5, <2>1, <2>2, <2>4
    <2>6. StillTo(k, r) => Told(r)'
      BY <2>1, <2>2, <2>3, <2>4, <2>5 DEF StillTo, Told
    <2>7. r \in About(c)
      BY <1>1, <1>2, <2>1, <2>4
    <2>8. QED
      BY <1>0, <1>1, <1>2, <2>1, <2>5, <2>6, <2>7, ApartKept
  <1>17. QED
    BY <1>7, <1>8, <1>9, <1>10, <1>11, <1>12, <1>13, <1>14, <1>15, <1>16 DEF Work

LEMMA ApartStep ==
  ASSUME CoreInv, ApartInv, StoreStep PROVE ApartInv'
  <1>1. /\ rows \in Table /\ asked.rows \in Table /\ log \in [Runs -> Seq(Event)]
        /\ asked.log \in [Runs -> Seq(Event)] /\ Nothing \notin Runs
    BY DEF CoreInv, TypeInv
  <1>2. ASSUME NEW c \in Callers, NEW k, Begins(c, k)
        PROVE  /\ About(c) = {} /\ Moves(c, k) /\ UNCHANGED <<kind, rows, log>>
               /\ k.run = Nothing => clash' = clash
               /\ k.run # Nothing => clash' = Clashing(c, k.run)
    BY <1>2 DEF Begins, About
  <1>3. ASSUME NEW c \in Callers, NEW k, Begins(c, k)
        PROVE  /\ k.op \in {"create", "update"} => k.pc \in {"statement", "openRow"}
               /\ k.op = "append" => k.pc \in {"statement", "readLog"}
               /\ k.op \in {"create", "update", "append"} => k.pc # "idle"
    BY <1>3 DEF Begins, FirstStep, CoreInv, TypeInv
  <1>4. ASSUME NEW c \in Callers, NEW r \in Runs, CreateJob(c, r) PROVE ApartInv'
    <2>1. PICK k : Begins(c, k) /\ k.op = "create" /\ k.run = r /\ k.row = NewRow
      BY <1>4, CreateJobIs
    <2>2. AskRow(r, NewRow)
      BY <1>4, CreateJobIs
    <2>3. asked'.rows[r] = k.row /\ asked'.log = asked.log /\ \A x \in Runs \ {r} : SameOf(x)
      BY <1>1, <1>2, <2>1, <2>2 DEF AskRow, SameOf, Table
    <2>4. WritesRow(k) /\ ~Holds(k) /\ k.pc \in {"statement", "openRow"}
      BY <1>3, <2>1 DEF WritesRow, Holds, RowSteps
    <2>5. Told(r) => StillTo(k, r)'
      BY <1>2, <2>1, <2>3, <2>4 DEF Told, StillTo
    <2>6. QED
      BY <1>1, <1>2, <2>1, <2>3, <2>4, <2>5, ApartJoins
  <1>5. ASSUME NEW c \in Callers, NEW r \in Runs, UpdateJob(c, r) PROVE ApartInv'
    <2>0. PICK row \in Row : \E k : Begins(c, k) /\ k.op = "update" /\ k.run = r /\ k.row = row /\ AskRow(r, row)
      BY <1>5, UpdateJobIs
    <2>1. PICK k : Begins(c, k) /\ k.op = "update" /\ k.run = r /\ k.row = row /\ AskRow(r, row)
      BY <2>0
    <2>2. rows[r] # Nothing /\ rows[r].status # "QUEUED"
      BY <1>5, UpdateJobIs
    <2>3. asked'.rows[r] = k.row /\ asked'.log = asked.log /\ \A x \in Runs \ {r} : SameOf(x)
      BY <1>1, <1>2, <2>1 DEF AskRow, SameOf, Table
    <2>4. WritesRow(k) /\ ~Holds(k) /\ k.pc \in {"statement", "openRow"}
      BY <1>3, <2>1 DEF WritesRow, Holds, RowSteps
    <2>5. Told(r) => StillTo(k, r)'
      BY <1>2, <2>1, <2>2, <2>3, <2>4 DEF Told, StillTo
    <2>6. QED
      BY <1>1, <1>2, <2>1, <2>3, <2>4, <2>5, ApartJoins
  <1>6. ASSUME NEW c \in Callers, NEW r \in Runs, AppendRunEvent(c, r) PROVE ApartInv'
    <2>0. PICK event \in Event : \E k : /\ Begins(c, k) /\ k.op = "append" /\ k.run = r /\ k.event = event
                                    /\ AskEvent(r, event)
      BY <1>6, AppendRunEventIs
    <2>1. PICK k : /\ Begins(c, k) /\ k.op = "append" /\ k.run = r /\ k.event = event
                                    /\ AskEvent(r, event)
      BY <2>0
    <2>2. /\ asked'.rows = asked.rows /\ asked'.log[r] = Append(asked.log[r], event)
          /\ \A x \in Runs \ {r} : asked'.log[x] = asked.log[x]
      BY <1>1, <2>1 DEF AskEvent
    <2>3. ToSet(asked'.log[r]) = ToSet(asked.log[r]) \cup {k.event}
      BY <1>1, <2>1, <2>2, AppendedSet
    <2>4. \A x \in Runs \ {r} : SameOf(x)
      BY <1>2, <2>1, <2>2 DEF SameOf
    <2>5. ~WritesRow(k) /\ ~Holds(k) /\ k.pc \in {"statement", "readLog"}
      BY <1>3, <2>1 DEF WritesRow, Holds
    <2>6. Told(r) => StillTo(k, r)'
      BY <1>2, <2>1, <2>2, <2>3, <2>5 DEF Told, StillTo
    <2>7. QED
      BY <1>1, <1>2, <2>1, <2>4, <2>5, <2>6, ApartJoins
  <1>7. ASSUME NEW c \in Callers, ClaimNextQueuedJob(c) \/ Refresh(c) PROVE ApartInv'
    <2>1. PICK k : Begins(c, k) /\ k.run = Nothing
      BY <1>7, ClaimIs, RefreshIs
    <2>2. \A x \in Runs : SameOf(x)
      BY <1>2, <1>7, <2>1, ClaimIs, RefreshIs DEF SameOf
    <2>3. QED
      BY <1>2, <2>1, <2>2, ApartKept
  <1>8. CASE UNCHANGED <<rows, log, asked, clash, call>>
    <2>1. \A c \in Callers : About(c)' = About(c)
      BY <1>8 DEF About, Busy
    <2>2. \A r \in Runs : Told(r) => Told(r)'
      BY <1>8 DEF Told
    <2>3. ASSUME NEW c \in Callers, NEW r \in Runs, StillTo(call[c], r) PROVE StillTo(call[c], r)'
      BY <1>8, <2>3 DEF StillTo, WritesRow, Holds
    <2>4. QED
      BY <1>8, <2>1, <2>2, <2>3 DEF ApartInv
  <1>9. CASE LoseCalls
    <2>1. \A c \in Callers : About(c)' = {}
      BY <1>9, LoseIs DEF About, Busy, Idle
    <2>2. UNCHANGED <<rows, log, asked>> /\ clash' = clash \cup UNION {About(c) : c \in Callers}
      BY <1>9, LoseIs
    <2>3. ASSUME NEW r \in Runs \ clash' PROVE Told(r)'
      <3>1. r \in Runs \ clash /\ \A c \in Callers : r \notin About(c)
        BY <2>2
      <3>2. Told(r)
        BY <3>1 DEF ApartInv
      <3>3. QED
        BY <2>2, <3>2 DEF Told
    <2>4. QED
      BY <2>1, <2>3 DEF ApartInv
  <1>10. (Wait \/ UNCHANGED stores) => UNCHANGED <<rows, log, asked, clash, call>>
    BY DEF Wait, stores
  <1>11. QED
    BY <1>4, <1>5, <1>6, <1>7, <1>8, <1>9, <1>10, WorkApart DEF StoreStep, Request

LEMMA ApartInit == StoresInit => ApartInv
  <1> SUFFICES ASSUME StoresInit PROVE ApartInv
    OBVIOUS
  <1>1. \A c \in Callers : About(c) = {}
    BY DEF StoresInit, About, Busy, Idle
  <1>2. \A r \in Runs : Told(r)
    BY DEF StoresInit, Told
  <1>3. QED
    BY <1>1, <1>2 DEF ApartInv
-----------------------------------------------------------------------------
(* The events of a file are in the order of their stamps.                  *)
SortedInv == kind = "file" =>
    /\ \A r \in Runs : Sorted(log[r])
    /\ \A c \in Callers : Holds(call[c]) => Sorted(call[c].seen)

LEMMA SortedKept ==
  ASSUME CoreInv, SortedInv, NEW c \in Callers, NEW m, Moves(c, m), kind' = kind,
         kind = "file" => /\ \A r \in Runs : Sorted(log'[r])
                          /\ Holds(m) => Sorted(m.seen)
  PROVE  SortedInv'
  <1>1. ASSUME kind = "file", NEW d \in Callers, Holds(call'[d]) PROVE Sorted(call'[d].seen)
    <2>1. CASE d = c
      BY <1>1, <2>1 DEF Moves
    <2>2. CASE d # c
      BY <1>1, <2>2 DEF Moves, SortedInv
    <2>3. QED
      BY <2>1, <2>2
  <1>2. QED
    BY <1>1 DEF SortedInv, Sorted, Holds

LEMMA WorkSorted ==
  ASSUME CoreInv, SortedInv, NEW c \in Callers, Work(c) PROVE SortedInv'
  <1>0. PICK k : k = call[c]
    OBVIOUS
  <1>1. k \in Call /\ Shape(k) /\ k.left \in SUBSET Runs /\ k.seen \in Seen
        /\ log \in [Runs -> Seq(Event)] /\ ~Holds(Idle) /\ Sorted(<< >>)
    BY <1>0, CallFields DEF CoreInv, TypeInv, ShapeInv, Idle, Holds, Sorted
  <1>2. kind = "file" => \A r \in Runs : Sorted(log[r])
    BY DEF SortedInv
  <1>3. kind = "file" /\ Holds(k) => Sorted(k.seen)
    BY <1>0 DEF SortedInv
  <1>4. ASSUME NEW m, Moves(c, m), kind' = kind, log' = log, m.pc \notin {"openLog", "writeLog"} PROVE SortedInv'
    <2>1. ~Holds(m) /\ (kind = "file" => \A r \in Runs : Sorted(log'[r]))
      BY <1>2, <1>4 DEF Holds
    <2>2. QED
      BY <1>4, <2>1, SortedKept
  <1>5. CASE Statement(c)
    <2>1. kind = "database" /\ Moves(c, Idle) /\ kind' = kind
      BY <1>5, StatementIs
    <2>2. QED
      BY <2>1, SortedKept
  <1>6. CASE OpenRow(c)
    <2>1. Moves(c, At(k, "writeRow", k.seen, k.left)) /\ kind' = kind /\ log' = log
      BY <1>0, <1>6, OpenRowIs
    <2>2. At(k, "writeRow", k.seen, k.left).pc = "writeRow"
      BY <1>1, AtIs DEF RowSteps
    <2>3. QED
      BY <1>4, <2>1, <2>2
  <1>7. CASE WriteRow(c)
    <2> DEFINE m == IF k.op = "create" THEN Idle ELSE At(k, "list", << >>, Runs)
    <2>1. Moves(c, m) /\ kind' = kind /\ log' = log
      BY <1>0, <1>7, WriteRowIs
    <2>2. << >> \in Seen
      BY DEF Seen
    <2>3. m.pc \in {"idle", "list"}
      BY <1>1, <2>2, AtIs DEF ListSteps, Idle
    <2>4. QED
      BY <1>4, <2>1, <2>3
  <1>8. CASE ReadRow(c)
    <2>1. k.pc = "list" /\ kind' = kind /\ log' = log
      BY <1>0, <1>8, ReadRowIs
    <2>2. PICK x \in k.left : Moves(c, At(k, "list", Noted(k.seen, x, rows[x]), k.left \ {x}))
      BY <1>0, <1>8, ReadRowIs
    <2>3. PICK m : m = At(k, "list", Noted(k.seen, x, rows[x]), k.left \ {x})
      OBVIOUS
    <2>4. m.pc = "list"
      BY <1>1, <2>3 DEF At, Call
    <2>5. QED
      BY <1>4, <2>1, <2>2, <2>3, <2>4
  <1>9. CASE ChooseRow(c)
    <2>1. kind' = kind /\ log' = log
      BY <1>9, ChooseRowIs
    <2>2. CASE Moves(c, Idle)
      BY <1>4, <2>1, <2>2 DEF Idle
    <2>3. ASSUME NEW r \in Runs, Moves(c, Chosen(k, r)), Claimed(k.seen[r]) \in Row PROVE SortedInv'
      <3>1. Chosen(k, r).pc = "openRow"
        BY <1>1, <2>3, ChosenIs
      <3>2. PICK m : m = Chosen(k, r)
        OBVIOUS
      <3>3. QED
        BY <1>4, <2>1, <2>3, <3>1, <3>2
    <2>4. QED
      BY <1>0, <1>9, <2>2, <2>3, ChooseRowIs
  <1>10. CASE OpenQueue(c)
    <2> DEFINE m == At(k, "writeQueue", k.seen, k.left)
    <2>1. Moves(c, m) /\ kind' = kind /\ log' = log
      BY <1>0, <1>10, OpenQueueIs
    <2>2. m.pc = "writeQueue"
      BY <1>1 DEF At, Call
    <2> HIDE DEF m
    <2>3. QED
      BY <1>4, <2>1, <2>2
  <1>11. CASE WriteQueue(c)
    BY <1>4, <1>11, WriteQueueIs DEF Idle
  <1>12. CASE ReadLog(c)
    <2>1. PICK file : file = log[k.run]
      OBVIOUS
    <2> DEFINE m == At(k, "openLog", file, k.left)
    <2>2. k.pc = "readLog" /\ Appends(k) /\ Moves(c, m) /\ kind' = kind /\ log' = log
      BY <1>0, <1>12, <2>1, ReadLogIs
    <2>3. file \in Seen
      BY <1>1, <2>1, <2>2 DEF Appends, Seen
    <2>4. m.seen = file
      BY <1>1, <2>3, AtIs DEF LogSteps
    <2>5. kind = "file" => Sorted(m.seen) /\ \A r \in Runs : Sorted(log'[r])
      BY <1>2, <2>1, <2>2, <2>4 DEF Appends
    <2> HIDE DEF m
    <2>6. QED
      BY <2>2, <2>5, SortedKept
  <1>13. CASE OpenLog(c)
    <2> DEFINE m == At(k, "writeLog", k.seen, k.left)
    <2>1. k.pc = "openLog" /\ Appends(k) /\ Moves(c, m) /\ kind' = kind /\ log' = [log EXCEPT ![k.run] = << >>]
      BY <1>0, <1>13, OpenLogIs
    <2>2. m.seen = k.seen /\ Holds(k)
      BY <1>1, <2>1 DEF At, Call, Holds
    <2> HIDE DEF m
    <2>3. \A r \in Runs : log'[r] \in {log[r], << >>}
      BY <1>1, <2>1
    <2>4. kind = "file" => Sorted(m.seen) /\ \A r \in Runs : Sorted(log'[r])
      BY <1>1, <1>2, <1>3, <2>2, <2>3
    <2>5. QED
      BY <2>1, <2>4, SortedKept
  <1>14. CASE WriteLog(c)
    <2>1. PICK file : file = Inserted(k.seen, k.event)
      OBVIOUS
    <2>2. k.pc = "writeLog" /\ Appends(k) /\ k.seen \in Seq(Event) /\ Moves(c, Idle) /\ kind' = kind
      BY <1>0, <1>14, WriteLogIs
    <2>3. PICK text \in {file, << >>} : log' = [log EXCEPT ![k.run] = text]
      BY <1>0, <1>14, <2>1, WriteLogIs
    <2>4. Holds(k)
      BY <2>2 DEF Holds
    <2>5. kind = "file" => Sorted(text)
      BY <1>1, <1>3, <2>1, <2>2, <2>3, <2>4, InsertedIs DEF Appends
    <2>6. \A r \in Runs : log'[r] \in {log[r], text}
      BY <1>1, <2>3
    <2>7. kind = "file" => \A r \in Runs : Sorted(log'[r])
      BY <1>2, <2>5, <2>6
    <2>8. QED
      BY <1>1, <2>2, <2>7, SortedKept
  <1>15. QED
    BY <1>5, <1>6, <1>7, <1>8, <1>9, <1>10, <1>11, <1>12, <1>13, <1>14 DEF Work

(* No call begins in the middle of a file. *)
LEMMA BeginsWhere ==
  ASSUME CoreInv, NEW c, NEW k, Begins(c, k), k.op \in Op
  PROVE  k.pc \in {"statement", "openRow", "readLog", "list"}
  BY DEF Begins, FirstStep, CoreInv, TypeInv, Op

LEMMA RequestBegins ==
  ASSUME CoreInv, NEW c \in Callers, Request(c) \/ Refresh(c)
  PROVE  \E k : Begins(c, k) /\ k.op \in Op /\ (k.op = "claim" => k.run = Nothing)
  <1>1. ASSUME NEW r \in Runs, CreateJob(c, r) PROVE \E k : Begins(c, k) /\ k.op \in Op /\ (k.op = "claim" => k.run = Nothing)
    BY <1>1, CreateJobIs DEF Op
  <1>2. ASSUME NEW r \in Runs, UpdateJob(c, r) PROVE \E k : Begins(c, k) /\ k.op \in Op /\ (k.op = "claim" => k.run = Nothing)
    BY <1>2, UpdateJobIs DEF Op
  <1>3. ASSUME NEW r \in Runs, AppendRunEvent(c, r) PROVE \E k : Begins(c, k) /\ k.op \in Op /\ (k.op = "claim" => k.run = Nothing)
    BY <1>3, AppendRunEventIs DEF Op
  <1>4. CASE ClaimNextQueuedJob(c)
    BY <1>4, ClaimIs DEF Op
  <1>5. CASE Refresh(c)
    BY <1>5, RefreshIs DEF Op
  <1>6. QED
    BY <1>1, <1>2, <1>3, <1>4, <1>5 DEF Request

LEMMA SortedStep ==
  ASSUME CoreInv, SortedInv, StoreStep PROVE SortedInv'
  <1>1. ASSUME NEW c \in Callers, Request(c) \/ Refresh(c) PROVE SortedInv'
    <2>1. PICK k : Begins(c, k) /\ k.op \in Op
      BY <1>1, RequestBegins
    <2>2. ~Holds(k)
      BY <2>1, BeginsWhere DEF Holds
    <2>3. Moves(c, k) /\ kind' = kind /\ log' = log
      BY <2>1 DEF Begins
    <2>4. kind = "file" => \A r \in Runs : Sorted(log'[r])
      BY <2>3 DEF SortedInv
    <2>5. QED
      BY <2>2, <2>3, <2>4, SortedKept
  <1>2. CASE UNCHANGED <<kind, log, call>>
    BY <1>2 DEF SortedInv, Sorted, Holds
  <1>3. CASE LoseCalls
    <2>1. \A c \in Callers : call'[c] = Idle
      BY <1>3, LoseIs
    <2>2. \A c \in Callers : call'[c].pc = "idle"
      BY <2>1 DEF Idle
    <2>3. UNCHANGED <<kind, log>>
      BY <1>3, LoseIs
    <2>4. QED
      BY <2>2, <2>3 DEF SortedInv, Holds, Sorted
  <1>4. (Wait \/ UNCHANGED stores) => UNCHANGED <<kind, log, call>>
    BY DEF Wait, stores
  <1>5. QED
    BY <1>1, <1>2, <1>3, <1>4, WorkSorted DEF StoreStep
-----------------------------------------------------------------------------
(* While the queue is fresh at most one call rewrites it, from a list that *)
(* will tell what waits.                                                   *)
Waits(row) == row # Nothing /\ row.status = "COMPLETED" /\ row.state = "NEEDS_REVIEW"
Alike(a, b) == a = b \/ (~Waits(a) /\ ~Waits(b))
RewritesQueue(k) == k.pc # "idle" /\ (k.op \in {"update", "refresh"} \/ (k.op = "claim" /\ k.run # Nothing))
QueueInv == kind = "file" /\ fresh =>
    /\ \A c, d \in Callers : Rewriting(c) /\ Rewriting(d) => c = d
    /\ (\A c \in Callers : ~Rewriting(c)) /\ queue # Nothing => queue = Waiting(rows)
    /\ \A c \in Callers : Rewriting(c) /\ Lists(c) =>
          \A r \in DOMAIN call[c].seen : Alike(call[c].seen[r], rows[r])
    /\ \A c \in Callers : Rewriting(c) /\ call[c].pc = "writeQueue" => queue = Nothing

LEMMA WaitingSame ==
  ASSUME NEW a, NEW b, DOMAIN a = DOMAIN b, \A r \in DOMAIN a : Alike(a[r], b[r])
  PROVE  Waiting(a) = Waiting(b)
  <1> DEFINE A == {x \in DOMAIN a : Waits(a[x])}
             B == {x \in DOMAIN b : Waits(b[x])}
  <1>1. A = B /\ \A x \in A : a[x] = b[x]
    BY DEF Alike
  <1>2. Waiting(a) = {[run |-> r, createdAt |-> a[r].updatedAt, assignedAt |-> a[r].assignedAt] : r \in A}
    BY DEF Waiting, Waits
  <1>3. Waiting(b) = {[run |-> r, createdAt |-> b[r].updatedAt, assignedAt |-> b[r].assignedAt] : r \in B}
    BY DEF Waiting, Waits
  <1> HIDE DEF A, B
  <1>4. QED
    BY <1>1, <1>2, <1>3

LEMMA RewritesAre ==
  ASSUME NEW c, NEW m, Moves(c, m), NEW d \in Callers
  PROVE  /\ Rewriting(d) <=> RewritesQueue(call[d])
         /\ d # c => (Rewriting(d)' <=> Rewriting(d)) /\ call'[d] = call[d]
         /\ d = c => (Rewriting(d)' <=> RewritesQueue(m)) /\ call'[d] = m
  <1>1. Rewriting(d) <=> RewritesQueue(call[d])
    BY DEF Rewriting, RewritesQueue, Busy
  <1>2. Rewriting(d)' <=> RewritesQueue(call'[d])
    BY DEF Rewriting, RewritesQueue, Busy
  <1>3. QED
    BY <1>1, <1>2 DEF Moves

(* A step of a call that does not rewrite the queue.                       *)
LEMMA QueueBeside ==
  ASSUME CoreInv, QueueInv, NEW c \in Callers, NEW m, Moves(c, m), UNCHANGED <<kind, fresh, queue>>,
         ~Rewriting(c), ~RewritesQueue(m), rows' \in Table,
         \A x \in Runs : rows'[x] = rows[x] \/ (Uncreated(x) /\ ~Waits(rows'[x]))
  PROVE  QueueInv'
  <1> SUFFICES ASSUME kind = "file", fresh
               PROVE  /\ \A d, e \in Callers : Rewriting(d)' /\ Rewriting(e)' => d = e
                      /\ (\A d \in Callers : ~Rewriting(d)') /\ queue' # Nothing => queue' = Waiting(rows')
                      /\ \A d \in Callers : Rewriting(d)' /\ Lists(d)' =>
                            \A r \in DOMAIN call'[d].seen : Alike(call'[d].seen[r], rows'[r])
                      /\ \A d \in Callers : Rewriting(d)' /\ call'[d].pc = "writeQueue" => queue' = Nothing
    BY DEF QueueInv, Alike, Waits, Waiting
  <1>1. rows \in Table /\ \A d \in Callers : Rewriting(d)' => Rewriting(d) /\ d # c /\ call'[d] = call[d]
    BY RewritesAre DEF CoreInv, TypeInv
  <1>2. \A d \in Callers : Rewriting(d) => Rewriting(d)'
    BY RewritesAre
  <1>3. ASSUME NEW x \in Runs, Uncreated(x) PROVE ~Waits(rows[x])
    BY <1>3 DEF CoreInv, UncreatedInv, Waits
  <1>4. DOMAIN rows = DOMAIN rows' /\ \A x \in DOMAIN rows : Alike(rows[x], rows'[x])
    BY <1>1, <1>3 DEF Table, Alike
  <1>5. Waiting(rows) = Waiting(rows')
    BY <1>4, WaitingSame
  <1>6. ASSUME NEW d \in Callers, Rewriting(d)', Lists(d)', NEW r \in DOMAIN call'[d].seen
        PROVE  Alike(call'[d].seen[r], rows'[r])
    <2>1. Rewriting(d) /\ Lists(d) /\ call'[d] = call[d]
      BY <1>1, <1>6 DEF Lists
    <2>2. Alike(call[d].seen[r], rows[r])
      BY <1>6, <2>1 DEF QueueInv
    <2>3. r \in Runs
      BY <1>6, <2>1 DEF CoreInv, ShapeInv, Shape, Lists
    <2>4. Uncreated(r) => call[d].seen[r] = Nothing
      BY <1>6, <2>1, <2>3 DEF CoreInv, UncreatedInv
    <2>5. QED
      BY <2>1, <2>2, <2>3, <2>4 DEF Alike, Waits
  <1>7. QED
    BY <1>1, <1>2, <1>5, <1>6 DEF QueueInv

(* A step of the call that rewrites the queue.                             *)
LEMMA QueueOwn ==
  ASSUME CoreInv, QueueInv, NEW c \in Callers, NEW m, Moves(c, m), UNCHANGED <<kind, fresh>>,
         Rewriting(c),
         kind = "file" /\ fresh =>
             /\ m.pc \in ListSteps => \A x \in DOMAIN m.seen : Alike(m.seen[x], rows'[x])
             /\ m.pc = "writeQueue" => queue' = Nothing
             /\ m.pc = "idle" /\ queue' # Nothing => queue' = Waiting(rows'),
         m.pc # "idle" => RewritesQueue(m)
  PROVE  QueueInv'
  <1> SUFFICES ASSUME kind = "file", fresh
               PROVE  /\ \A d, e \in Callers : Rewriting(d)' /\ Rewriting(e)' => d = e
                      /\ (\A d \in Callers : ~Rewriting(d)') /\ queue' # Nothing => queue' = Waiting(rows')
                      /\ \A d \in Callers : Rewriting(d)' /\ Lists(d)' =>
                            \A r \in DOMAIN call'[d].seen : Alike(call'[d].seen[r], rows'[r])
                      /\ \A d \in Callers : Rewriting(d)' /\ call'[d].pc = "writeQueue" => queue' = Nothing
    BY DEF QueueInv, Alike, Waits, Waiting
  <1>1. \A d \in Callers : Rewriting(d) => d = c
    BY DEF QueueInv
  <1>2. \A d \in Callers : Rewriting(d)' => d = c
    BY <1>1, RewritesAre
  <1>3. call'[c] = m /\ (~Rewriting(c)' => m.pc = "idle")
    BY RewritesAre DEF Moves
  <1>4. QED
    BY <1>2, <1>3 DEF Lists

(* A call that comes to rewrite the queue.                                 *)
LEMMA QueueJoins ==
  ASSUME CoreInv, QueueInv, NEW c \in Callers, NEW m, Moves(c, m), fresh' = Alone(c),
         RewritesQueue(m), m.pc # "writeQueue", m.pc \in ListSteps => m.seen = << >>
  PROVE  QueueInv'
  <1> SUFFICES ASSUME Alone(c)
               PROVE  /\ \A d, e \in Callers : Rewriting(d)' /\ Rewriting(e)' => d = e
                      /\ Rewriting(c)'
                      /\ \A d \in Callers : Rewriting(d)' /\ Lists(d)' => DOMAIN call'[d].seen = {}
                      /\ \A d \in Callers : Rewriting(d)' => call'[d].pc # "writeQueue"
    BY DEF QueueInv
  <1>1. \A d \in Callers : Rewriting(d) => d = c
    BY DEF Alone, Others
  <1>2. \A d \in Callers : Rewriting(d)' => d = c
    BY <1>1, RewritesAre
  <1>3. call'[c] = m /\ Rewriting(c)'
    BY RewritesAre DEF Moves
  <1>4. DOMAIN << >> = {}
    OBVIOUS
  <1>5. QED
    BY <1>2, <1>3, <1>4 DEF Lists

LEMMA WorkQueue ==
  ASSUME CoreInv, QueueInv, NEW c \in Callers, Work(c) PROVE QueueInv'
  <1>0. PICK k : k = call[c]
    OBVIOUS
  <1> DEFINE r == k.run
  <1>1. /\ k \in Call /\ k.left \in SUBSET Runs /\ k.seen \in Seen
        /\ Nothing \notin Runs /\ rows \in Table /\ Nothing \notin Row
    BY <1>0, CallFields DEF CoreInv, TypeInv
  <1>2. Shape(k) /\ (Rewriting(c) <=> RewritesQueue(k)) /\ (k.pc # "idle" => Busy(c))
    BY <1>0 DEF CoreInv, ShapeInv, Rewriting, RewritesQueue, Busy
  <1>3. ~RewritesQueue(Idle) /\ Idle.pc = "idle"
    BY DEF RewritesQueue, Idle
  <1>4. \A x \in Runs : rows[x] \in Row \cup {Nothing}
    BY <1>1 DEF Table
  <1>5. CASE Statement(c)
    <2>1. kind = "database" /\ kind' = kind
      BY <1>5, StatementIs
    <2>2. QED
      BY <2>1 DEF QueueInv
  <1>6. k.pc \in RowSteps /\ k.op = "create" => Uncreated(r) /\ ~Waits(k.row) /\ k.row \in Row /\ r \in Runs
    BY <1>0, <1>2 DEF Shape, RowSteps, Uncreated, Creates, Waits
  <1>7. CASE OpenRow(c)
    <2> DEFINE m == At(k, "writeRow", k.seen, k.left)
    <2>1. /\ k.pc = "openRow" /\ k.op \in {"create", "update", "claim"} /\ r \in Runs
          /\ Moves(c, m) /\ UNCHANGED <<kind, fresh, queue>> /\ rows' = [rows EXCEPT ![r] = Nothing]
      BY <1>0, <1>7, OpenRowIs
    <2>2. m.pc = "writeRow" /\ m.op = k.op /\ m.run = r
      BY <1>1, AtIs DEF RowSteps
    <2> HIDE DEF m
    <2>3. CASE k.op = "create"
      <3>1. Uncreated(r) /\ ~Waits(Nothing)
        BY <1>6, <2>1, <2>3 DEF RowSteps, Waits
      <3>2. \A x \in Runs : rows'[x] = rows[x] \/ (Uncreated(x) /\ ~Waits(rows'[x]))
        BY <1>1, <2>1, <3>1 DEF Table
      <3>3. rows' \in Table
        BY <1>1, <2>1 DEF Table
      <3>4. ~RewritesQueue(k) /\ ~RewritesQueue(m)
        BY <2>2, <2>3 DEF RewritesQueue
      <3>5. QED
        BY <1>2, <2>1, <3>2, <3>3, <3>4, QueueBeside
    <2>4. CASE k.op # "create"
      <3>1. RewritesQueue(k) /\ RewritesQueue(m) /\ m.pc \notin ListSteps
        BY <1>1, <2>1, <2>2, <2>4 DEF RewritesQueue, ListSteps
      <3>2. QED
        BY <1>2, <2>1, <2>2, <3>1, QueueOwn
    <2>5. QED
      BY <2>3, <2>4
  <1>8. CASE WriteRow(c)
    <2> DEFINE m == IF k.op = "create" THEN Idle ELSE At(k, "list", << >>, Runs)
    <2>1. /\ k.pc = "writeRow" /\ k.op \in {"create", "update", "claim"} /\ r \in Runs
          /\ Moves(c, m) /\ UNCHANGED <<kind, fresh, queue>>
      BY <1>0, <1>8, WriteRowIs
    <2>2. PICK row \in {k.row, Nothing} : rows' = [rows EXCEPT ![r] = row]
      BY <1>0, <1>8, WriteRowIs
    <2>3. CASE k.op = "create"
      <3>1. Uncreated(r) /\ ~Waits(row) /\ row \in Row \cup {Nothing} /\ m = Idle
        BY <1>6, <2>1, <2>2, <2>3 DEF RowSteps, Waits
      <3>2. \A x \in Runs : rows'[x] = rows[x] \/ (Uncreated(x) /\ ~Waits(rows'[x]))
        BY <1>1, <2>2, <3>1 DEF Table
      <3>3. rows' \in Table
        BY <1>1, <2>1, <2>2, <3>1 DEF Table
      <3>4. ~RewritesQueue(k)
        BY <2>3 DEF RewritesQueue
      <3>5. QED
        BY <1>2, <1>3, <2>1, <3>1, <3>2, <3>3, <3>4, QueueBeside
    <2>4. CASE k.op # "create"
      <3>1. << >> \in Seen /\ DOMAIN << >> = {}
        BY DEF Seen
      <3>2. m.pc = "list" /\ m.op = k.op /\ m.run = r /\ m.seen = << >>
        BY <1>1, <2>4, <3>1, AtIs DEF ListSteps
      <3> HIDE DEF m
      <3>3. RewritesQueue(k) /\ RewritesQueue(m)
        BY <1>1, <2>1, <2>4, <3>2 DEF RewritesQueue
      <3>4. \A x \in DOMAIN m.seen : Alike(m.seen[x], rows'[x])
        BY <3>1, <3>2
      <3>5. QED
        BY <1>2, <2>1, <3>2, <3>3, <3>4, QueueOwn
    <2>5. QED
      BY <2>3, <2>4
  <1>9. k.pc \in ListSteps =>
            /\ kind = "file" /\ DOMAIN k.seen = Runs \ k.left
            /\ \A x \in DOMAIN k.seen : k.seen[x] \in Row \cup {Nothing}
            /\ k.op \in {"update", "claim", "refresh"} /\ (k.op # "claim" => RewritesQueue(k))
            /\ (RewritesQueue(k) <=> ~(k.op = "claim" /\ r = Nothing))
    BY <1>2 DEF Shape, RewritesQueue, ListSteps
  <1>10. kind = "file" /\ fresh /\ RewritesQueue(k) /\ k.pc \in ListSteps =>
             \A x \in DOMAIN k.seen : Alike(k.seen[x], rows[x])
    BY <1>0, <1>2 DEF QueueInv, Lists
  <1>11. CASE ReadRow(c)
    <2>1. k.pc = "list" /\ UNCHANGED <<kind, fresh, queue, rows>> /\ k.pc \in ListSteps
      BY <1>0, <1>11, ReadRowIs DEF ListSteps
    <2>2. PICK x \in k.left : Moves(c, At(k, "list", Noted(k.seen, x, rows[x]), k.left \ {x}))
      BY <1>0, <1>11, ReadRowIs
    <2>3. PICK row : row = rows[x]
      OBVIOUS
    <2>4. PICK seen : seen = Noted(k.seen, x, row)
      OBVIOUS
    <2> DEFINE m == At(k, "list", seen, k.left \ {x})
    <2>5. seen \in Seen /\ x \in Runs
      BY <1>1, <1>4, <1>9, <2>1, <2>3, <2>4, SeenGrows
    <2>6. DOMAIN seen = DOMAIN k.seen \cup {x}
          /\ \A y \in DOMAIN seen : seen[y] = IF y = x THEN row ELSE k.seen[y]
      BY <2>4 DEF Noted
    <2>7. m.pc = "list" /\ m.op = k.op /\ m.run = r /\ m.seen = seen
      <3>1. k.left \ {x} \in SUBSET Runs /\ "list" \in ListSteps
        BY <1>1 DEF ListSteps
      <3>2. QED
        BY <1>1, <2>5, <3>1, AtIs
    <2>8. Moves(c, m)
      BY <2>2, <2>3, <2>4
    <2> HIDE DEF m
    <2>9. RewritesQueue(m) <=> RewritesQueue(k)
      BY <2>1, <2>7 DEF RewritesQueue
    <2>10. CASE ~RewritesQueue(k)
      <3>1. rows' \in Table
        BY <1>1, <2>1
      <3>2. QED
        BY <1>2, <2>1, <2>8, <2>9, <2>10, <3>1, QueueBeside
    <2>11. CASE RewritesQueue(k)
      <3>1. kind = "file" /\ fresh => \A y \in DOMAIN m.seen : Alike(m.seen[y], rows'[y])
        <4> SUFFICES ASSUME kind = "file", fresh, NEW y \in DOMAIN m.seen PROVE Alike(m.seen[y], rows'[y])
          OBVIOUS
        <4>1. CASE y = x
          BY <2>1, <2>3, <2>6, <2>7, <4>1 DEF Alike
        <4>2. CASE y # x
          BY <1>10, <2>1, <2>6, <2>7, <2>11, <4>2
        <4>3. QED
          BY <4>1, <4>2
      <3>2. QED
        BY <1>2, <2>1, <2>7, <2>8, <2>9, <2>11, <3>1, QueueOwn
    <2>12. QED
      BY <2>10, <2>11
  <1>12. CASE ChooseRow(c)
    <2>1. k.pc = "list" /\ k.op = "claim" /\ r = Nothing /\ UNCHANGED <<kind, rows, queue>>
      BY <1>0, <1>12, ChooseRowIs
    <2>2. CASE Moves(c, Idle) /\ fresh' = fresh
      <3>1. ~RewritesQueue(k) /\ rows' \in Table
        BY <1>1, <2>1 DEF RewritesQueue
      <3>2. QED
        BY <1>2, <1>3, <2>1, <2>2, <3>1, QueueBeside
    <2>3. ASSUME NEW x \in Runs, Moves(c, Chosen(k, x)), Claimed(k.seen[x]) \in Row, fresh' = Alone(c)
          PROVE  QueueInv'
      <3>1. PICK m : m = Chosen(k, x)
        OBVIOUS
      <3>2. m.pc = "openRow" /\ m.op = k.op /\ m.run = x
        BY <1>1, <2>3, <3>1, ChosenIs
      <3>3. RewritesQueue(m) /\ m.pc \notin ListSteps
        BY <1>1, <2>1, <3>2 DEF RewritesQueue, ListSteps
      <3>4. QED
        BY <2>3, <3>1, <3>2, <3>3, QueueJoins
    <2>4. QED
      BY <1>0, <1>12, <2>2, <2>3, ChooseRowIs
  <1>13. CASE OpenQueue(c)
    <2> DEFINE m == At(k, "writeQueue", k.seen, k.left)
    <2>1. /\ k.pc = "list" /\ Moves(c, m) /\ UNCHANGED <<kind, fresh, rows>> /\ queue' = Nothing
          /\ k.op = "claim" => r \in Runs
      BY <1>0, <1>13, OpenQueueIs
    <2>2. m.pc = "writeQueue" /\ m.op = k.op /\ m.run = r /\ m.seen = k.seen
      BY <1>1 DEF At, Call
    <2> HIDE DEF m
    <2>3. RewritesQueue(k) /\ RewritesQueue(m)
      BY <1>1, <1>9, <2>1, <2>2 DEF RewritesQueue, ListSteps
    <2>4. kind = "file" /\ fresh => \A x \in DOMAIN m.seen : Alike(m.seen[x], rows'[x])
      BY <1>10, <2>1, <2>2, <2>3 DEF ListSteps
    <2>5. QED
      BY <1>2, <2>1, <2>2, <2>3, <2>4, QueueOwn
  <1>14. CASE WriteQueue(c)
    <2>1. k.pc = "writeQueue" /\ Moves(c, Idle) /\ UNCHANGED <<kind, fresh, rows>>
          /\ (queue = Nothing => queue' = Waiting(k.seen))
      BY <1>0, <1>14, WriteQueueIs
    <2>2. k.pc \in ListSteps /\ k.left = {} /\ RewritesQueue(k)
      BY <1>1, <1>2, <1>9, <2>1 DEF Shape, ListSteps
    <2>3. kind = "file" /\ fresh => queue = Nothing
      BY <1>0, <1>2, <2>1, <2>2 DEF QueueInv
    <2>4. kind = "file" /\ fresh => Waiting(k.seen) = Waiting(rows)
      <3>1. DOMAIN k.seen = DOMAIN rows
        BY <1>1, <1>9, <2>2 DEF Table
      <3>2. QED
        BY <1>10, <2>2, <3>1, WaitingSame
    <2>5. kind = "file" /\ fresh => queue' = Waiting(rows')
      BY <2>1, <2>3, <2>4
    <2>6. Idle.pc \notin ListSteps
      BY <1>3 DEF ListSteps
    <2>7. QED
      BY <1>2, <1>3, <2>1, <2>2, <2>5, <2>6, QueueOwn
  <1>15. ASSUME NEW m, Moves(c, m), k.op = "append", m.op = "append" \/ m.pc = "idle",
                UNCHANGED <<kind, fresh, queue, rows>>
         PROVE  QueueInv'
    <2>1. ~RewritesQueue(k) /\ ~RewritesQueue(m) /\ rows' \in Table
      BY <1>1, <1>15 DEF RewritesQueue
    <2>2. QED
      BY <1>2, <1>15, <2>1, QueueBeside
  <1>16. CASE ReadLog(c)
    <2>1. PICK file : file = log[r]
      OBVIOUS
    <2>2. Moves(c, At(k, "openLog", file, k.left)) /\ Appends(k) /\ UNCHANGED <<kind, fresh, queue, rows>>
      BY <1>0, <1>16, <2>1, ReadLogIs
    <2>3. At(k, "openLog", file, k.left).op = k.op
      BY <1>1 DEF At, Call
    <2>4. QED
      BY <1>15, <2>2, <2>3 DEF Appends
  <1>17. CASE OpenLog(c)
    <2>1. Moves(c, At(k, "writeLog", k.seen, k.left)) /\ Appends(k) /\ UNCHANGED <<kind, fresh, queue, rows>>
      BY <1>0, <1>17, OpenLogIs
    <2>2. At(k, "writeLog", k.seen, k.left).op = k.op
      BY <1>1 DEF At, Call
    <2>3. QED
      BY <1>15, <2>1, <2>2 DEF Appends
  <1>18. CASE WriteLog(c)
    <2>1. Moves(c, Idle) /\ Appends(k) /\ UNCHANGED <<kind, fresh, queue, rows>>
      BY <1>0, <1>18, WriteLogIs
    <2>2. QED
      BY <1>3, <1>15, <2>1 DEF Appends
  <1>19. QED
    BY <1>5, <1>7, <1>8, <1>11, <1>12, <1>13, <1>14, <1>16, <1>17, <1>18 DEF Work

LEMMA QueueStep ==
  ASSUME CoreInv, QueueInv, StoreStep PROVE QueueInv'
  <1>1. rows \in Table /\ \A c \in Callers : RewritesQueue(call[c]) => Busy(c)
    BY DEF CoreInv, TypeInv, RewritesQueue, Busy
  <1>2. ASSUME NEW c \in Callers, Request(c) \/ Refresh(c) PROVE QueueInv'
    <2>1. PICK k : Begins(c, k) /\ k.op \in Op /\ (k.op = "claim" => k.run = Nothing)
      BY <1>2, RequestBegins
    <2>2. k.pc \in {"statement", "openRow", "readLog", "list"}
      BY <2>1, BeginsWhere
    <2>3. Moves(c, k) /\ ~Rewriting(c) /\ k.seen = << >> /\ UNCHANGED <<kind, rows, queue>>
      BY <2>1 DEF Begins, Rewriting
    <2>4. CASE k.op \in {"update", "refresh"}
      <3>1. fresh' = Alone(c)
        BY <2>1, <2>4 DEF Begins
      <3>2. RewritesQueue(k)
        BY <2>2, <2>4 DEF RewritesQueue
      <3>3. QED
        BY <2>2, <2>3, <3>1, <3>2, QueueJoins
    <2>5. CASE k.op \notin {"update", "refresh"}
      <3>1. fresh' = fresh
        BY <2>1, <2>5 DEF Begins
      <3>3. ~RewritesQueue(k) /\ rows' \in Table
        BY <1>1, <2>3, <2>1, <2>5 DEF RewritesQueue
      <3>4. QED
        BY <2>3, <3>1, <3>3, QueueBeside
    <2>6. QED
      BY <2>4, <2>5
  <1>3. CASE UNCHANGED <<kind, rows, queue, call, fresh>>
    <2>1. \A c \in Callers : Rewriting(c)' = Rewriting(c)
      BY <1>3 DEF Rewriting, Busy
    <2>2. QED
      BY <1>3, <2>1 DEF QueueInv, Lists, Alike, Waits, Waiting
  <1>4. CASE LoseCalls
    <2>1. \A c \in Callers : ~Rewriting(c)'
      BY <1>4, LoseIs DEF Rewriting, Busy, Idle
    <2>2. UNCHANGED <<kind, rows, queue>> /\ fresh' = (fresh /\ \A c \in Callers : ~Rewriting(c))
      BY <1>4, LoseIs
    <2>3. QED
      BY <2>1, <2>2 DEF QueueInv, Waiting
  <1>5. (Wait \/ UNCHANGED stores) => UNCHANGED <<kind, rows, queue, call, fresh>>
    BY DEF Wait, stores
  <1>6. QED
    BY <1>2, <1>3, <1>4, <1>5, WorkQueue DEF StoreStep

StoreInv == CoreInv /\ ApartInv /\ SortedInv /\ QueueInv

LEMMA StoreInit == StoresInit => StoreInv
  <1> SUFFICES ASSUME StoresInit PROVE StoreInv
    OBVIOUS
  <1>1. \A c \in Callers : call[c].pc = "idle" /\ ~Rewriting(c)
    BY DEF StoresInit, Idle, Rewriting, Busy
  <1>2. SortedInv
    BY <1>1 DEF StoresInit, SortedInv, Sorted, Holds
  <1>3. QueueInv
    BY <1>1 DEF StoresInit, QueueInv
  <1>4. QED
    BY <1>2, <1>3, CoreInit, ApartInit DEF StoreInv

LEMMA StoreInvStep == StoreInv /\ [Next]_vars => StoreInv'
  BY StoreSteps, CoreStep, ApartStep, SortedStep, QueueStep DEF StoreInv

(* The store stays typed: every row and every file parses to a row or is   *)
(* gone, every log is a sequence of events, and a call has its locals.     *)
THEOREM StoresAreTyped == Spec => []TypeInv
  <1>1. Init => StoreInv
    BY StoreInit DEF Init
  <1>2. StoreInv => TypeInv
    BY DEF StoreInv, CoreInv
  <1>3. QED
    BY <1>1, <1>2, StoreInvStep, PTL DEF Spec

(* A run that no two calls were about at a time, and no process left half  *)
(* written, is stored as its callers wrote it, for any number of runs and  *)
(* calls, in a database and in files; its events are in order; and once an *)
(* update has run alone the file of the review queue tells what waits.     *)
THEOREM CallsApart == Spec => []CallsApartLoseNothing
  <1>1. Init => StoreInv
    BY StoreInit DEF Init
  <1>2. StoreInv => CallsApartLoseNothing
    <2> SUFFICES ASSUME StoreInv PROVE CallsApartLoseNothing
      OBVIOUS
    <2>1. ASSUME NEW r \in Runs \ clash, \A c \in Callers : r \notin About(c) PROVE Told(r)
      BY <2>1 DEF StoreInv, ApartInv
    <2>2. kind = "file" => \A r \in Runs : Sorted(log[r])
      BY DEF StoreInv, SortedInv
    <2>3. kind = "file" /\ fresh /\ queue # Nothing /\ (\A c \in Callers : ~Rewriting(c)) => queue = Waiting(rows)
      BY DEF StoreInv, QueueInv
    <2>4. QED
      BY <2>1, <2>2, <2>3 DEF CallsApartLoseNothing, Told, Sorted
  <1>3. QED
    BY <1>1, <1>2, StoreInvStep, PTL DEF Spec
-----------------------------------------------------------------------------
(* An event is written by the one call that was given it.                  *)
Carries(k) == k.pc # "idle" /\ k.op = "append"
Recorded(r) ==
    /\ Distinct(log[r]) /\ ToSet(log[r]) \subseteq ToSet(asked.log[r])
    /\ \A e \in ToSet(asked.log[r]) : e.id <= writes
Copies(k) == Holds(k) => Distinct(k.seen) /\ ToSet(k.seen) \subseteq ToSet(asked.log[k.run])
Unwritten(k) ==
    Carries(k) => k.event \in ToSet(asked.log[k.run]) /\ k.event \notin ToSet(log[k.run])
Unseen(k, m) == Carries(k) /\ Holds(m) /\ k.run = m.run => k.event \notin ToSet(m.seen)
Differ(k, m) == Carries(k) /\ Carries(m) /\ k.run = m.run => k.event # m.event
EventsInv ==
    /\ \A r \in Runs : Recorded(r)
    /\ \A c \in Callers : Copies(call[c]) /\ Unwritten(call[c])
    /\ \A c, d \in Callers : Unseen(call[c], call[d]) /\ (c # d => Differ(call[c], call[d]))

LEMMA CarriesAre ==
  ASSUME CoreInv, NEW c \in Callers, Carries(call[c]) \/ Holds(call[c])
  PROVE  LET k == call[c]
         IN  /\ Appends(k) /\ k.pc \in {"statement"} \cup LogSteps
             /\ Carries(k) /\ (Holds(k) => k.seen \in Seq(Event))
  <1>1. call[c] \in Call /\ Shape(call[c])
    BY DEF CoreInv, TypeInv, ShapeInv
  <1>2. QED
    BY <1>1, CallFields DEF Shape, Appends, Rewrites, Carries, Holds, RowSteps, ListSteps, LogSteps

(* One call moves on; what it carries stays what it was given. *)
MovesOn(c, m) ==
    /\ Carries(m) => /\ Carries(call[c]) /\ m.run = call[c].run /\ m.event = call[c].event
                     /\ m.event \notin ToSet(log'[m.run])
    /\ Copies(m)
    /\ \A d \in Callers : Unseen(call[d], m)
Rest(c) == \A d \in Callers \ {c} : Carries(call[d]) => call[d].event \notin ToSet(log'[call[d].run])

LEMMA EventsMove ==
  ASSUME CoreInv, EventsInv, NEW c \in Callers, NEW m, Moves(c, m), asked'.log = asked.log,
         writes' \in {writes, writes + 1}, MovesOn(c, m), Rest(c),
         \A r \in Runs : Distinct(log'[r]) /\ ToSet(log'[r]) \subseteq ToSet(asked.log[r])
  PROVE  EventsInv'
  <1>1. call'[c] = m /\ \A d \in Callers \ {c} : call'[d] = call[d]
    BY DEF Moves
  <1>2. ASSUME NEW r \in Runs PROVE Recorded(r)'
    <2>1. ASSUME NEW e \in ToSet(asked.log[r]) PROVE e.id <= writes'
      <3>1. asked.log[r] \in Seq(Event) /\ writes \in Nat
        BY DEF CoreInv, TypeInv
      <3>2. e \in Event
        BY <3>1 DEF ToSet
      <3>3. e.id \in Nat /\ e.id <= writes
        BY <3>2 DEF EventsInv, Recorded, Event
      <3>4. QED
        BY <3>1, <3>3
    <2>2. QED
      BY <2>1 DEF Recorded, Distinct
  <1>3. ASSUME NEW d \in Callers PROVE (Copies(call[d]) /\ Unwritten(call[d]))'
    <2>1. CASE d = c
      <3>1. Copies(m)'
        BY DEF MovesOn, Copies
      <3>2. Unwritten(m)'
        BY DEF MovesOn, Unwritten, EventsInv
      <3>3. QED
        BY <1>1, <2>1, <3>1, <3>2 DEF Copies, Unwritten
    <2>2. CASE d # c
      <3>1. call'[d] = call[d] /\ Copies(call[d]) /\ Unwritten(call[d])
        BY <1>1, <2>2 DEF EventsInv
      <3>2. Carries(call[d]) => call[d].event \notin ToSet(log'[call[d].run])
        BY <2>2 DEF Rest
      <3>3. QED
        BY <3>1, <3>2 DEF Copies, Unwritten
    <2>3. QED
      BY <2>1, <2>2
  <1>4. ASSUME NEW d \in Callers, NEW e \in Callers
        PROVE  Unseen(call'[d], call'[e]) /\ (d # e => Differ(call'[d], call'[e]))
    <2>1. Unseen(call[d], call[e]) /\ (d # e => Differ(call[d], call[e])) /\ Unseen(call[d], m)
          /\ Unseen(call[c], m) /\ Unseen(call[c], call[e])
      BY DEF EventsInv, MovesOn
    <2>2. Carries(m) => Carries(call[c]) /\ m.run = call[c].run /\ m.event = call[c].event
      BY DEF MovesOn
    <2>3. CASE d = c /\ e = c
      BY <1>1, <2>1, <2>2, <2>3 DEF Unseen
    <2>4. CASE d = c /\ e # c
      BY <1>1, <2>1, <2>2, <2>4 DEF Unseen, Differ
    <2>5. CASE d # c /\ e = c
      BY <1>1, <2>1, <2>2, <2>5 DEF Unseen, Differ
    <2>6. CASE d # c /\ e # c
      BY <1>1, <2>1, <2>6
    <2>7. QED
      BY <2>3, <2>4, <2>5, <2>6
  <1>5. QED
    BY <1>2, <1>3, <1>4 DEF EventsInv, Unseen, Differ

LEMMA EventsBeside ==
  ASSUME CoreInv, EventsInv, NEW c \in Callers, NEW m, Moves(c, m), asked'.log = asked.log,
         writes' \in {writes, writes + 1}, log' = log, ~Carries(m), ~Holds(m)
  PROVE  EventsInv'
  <1>1. MovesOn(c, m)
    BY DEF MovesOn, Copies, Unseen
  <1>2. Rest(c)
    BY DEF Rest, EventsInv, Unwritten
  <1>3. \A r \in Runs : Distinct(log'[r]) /\ ToSet(log'[r]) \subseteq ToSet(asked.log[r])
    BY DEF EventsInv, Recorded
  <1>4. QED
    BY <1>1, <1>2, <1>3, EventsMove

LEMMA AppendedDistinct ==
  ASSUME NEW s \in Seq(Event), NEW e \in Event, Distinct(s), e \notin ToSet(s)
  PROVE  Distinct(Append(s, e))
  <1> DEFINE t == Append(s, e)
  <1>1. /\ DOMAIN t = 1..(Len(s) + 1) /\ DOMAIN s = 1..Len(s) /\ Len(s) \in Nat
        /\ t[Len(s) + 1] = e /\ \A i \in 1..Len(s) : t[i] = s[i]
    OBVIOUS
  <1>2. \A i \in 1..Len(s) : s[i] # e
    BY <1>1 DEF ToSet
  <1> HIDE DEF t
  <1>3. \A i \in DOMAIN t : i \in 1..Len(s) \/ i = Len(s) + 1
    BY <1>1
  <1>4. Distinct(t)
    BY <1>1, <1>2, <1>3 DEF Distinct
  <1>5. QED
    BY <1>4 DEF t

LEMMA WorkEvents ==
  ASSUME CoreInv, EventsInv, NEW c \in Callers, Work(c) PROVE EventsInv'
  <1>0. PICK k : k = call[c]
    OBVIOUS
  <1>1. k \in Call /\ Shape(k) /\ k.left \in SUBSET Runs /\ k.seen \in Seen
        /\ log \in [Runs -> Seq(Event)] /\ ~Holds(Idle) /\ ~Carries(Idle)
    BY <1>0, CallFields DEF CoreInv, TypeInv, ShapeInv, Idle, Holds, Carries
  <1>2. /\ \A r \in Runs : Distinct(log[r]) /\ ToSet(log[r]) \subseteq ToSet(asked.log[r])
        /\ Copies(k) /\ Unwritten(k) /\ Unseen(k, k)
        /\ \A d \in Callers : Unseen(call[d], k) /\ Unwritten(call[d])
        /\ \A d \in Callers \ {c} : Differ(call[d], k)
    BY <1>0 DEF EventsInv, Recorded
  <1>3. ASSUME NEW m, Moves(c, m), UNCHANGED <<log, writes>>, asked'.log = asked.log,
               m.op # "append" \/ m.pc = "idle", m.pc \notin {"openLog", "writeLog"}
        PROVE  EventsInv'
    BY <1>3, EventsBeside DEF Carries, Holds
  <1>4. CASE Statement(c)
    <2>1. Moves(c, Idle) /\ writes' = writes /\ k.pc = "statement"
      BY <1>0, <1>4, StatementIs
    <2>2. CASE log' = log /\ asked'.log = asked.log
      BY <1>1, <2>1, <2>2, EventsBeside
    <2>3. CASE Appends(k) /\ log' = [log EXCEPT ![k.run] = Append(log[k.run], k.event)] /\ asked' = asked
      <3>1. PICK r \in Runs, e \in Event : r = k.run /\ e = k.event
        BY <2>3 DEF Appends
      <3>2. PICK s \in Seq(Event) : s = log[r]
        BY <1>1
      <3>3. e \notin ToSet(s) /\ e \in ToSet(asked.log[r]) /\ Distinct(s) /\ ToSet(s) \subseteq ToSet(asked.log[r])
            /\ Carries(k)
        BY <1>2, <2>1, <2>3, <3>1, <3>2 DEF Unwritten, Carries, Appends
      <3>4. PICK t : t = Append(s, e)
        OBVIOUS
      <3>5. Distinct(t) /\ ToSet(t) = ToSet(s) \cup {e}
        BY <3>3, <3>4, AppendedDistinct, AppendedSet
      <3>6. log'[r] = t /\ \A x \in Runs \ {r} : log'[x] = log[x]
        BY <1>1, <2>3, <3>1, <3>2, <3>4
      <3>7. \A x \in Runs : Distinct(log'[x]) /\ ToSet(log'[x]) \subseteq ToSet(asked.log[x])
        BY <1>2, <3>3, <3>5, <3>6
      <3>8. ASSUME NEW d \in Callers \ {c}, Carries(call[d]) PROVE call[d].event \notin ToSet(log'[call[d].run])
        <4>1. call[d].event \notin ToSet(log[call[d].run]) /\ call[d].run \in Runs
          BY <1>2, <3>8, CarriesAre DEF Unwritten, Appends
        <4>2. CASE call[d].run = r
          <5>1. call[d].event # e
            BY <1>2, <3>1, <3>3, <3>8, <4>2 DEF Differ
          <5>2. QED
            BY <3>2, <3>5, <3>6, <4>1, <4>2, <5>1
        <4>3. QED
          BY <3>6, <4>1, <4>2
      <3>9. MovesOn(c, Idle) /\ Rest(c)
        BY <1>1, <3>8 DEF MovesOn, Rest, Copies, Unseen
      <3>10. QED
        BY <2>1, <2>3, <3>7, <3>9, EventsMove
    <2>4. QED
      BY <1>0, <1>4, <2>2, <2>3, StatementIs DEF AskRow
  <1>5. CASE OpenRow(c)
    <2>1. k.op # "append" /\ Moves(c, At(k, "writeRow", k.seen, k.left)) /\ UNCHANGED <<log, writes, asked>>
      BY <1>0, <1>5, OpenRowIs
    <2>2. PICK m : m = At(k, "writeRow", k.seen, k.left)
      OBVIOUS
    <2>3. m.pc = "writeRow" /\ m.op = k.op
      BY <1>1, <2>2, AtIs DEF RowSteps
    <2>4. QED
      BY <1>3, <2>1, <2>2, <2>3
  <1>6. CASE WriteRow(c)
    <2>1. PICK m : m = IF k.op = "create" THEN Idle ELSE At(k, "list", << >>, Runs)
      OBVIOUS
    <2>2. k.op \in {"create", "update", "claim"} /\ Moves(c, m) /\ UNCHANGED <<log, writes, asked>>
      BY <1>0, <1>6, <2>1, WriteRowIs
    <2>3. << >> \in Seen
      BY DEF Seen
    <2>4. m.pc = "idle" \/ (m.pc = "list" /\ m.op = k.op)
      BY <1>1, <2>1, <2>3, AtIs DEF ListSteps, Idle
    <2>5. QED
      BY <1>3, <2>2, <2>4
  <1>7. CASE ReadRow(c)
    <2>1. k.pc = "list" /\ UNCHANGED <<log, writes, asked>>
      BY <1>0, <1>7, ReadRowIs
    <2>2. PICK x \in k.left : Moves(c, At(k, "list", Noted(k.seen, x, rows[x]), k.left \ {x}))
      BY <1>0, <1>7, ReadRowIs
    <2>3. PICK m : m = At(k, "list", Noted(k.seen, x, rows[x]), k.left \ {x})
      OBVIOUS
    <2>4. m.pc = "list" /\ m.op = k.op
      BY <1>1, <2>3 DEF At, Call
    <2>5. k.op # "append"
      BY <1>1, <2>1 DEF Shape, ListSteps
    <2>6. QED
      BY <1>3, <2>1, <2>2, <2>3, <2>4, <2>5
  <1>8. CASE ChooseRow(c)
    <2>1. UNCHANGED <<log, writes>> /\ asked'.log = asked.log /\ k.op = "claim"
      BY <1>0, <1>8, ChooseRowIs DEF AskRow
    <2>2. CASE Moves(c, Idle)
      BY <1>3, <2>1, <2>2 DEF Idle
    <2>3. ASSUME NEW r \in Runs, Moves(c, Chosen(k, r)), Claimed(k.seen[r]) \in Row PROVE EventsInv'
      <3>1. Chosen(k, r).pc = "openRow" /\ Chosen(k, r).op = k.op
        BY <1>1, <2>3, ChosenIs
      <3>2. PICK m : m = Chosen(k, r)
        OBVIOUS
      <3>3. QED
        BY <1>3, <2>1, <2>3, <3>1, <3>2
    <2>4. QED
      BY <1>0, <1>8, <2>2, <2>3, ChooseRowIs
  <1>9. CASE OpenQueue(c)
    <2>1. k.pc = "list" /\ Moves(c, At(k, "writeQueue", k.seen, k.left)) /\ UNCHANGED <<log, writes, asked>>
      BY <1>0, <1>9, OpenQueueIs
    <2>2. PICK m : m = At(k, "writeQueue", k.seen, k.left)
      OBVIOUS
    <2>3. m.pc = "writeQueue" /\ m.op = k.op
      BY <1>1, <2>2 DEF At, Call
    <2>4. k.op # "append"
      BY <1>1, <2>1 DEF Shape, ListSteps
    <2>5. QED
      BY <1>3, <2>1, <2>2, <2>3, <2>4
  <1>10. CASE WriteQueue(c)
    <2>1. Moves(c, Idle) /\ UNCHANGED <<log, writes, asked>>
      BY <1>10, WriteQueueIs
    <2>2. QED
      BY <1>3, <2>1 DEF Idle
  <1>11. CASE ReadLog(c)
    <2>1. k.pc = "readLog" /\ Appends(k) /\ Moves(c, At(k, "openLog", log[k.run], k.left))
          /\ UNCHANGED <<log, writes, asked>>
      BY <1>0, <1>11, ReadLogIs
    <2>2. PICK file \in Seq(Event) : file = log[k.run]
      BY <1>1, <2>1 DEF Appends
    <2>3. PICK m : m = At(k, "openLog", file, k.left)
      OBVIOUS
    <2>4. file \in Seen
      BY DEF Seen
    <2>5. m.pc = "openLog" /\ m.seen = file /\ m.op = "append" /\ m.run = k.run /\ m.event = k.event
      BY <1>1, <2>1, <2>3, <2>4, AtIs DEF LogSteps, Appends
    <2>6. Carries(k) /\ Carries(m)
      BY <2>1, <2>5 DEF Carries, Appends
    <2>7. Copies(m) /\ m.event \notin ToSet(log'[m.run])
      BY <1>2, <2>1, <2>2, <2>5, <2>6 DEF Copies, Unwritten, Appends
    <2>8. \A d \in Callers : Unseen(call[d], m)
      BY <1>2, <2>2, <2>5 DEF Unseen, Unwritten
    <2>9. MovesOn(c, m)
      BY <1>0, <2>5, <2>6, <2>7, <2>8 DEF MovesOn
    <2>10. Rest(c) /\ \A r \in Runs : Distinct(log'[r]) /\ ToSet(log'[r]) \subseteq ToSet(asked.log[r])
      BY <1>2, <2>1 DEF Rest, Unwritten
    <2>11. Moves(c, m)
      BY <2>1, <2>2, <2>3
    <2>12. QED
      BY <2>1, <2>9, <2>10, <2>11, EventsMove
  <1>12. CASE OpenLog(c)
    <2>1. k.pc = "openLog" /\ Appends(k) /\ k.seen \in Seq(Event) /\ Moves(c, At(k, "writeLog", k.seen, k.left))
          /\ log' = [log EXCEPT ![k.run] = << >>] /\ UNCHANGED <<writes, asked>>
      BY <1>0, <1>12, OpenLogIs
    <2>2. PICK m : m = At(k, "writeLog", k.seen, k.left)
      OBVIOUS
    <2>3. m.pc = "writeLog" /\ m.seen = k.seen /\ m.op = "append" /\ m.run = k.run /\ m.event = k.event
      BY <1>1, <2>1, <2>2, AtIs DEF LogSteps, Appends
    <2>4. Carries(k) /\ Carries(m) /\ Holds(k)
      BY <2>1, <2>3 DEF Carries, Appends, Holds
    <2>5. \A r \in Runs : log'[r] \in {log[r], << >>}
      BY <1>1, <2>1
    <2>6. ToSet(<< >>) = {} /\ Distinct(<< >>)
      BY DEF ToSet, Distinct
    <2>7. \A r \in Runs : Distinct(log'[r]) /\ ToSet(log'[r]) \subseteq ToSet(asked.log[r])
                          /\ ToSet(log'[r]) \subseteq ToSet(log[r])
      BY <1>2, <2>5, <2>6
    <2>8. \A d \in Callers : Carries(call[d]) => call[d].event \notin ToSet(log'[call[d].run])
      <3> SUFFICES ASSUME NEW d \in Callers, Carries(call[d]) PROVE call[d].event \notin ToSet(log'[call[d].run])
        OBVIOUS
      <3>1. call[d].run \in Runs /\ call[d].event \notin ToSet(log[call[d].run])
        BY <1>2, CarriesAre DEF Unwritten, Appends
      <3>2. QED
        BY <2>7, <3>1
    <2>9. Copies(m) /\ m.event \notin ToSet(log'[m.run]) /\ \A d \in Callers : Unseen(call[d], m)
      BY <1>0, <1>2, <2>3, <2>4, <2>8 DEF Copies, Unseen
    <2>10. MovesOn(c, m) /\ Rest(c)
      BY <1>0, <2>3, <2>4, <2>8, <2>9 DEF MovesOn, Rest
    <2>11. Moves(c, m)
      BY <2>1, <2>2
    <2>12. QED
      BY <2>1, <2>7, <2>10, <2>11, EventsMove
  <1>13. CASE WriteLog(c)
    <2>1. PICK file : file = Inserted(k.seen, k.event)
      OBVIOUS
    <2>2. k.pc = "writeLog" /\ Appends(k) /\ k.seen \in Seq(Event) /\ Moves(c, Idle) /\ UNCHANGED <<writes, asked>>
      BY <1>0, <1>13, WriteLogIs
    <2>3. PICK text \in {file, << >>} : log' = [log EXCEPT ![k.run] = text]
      BY <1>0, <1>13, <2>1, WriteLogIs
    <2>4. Holds(k) /\ Carries(k)
      BY <2>2 DEF Holds, Carries, Appends
    <2>5. Distinct(k.seen) /\ ToSet(k.seen) \subseteq ToSet(asked.log[k.run])
          /\ k.event \in ToSet(asked.log[k.run]) /\ k.event \notin ToSet(k.seen)
      BY <1>2, <2>4 DEF Copies, Unwritten, Unseen
    <2>6. ToSet(file) = ToSet(k.seen) \cup {k.event} /\ Distinct(file)
      BY <2>1, <2>2, <2>5, InsertedIs DEF Appends
    <2>7. ToSet(<< >>) = {} /\ Distinct(<< >>)
      BY DEF ToSet, Distinct
    <2>8. Distinct(text) /\ ToSet(text) \subseteq ToSet(k.seen) \cup {k.event}
      BY <2>3, <2>6, <2>7
    <2>9. k.run \in Runs /\ log'[k.run] = text /\ \A r \in Runs \ {k.run} : log'[r] = log[r]
      BY <1>1, <2>2, <2>3 DEF Appends
    <2>10. \A r \in Runs : Distinct(log'[r]) /\ ToSet(log'[r]) \subseteq ToSet(asked.log[r])
      BY <1>2, <2>5, <2>8, <2>9
    <2>11. ASSUME NEW d \in Callers \ {c}, Carries(call[d]) PROVE call[d].event \notin ToSet(log'[call[d].run])
      <3>1. call[d].run \in Runs /\ call[d].event \notin ToSet(log[call[d].run])
        BY <1>2, <2>11, CarriesAre DEF Unwritten, Appends
      <3>2. CASE call[d].run = k.run
        <4>1. call[d].event # k.event /\ call[d].event \notin ToSet(k.seen)
          BY <1>2, <2>4, <2>11, <3>2 DEF Differ, Unseen
        <4>2. QED
          BY <2>8, <2>9, <3>2, <4>1
      <3>3. QED
        BY <2>9, <3>1, <3>2
    <2>12. MovesOn(c, Idle) /\ Rest(c)
      BY <1>1, <2>11 DEF MovesOn, Rest, Copies, Unseen
    <2>13. QED
      BY <2>2, <2>10, <2>12, EventsMove
  <1>14. QED
    BY <1>4, <1>5, <1>6, <1>7, <1>8, <1>9, <1>10, <1>11, <1>12, <1>13 DEF Work

LEMMA AppendEvents ==
  ASSUME CoreInv, EventsInv, NEW c \in Callers, NEW r \in Runs, AppendRunEvent(c, r)
  PROVE  EventsInv'
  <1>1. PICK event \in Event : /\ event.id = writes + 1 /\ AskEvent(r, event)
                               /\ \E k : Begins(c, k) /\ k.op = "append" /\ k.run = r /\ k.event = event
    BY AppendRunEventIs
  <1>2. PICK k : Begins(c, k) /\ k.op = "append" /\ k.run = r /\ k.event = event
    BY <1>1
  <1>3. writes' = writes + 1 /\ writes \in Nat /\ asked.log \in [Runs -> Seq(Event)]
    BY AppendRunEventIs DEF CoreInv, TypeInv
  <1>4. log' = log /\ call'[c] = k /\ \A d \in Callers \ {c} : call'[d] = call[d]
    BY <1>2 DEF Begins, Moves
  <1>5. Carries(k) /\ ~Holds(k)
    BY <1>2, BeginsWhere DEF Carries, Holds, Op
  <1>6. /\ ToSet(asked'.log[r]) = ToSet(asked.log[r]) \cup {event}
        /\ \A x \in Runs \ {r} : asked'.log[x] = asked.log[x]
    <2>1. PICK s \in Seq(Event) : s = asked.log[r]
      BY <1>3
    <2>2. asked'.log[r] = Append(s, event) /\ \A x \in Runs \ {r} : asked'.log[x] = asked.log[x]
      BY <1>1, <1>3, <2>1 DEF AskEvent
    <2>3. QED
      BY <2>1, <2>2, AppendedSet
  <1>7. \A x \in Runs : ToSet(asked.log[x]) \subseteq ToSet(asked'.log[x])
    BY <1>6
  <1>8. \A x \in Runs : \A e \in ToSet(asked.log[x]) : e.id \in Nat /\ e.id <= writes
    <2> SUFFICES ASSUME NEW x \in Runs, NEW e \in ToSet(asked.log[x]) PROVE e.id \in Nat /\ e.id <= writes
      OBVIOUS
    <2>1. e \in Event
      BY <1>3 DEF ToSet
    <2>2. QED
      BY <2>1 DEF EventsInv, Recorded, Event
  <1>9. event \notin ToSet(asked.log[r])
    BY <1>1, <1>3, <1>8
  <1>10. ASSUME NEW x \in Runs PROVE Recorded(x)'
    <2>1. Distinct(log'[x]) /\ ToSet(log'[x]) \subseteq ToSet(asked'.log[x])
      BY <1>4, <1>7 DEF EventsInv, Recorded
    <2>2. \A e \in ToSet(asked'.log[x]) : e \in ToSet(asked.log[x]) \/ e = event
      BY <1>6
    <2>3. \A e \in ToSet(asked'.log[x]) : e.id <= writes'
      BY <1>1, <1>3, <1>8, <2>2
    <2>4. QED
      BY <2>1, <2>3 DEF Recorded, Distinct
  <1>11. ASSUME NEW d \in Callers PROVE (Copies(call[d]) /\ Unwritten(call[d]))'
    <2>1. CASE d = c
      <3>1. event \in ToSet(asked'.log[r]) /\ event \notin ToSet(log'[r])
        BY <1>4, <1>6, <1>9 DEF EventsInv, Recorded
      <3>2. QED
        BY <1>2, <1>4, <1>5, <2>1, <3>1 DEF Copies, Unwritten
    <2>2. CASE d # c
      <3>1. Carries(call[d]) \/ Holds(call[d]) => call[d].run \in Runs
        BY CarriesAre DEF Appends
      <3>2. Copies(call[d]) /\ Unwritten(call[d]) /\ call'[d] = call[d]
        BY <1>4, <2>2 DEF EventsInv
      <3>3. QED
        BY <1>4, <1>7, <3>1, <3>2 DEF Copies, Unwritten
    <2>3. QED
      BY <2>1, <2>2
  <1>12. ASSUME NEW d \in Callers, NEW e \in Callers
         PROVE  Unseen(call'[d], call'[e]) /\ (d # e => Differ(call'[d], call'[e]))
    <2>1. Unseen(call[d], call[e]) /\ (d # e => Differ(call[d], call[e]))
          /\ Copies(call[e]) /\ Unwritten(call[e]) /\ Unwritten(call[d])
      BY DEF EventsInv
    <2>2. CASE d = c /\ e = c
      BY <1>4, <1>5, <2>2 DEF Unseen
    <2>3. CASE d = c /\ e # c
      BY <1>2, <1>4, <1>9, <2>1, <2>3 DEF Unseen, Differ, Copies, Unwritten
    <2>4. CASE d # c /\ e = c
      BY <1>2, <1>4, <1>5, <1>9, <2>1, <2>4 DEF Unseen, Differ, Unwritten
    <2>5. CASE d # c /\ e # c
      BY <1>4, <2>1, <2>5
    <2>6. QED
      BY <2>2, <2>3, <2>4, <2>5
  <1>13. QED
    BY <1>10, <1>11, <1>12 DEF EventsInv, Unseen, Differ

LEMMA EventsStep ==
  ASSUME CoreInv, EventsInv, StoreStep PROVE EventsInv'
  <1>1. ASSUME NEW c \in Callers, NEW k, Begins(c, k), k.op \in Op \ {"append"}, asked'.log = asked.log,
               writes' \in {writes, writes + 1}
        PROVE  EventsInv'
    <2>1. ~Holds(k) /\ ~Carries(k)
      BY <1>1, BeginsWhere DEF Holds, Carries
    <2>2. Moves(c, k) /\ log' = log
      BY <1>1 DEF Begins
    <2>3. QED
      BY <1>1, <2>1, <2>2, EventsBeside
  <1>2. ASSUME NEW c \in Callers, Request(c) \/ Refresh(c) PROVE EventsInv'
    <2>1. ASSUME NEW r \in Runs, CreateJob(c, r) PROVE EventsInv'
      BY <1>1, <2>1, CreateJobIs DEF AskRow, Op
    <2>2. ASSUME NEW r \in Runs, UpdateJob(c, r) PROVE EventsInv'
      BY <1>1, <2>2, UpdateJobIs DEF AskRow, Op
    <2>3. CASE ClaimNextQueuedJob(c)
      BY <1>1, <2>3, ClaimIs DEF Op
    <2>4. CASE Refresh(c)
      BY <1>1, <2>4, RefreshIs DEF Op
    <2>5. ASSUME NEW r \in Runs, AppendRunEvent(c, r) PROVE EventsInv'
      BY <2>5, AppendEvents
    <2>6. QED
      BY <1>2, <2>1, <2>2, <2>3, <2>4, <2>5 DEF Request
  <1>3. CASE UNCHANGED <<log, call, asked, writes>>
    BY <1>3, SMTT(60) DEF EventsInv, Recorded, Copies, Unwritten, Unseen, Differ, Carries, Holds, Distinct
  <1>4. CASE LoseCalls
    <2>1. UNCHANGED <<log, asked, writes>> /\ \A c \in Callers : call'[c] = Idle
      BY <1>4, LoseIs
    <2>2. \A c \in Callers : ~Carries(call'[c]) /\ ~Holds(call'[c])
      BY <2>1 DEF Idle, Carries, Holds
    <2>3. \A r \in Runs : Recorded(r)'
      BY <2>1 DEF EventsInv, Recorded, Distinct
    <2>4. \A c \in Callers : (Copies(call[c]) /\ Unwritten(call[c]))'
      BY <2>2 DEF Copies, Unwritten, Carries, Holds
    <2>5. \A c, d \in Callers : Unseen(call'[c], call'[d]) /\ Differ(call'[c], call'[d])
      BY <2>2 DEF Unseen, Differ
    <2>6. QED
      BY <2>3, <2>4, <2>5 DEF EventsInv, Unseen, Differ
  <1>5. (Wait \/ UNCHANGED stores) => UNCHANGED <<log, call, asked, writes>>
    BY DEF Wait, stores
  <1>6. QED
    BY <1>2, <1>3, <1>4, <1>5, WorkEvents DEF StoreStep

LEMMA EventsInit == StoresInit => EventsInv
  <1> SUFFICES ASSUME StoresInit PROVE EventsInv
    OBVIOUS
  <1>1. \A c \in Callers : ~Carries(call[c]) /\ ~Holds(call[c])
    BY DEF StoresInit, Idle, Carries, Holds
  <1>2. \A r \in Runs : log[r] = << >> /\ asked.log[r] = << >>
    BY DEF StoresInit
  <1>3. ToSet(<< >>) = {} /\ Distinct(<< >>)
    BY DEF ToSet, Distinct
  <1>4. \A r \in Runs : Recorded(r)
    BY <1>2, <1>3 DEF Recorded
  <1>5. QED
    BY <1>1, <1>4 DEF EventsInv, Copies, Unwritten, Unseen, Differ
-----------------------------------------------------------------------------
(* What a client has been told, and what a poll has found, of the log: in  *)
(* a database the log only grows, and they are its first events.           *)
First(events, n) == {events[i] : i \in 1..n}
BeginsLog(set, r) == \E n \in 0..Len(log[r]) : set = First(log[r], n)
InOrder(sent, events) ==
    \A i, j \in DOMAIN sent : i < j /\ sent[i].at > sent[j].at =>
        \E a, b \in DOMAIN events : events[a] = sent[i] /\ events[b] = sent[j] /\ a < b
Heard(list, r) ==
    /\ Distinct(list) /\ ToSet(list) \subseteq ToSet(asked.log[r])
    /\ kind = "database" => BeginsLog(ToSet(list), r)
Polling == [pc : {"none", "asked", "got"}, list : Seq(Event)]
Feed == [pc : {"unused", "find", "audit", "open", "ended"}, run : Runs \cup {Nothing},
         sent : Seq(Event), poll : [Flight -> Polling],
         timer : BOOLEAN, stopped : BOOLEAN, gone : BOOLEAN]
Tells(x) ==
    /\ x.run \in Runs /\ Heard(x.sent, x.run)
    /\ kind = "database" => InOrder(x.sent, log[x.run])
    /\ \A f \in Flight : x.poll[f].pc = "got" => Heard(x.poll[f].list, x.run) /\ Sorted(x.poll[f].list)
Handlers == {stream[s] : s \in Streams}
FeedInv == stream \in [Streams -> Feed] /\ \A x \in Handlers : x = NoStream \/ Tells(x)

LEMMA ListingIs ==
  ASSUME NEW r \in Runs, log \in [Runs -> Seq(Event)], NEW list \in Listings(r)
  PROVE  /\ list \in Seq(Event) /\ ToSet(list) = ToSet(log[r])
         /\ Sorted(list) /\ Distinct(list)
  <1> DEFINE events == ToSet(log[r])
             n == Cardinality(events)
  <1>1. events \subseteq Event /\ IsFiniteSet(events) /\ n \in Nat
    <2>1. PICK s \in Seq(Event) : s = log[r]
      OBVIOUS
    <2>2. DOMAIN s = 1..Len(s) /\ Len(s) \in Nat
      OBVIOUS
    <2>3. s \in Surjection(1..Len(s), ToSet(s)) /\ ToSet(s) \subseteq Event
      BY <2>2 DEF Surjection, ToSet
    <2>4. IsFiniteSet(1..Len(s))
      BY <2>2, FS_Interval
    <2>5. IsFiniteSet(ToSet(s))
      BY <2>3, <2>4, FS_Surjection
    <2>6. QED
      BY <2>1, <2>3, <2>5, FS_CardinalityType
  <1>2. /\ list \in [1..n -> events] /\ ToSet(list) = events
        /\ \A i, j \in DOMAIN list : i < j => list[i].at <= list[j].at
    BY DEF Listings
  <1> HIDE DEF events, n
  <1>3. DOMAIN list = 1..n
    BY <1>2
  <1>4. list \in Surjection(1..n, events)
    BY <1>2, <1>3 DEF Surjection, ToSet
  <1>5. IsFiniteSet(1..n) /\ Cardinality(1..n) = n
    <2>1. 1 \in Int /\ n \in Int
      BY <1>1
    <2>2. IsFiniteSet(1..n) /\ Cardinality(1..n) = IF 1 > n THEN 0 ELSE n - 1 + 1
      BY <2>1, FS_Interval
    <2>3. QED
      BY <1>1, <2>2
  <1>6. list \in Injection(1..n, events)
    BY <1>4, <1>5, FS_SurjSameCardinalityImpliesInj DEF n
  <1>7. Distinct(list)
    BY <1>3, <1>6 DEF Injection, IsInjective, Distinct
  <1>8. list \in Seq(Event)
    BY <1>1, <1>2
  <1>9. QED
    BY <1>2, <1>7, <1>8 DEF events, Sorted

LEMMA DistinctCount ==
  ASSUME NEW s \in Seq(Event), Distinct(s) PROVE Cardinality(ToSet(s)) = Len(s)
  <1>1. DOMAIN s = 1..Len(s) /\ Len(s) \in Nat
    OBVIOUS
  <1>2. s \in [1..Len(s) -> ToSet(s)] /\ \A e \in ToSet(s) : \E i \in 1..Len(s) : s[i] = e
    BY <1>1 DEF ToSet
  <1>3. IsInjective(s)
    BY <1>1 DEF IsInjective, Distinct
  <1>4. s \in Bijection(1..Len(s), ToSet(s))
    BY <1>2, <1>3 DEF Bijection, Injection, Surjection
  <1>5. ExistsBijection(1..Len(s), ToSet(s))
    BY <1>4 DEF ExistsBijection
  <1>6. QED
    BY <1>1, <1>5, FS_CountingElements

LEMMA FirstsNest ==
  ASSUME NEW events, NEW a \in Nat, NEW b \in Nat, a <= b
  PROVE  First(events, a) \cup First(events, b) = First(events, b)
  <1>1. 1..a \subseteq 1..b
    OBVIOUS
  <1>2. QED
    BY <1>1 DEF First

(* Sending what has not been sent. *)
LEMMA FlushTells ==
  ASSUME NEW r \in Runs, log \in [Runs -> Seq(Event)],
         NEW sent \in Seq(Event), NEW list \in Seq(Event), NEW z, z = sent \o Unsent(list, sent),
         Heard(sent, r), kind = "database" => InOrder(sent, log[r]), Heard(list, r), Sorted(list)
  PROVE  z \in Seq(Event) /\ Heard(z, r) /\ (kind = "database" => InOrder(z, log[r]))
  <1> DEFINE u == Unsent(list, sent)
  <1>1. u \in Seq(Event) /\ ToSet(u) = ToSet(list) \ ToSet(sent) /\ Distinct(u) /\ Sorted(u)
    <2> DEFINE new == ToSet(list) \ ToSet(sent)
    <2>1. u = Kept(list, new) /\ new \subseteq ToSet(list)
      BY DEF Unsent
    <2> HIDE DEF new, u
    <2>2. u \in Seq(Event) /\ ToSet(u) = new /\ Distinct(u)
      BY <2>1, KeptIsPart DEF Heard
    <2>3. Sorted(u)
      BY <2>1, KeptIsSorted
    <2>4. QED
      BY <2>2, <2>3 DEF new
  <1> HIDE DEF u
  <1>2. z = sent \o u
    BY DEF u
  <1>3. /\ z \in Seq(Event) /\ Len(z) = Len(sent) + Len(u)
        /\ \A i \in 1..Len(sent) : z[i] = sent[i]
        /\ \A i \in 1..Len(u) : z[Len(sent) + i] = u[i]
    BY <1>1, <1>2, Joined
  <1>4. /\ Distinct(z) /\ ToSet(z) = ToSet(sent) \cup ToSet(u)
        /\ \A i \in DOMAIN z : i \in DOMAIN sent \/ \E k \in DOMAIN u : i = Len(sent) + k
    <2>1. Distinct(sent) /\ ToSet(sent) \cap ToSet(u) = {}
      BY <1>1 DEF Heard
    <2>2. sent \in Seq(Event) /\ u \in Seq(Event) /\ Distinct(u)
      BY <1>1
    <2>3. Joins(sent, u, z)
      BY <1>2, <2>1, <2>2, JoinedDistinct
    <2>4. QED
      BY <2>3 DEF Joins
  <1>5. ToSet(z) = ToSet(sent) \cup ToSet(list)
    BY <1>1, <1>4
  <1>6. ASSUME kind = "database" PROVE BeginsLog(ToSet(z), r) /\ InOrder(z, log[r])
    <2>1. PICK n \in 0..Len(log[r]) : ToSet(sent) = First(log[r], n)
      BY <1>6 DEF Heard, BeginsLog
    <2>2. PICK m \in 0..Len(log[r]) : ToSet(list) = First(log[r], m)
      BY <1>6 DEF Heard, BeginsLog
    <2>3. log[r] \in Seq(Event) /\ DOMAIN log[r] = 1..Len(log[r]) /\ Len(log[r]) \in Nat /\ n \in Nat /\ m \in Nat
      OBVIOUS
    <2>4. BeginsLog(ToSet(z), r)
      <3>1. CASE n <= m
        <4>1. ToSet(z) = First(log[r], m)
          BY <1>5, <2>1, <2>2, <2>3, <3>1, FirstsNest
        <4>2. QED
          BY <4>1 DEF BeginsLog
      <3>2. CASE m <= n
        <4>1. ToSet(z) = First(log[r], n)
          BY <1>5, <2>1, <2>2, <2>3, <3>2, FirstsNest
        <4>2. QED
          BY <4>1 DEF BeginsLog
      <3>3. QED
        BY <2>3, <3>1, <3>2
    <2>5. DOMAIN sent = 1..Len(sent) /\ DOMAIN u = 1..Len(u) /\ Len(sent) \in Nat /\ Len(u) \in Nat
      BY <1>1
    <2>6. InOrder(z, log[r])
      <3> SUFFICES ASSUME NEW i \in DOMAIN z, NEW j \in DOMAIN z, i < j /\ z[i].at > z[j].at
                   PROVE  \E a, b \in DOMAIN log[r] : log[r][a] = z[i] /\ log[r][b] = z[j] /\ a < b
        BY DEF InOrder
      <3>1. CASE i \in DOMAIN sent /\ j \in DOMAIN sent
        <4>1. z[i] = sent[i] /\ z[j] = sent[j]
          BY <1>3, <2>5, <3>1
        <4>2. InOrder(sent, log[r]) /\ sent[i].at > sent[j].at
          BY <1>6, <4>1
        <4>3. \E a, b \in DOMAIN log[r] : log[r][a] = sent[i] /\ log[r][b] = sent[j] /\ a < b
          BY <3>1, <4>2 DEF InOrder
        <4>4. QED
          BY <4>1, <4>3
      <3>2. ASSUME i \in DOMAIN sent, NEW k \in DOMAIN u, j = Len(sent) + k
            PROVE  \E a, b \in DOMAIN log[r] : log[r][a] = z[i] /\ log[r][b] = z[j] /\ a < b
        <4>1. z[i] = sent[i] /\ z[j] = u[k]
          BY <1>3, <2>5, <3>2
        <4>2. z[i] \in First(log[r], n)
          BY <2>1, <3>2, <4>1 DEF ToSet
        <4>3. z[j] \in First(log[r], m) /\ z[j] \notin First(log[r], n)
          BY <1>1, <2>1, <2>2, <3>2, <4>1 DEF ToSet
        <4>4. PICK a \in 1..n : log[r][a] = z[i]
          BY <4>2 DEF First
        <4>5. PICK b \in 1..m : log[r][b] = z[j]
          BY <4>3 DEF First
        <4>6. b \notin 1..n
          BY <4>3, <4>5 DEF First
        <4>7. a \in DOMAIN log[r] /\ b \in DOMAIN log[r] /\ a < b
          BY <2>3, <4>6, SMTT(60)
        <4>8. QED
          BY <4>4, <4>5, <4>7
      <3>3. ASSUME NEW k \in DOMAIN u, i = Len(sent) + k, j \in DOMAIN sent PROVE FALSE
        <4>1. k \in 1..Len(u) /\ j \in 1..Len(sent) /\ Len(sent) + k < j
          BY <2>5, <3>3
        <4>2. QED
          BY <2>5, <4>1, SMTT(60)
      <3>4. ASSUME NEW k \in DOMAIN u, i = Len(sent) + k, NEW l \in DOMAIN u, j = Len(sent) + l PROVE FALSE
        <4>1. z[i] = u[k] /\ z[j] = u[l] /\ k < l
          <5>1. k \in 1..Len(u) /\ l \in 1..Len(u)
            BY <2>5
          <5>2. z[i] = u[k] /\ z[j] = u[l]
            BY <1>3, <3>4, <5>1
          <5>3. k < l
            BY <2>5, <3>4, <5>1
          <5>4. QED
            BY <5>2, <5>3
        <4>2. u[k].at <= u[l].at
          BY <1>1, <4>1 DEF Sorted
        <4>3. u[k] \in Event /\ u[l] \in Event
          BY <1>1, SMTT(60)
        <4>4. u[k].at \in Nat /\ u[l].at \in Nat
          BY <4>3 DEF Event
        <4>5. QED
          BY <4>1, <4>2, <4>4
      <3>5. QED
        BY <1>4, <3>1, <3>2, <3>3, <3>4
    <2>7. QED
      BY <2>4, <2>6
  <1>7. ToSet(z) \subseteq ToSet(asked.log[r])
    BY <1>5 DEF Heard
  <1>8. QED
    BY <1>3, <1>4, <1>6, <1>7 DEF Heard

(* What a step of the store leaves true: logs in a database only grow. *)
LogsGrow ==
    /\ kind' = kind /\ \A r \in Runs : ToSet(asked.log[r]) \subseteq ToSet(asked'.log[r])
    /\ kind = "database" => \A r \in Runs : log'[r] = log[r] \/ \E e \in Event : log'[r] = Append(log[r], e)

LEMMA StillTold ==
  ASSUME CoreInv, LogsGrow, NEW x, Tells(x) PROVE Tells(x)'
  <1>1. /\ kind' = kind /\ \A r \in Runs : ToSet(asked.log[r]) \subseteq ToSet(asked'.log[r])
        /\ kind = "database" => \A r \in Runs : log'[r] = log[r] \/ \E e \in Event : log'[r] = Append(log[r], e)
    BY DEF LogsGrow
  <1>2. ASSUME NEW r \in Runs, kind = "database"
        PROVE  /\ DOMAIN log[r] \subseteq DOMAIN log'[r] /\ \A i \in DOMAIN log[r] : log'[r][i] = log[r][i]
               /\ 0..Len(log[r]) \subseteq 0..Len(log'[r])
               /\ \A n \in 0..Len(log[r]) : First(log'[r], n) = First(log[r], n)
    <2>1. PICK s \in Seq(Event) : s = log[r]
      BY DEF CoreInv, TypeInv
    <2>2. PICK t : t = log'[r]
      OBVIOUS
    <2>3. t = s \/ \E e \in Event : t = Append(s, e)
      BY <1>1, <1>2, <2>1, <2>2
    <2>4. /\ DOMAIN s \subseteq DOMAIN t /\ \A i \in DOMAIN s : t[i] = s[i]
          /\ 0..Len(s) \subseteq 0..Len(t)
      <3>1. CASE t = s
        BY <3>1
      <3>2. CASE \E e \in Event : t = Append(s, e)
        <4>1. /\ Len(s) \in Nat /\ Len(t) = Len(s) + 1 /\ DOMAIN s = 1..Len(s) /\ DOMAIN t = 1..(Len(s) + 1)
              /\ \A i \in 1..Len(s) : t[i] = s[i]
          BY <3>2
        <4>2. QED
          BY <4>1
      <3>3. QED
        BY <2>3, <3>1, <3>2
    <2>5. \A n \in 0..Len(s) : 1..n \subseteq DOMAIN s
      OBVIOUS
    <2>6. \A n \in 0..Len(s) : First(t, n) = First(s, n)
      BY <2>4, <2>5 DEF First
    <2>7. QED
      BY <2>1, <2>2, <2>4, <2>6
  <1>3. ASSUME NEW list, NEW r \in Runs, Heard(list, r) PROVE Heard(list, r)'
    <2>1. ToSet(list) \subseteq ToSet(asked'.log[r])
      BY <1>1, <1>3 DEF Heard
    <2>2. kind = "database" => \E n \in 0..Len(log'[r]) : ToSet(list) = First(log'[r], n)
      BY <1>2, <1>3 DEF Heard, BeginsLog
    <2>3. Distinct(list)' /\ ToSet(list)' = ToSet(list)
      BY <1>3 DEF Heard, Distinct
    <2>4. QED
      BY <1>1, <2>1, <2>2, <2>3 DEF Heard, BeginsLog, First
  <1>4. x.run \in Runs /\ Heard(x.sent, x.run)'
    BY <1>3 DEF Tells
  <1>5. kind = "database" => InOrder(x.sent, log'[x.run])
    BY <1>2 DEF Tells, InOrder
  <1>6. \A f \in Flight : x.poll[f].pc = "got" => Heard(x.poll[f].list, x.run)' /\ Sorted(x.poll[f].list)
    BY <1>3 DEF Tells
  <1>7. QED
    BY <1>1, <1>4, <1>5, <1>6 DEF Tells, Heard, BeginsLog, First, Distinct, InOrder, Sorted, ToSet

(* One stream takes a step and the store does not. *)
LEMMA Becomes ==
  ASSUME CoreInv, FeedInv, NEW s \in Streams, NEW y \in Feed, Become(s, y), Tells(y), UNCHANGED <<kind, log, asked>>
  PROVE  FeedInv'
  <1>1. stream' \in [Streams -> Feed] /\ stream'[s] = y /\ \A t \in Streams \ {s} : stream'[t] = stream[t]
    BY DEF FeedInv, Become
  <1>2. \A x \in Handlers' : x = y \/ x \in Handlers
    BY <1>1 DEF Handlers
  <1>3. LogsGrow
    BY DEF LogsGrow
  <1>4. \A x \in Handlers' : x = NoStream \/ Tells(x)'
    BY <1>2, <1>3, StillTold DEF FeedInv
  <1>5. QED
    BY <1>1, <1>4 DEF FeedInv

LEMMA NoStreamIs == NoStream \in Feed /\ NoStream.pc = "unused" /\ NoStream.sent = << >>
                    /\ \A f \in Flight : NoStream.poll[f].pc = "none"
  <1>1. << >> \in Seq(Event)
    OBVIOUS
  <1>2. NoPoll \in Polling /\ NoPoll.pc = "none"
    BY <1>1 DEF NoPoll, Polling
  <1>3. [f \in Flight |-> NoPoll] \in [Flight -> Polling]
    BY <1>2
  <1>4. QED
    BY <1>1, <1>2, <1>3 DEF NoStream, Feed

(* The same has been told, and no poll has found anything new. *)
LEMMA SameTold ==
  ASSUME NEW x, NEW y, Tells(x), y.run = x.run, y.sent = x.sent,
         \A f \in Flight : y.poll[f] = x.poll[f] \/ y.poll[f].pc # "got"
  PROVE  Tells(y)
  BY DEF Tells

(* The process ends, and with it every stream. *)
LEMMA ExitTold ==
  ASSUME CoreInv, FeedInv, Exit PROVE FeedInv'
  <1>1. UNCHANGED <<kind, log, asked>>
    BY DEF Exit, LoseCalls
  <1>2. ASSUME NEW s \in Streams
        PROVE  stream'[s] \in Feed /\ (stream'[s] = NoStream \/ Tells(stream'[s]))
    <2>1. PICK x : x = stream[s]
      OBVIOUS
    <2>2. x \in Feed /\ (x = NoStream \/ Tells(x))
      BY <2>1 DEF FeedInv, Handlers
    <2>3. stream'[s] = IF x.pc = "unused" THEN NoStream ELSE [x EXCEPT !.pc = "ended"]
      BY <2>1 DEF Exit
    <2>4. CASE x.pc = "unused"
      BY <2>3, <2>4, NoStreamIs
    <2>5. CASE x.pc # "unused"
      <3>1. PICK y : y = [x EXCEPT !.pc = "ended"]
        OBVIOUS
      <3>2. y \in Feed /\ y.run = x.run /\ y.sent = x.sent /\ y.poll = x.poll
        BY <2>2, <3>1 DEF Feed
      <3>3. Tells(x)
        BY <2>2, <2>5, NoStreamIs
      <3>4. Tells(y)
        BY <3>2, <3>3, SameTold
      <3>5. QED
        BY <2>3, <2>5, <3>1, <3>2, <3>4
    <2>6. QED
      BY <2>4, <2>5
  <1>3. stream' \in [Streams -> Feed]
    BY <1>2 DEF Exit
  <1>4. LogsGrow
    BY <1>1 DEF LogsGrow
  <1>5. \A x \in Handlers' : x = NoStream \/ Tells(x)
    BY <1>2 DEF Handlers
  <1>6. \A x \in Handlers' : x = NoStream \/ Tells(x)'
    BY <1>4, <1>5, StillTold
  <1>7. QED
    BY <1>3, <1>6 DEF FeedInv

LEMMA StreamTold ==
  ASSUME CoreInv, SortedInv, EventsInv, FeedInv, NEW s \in Streams, Streaming(s), UNCHANGED stores
  PROVE  FeedInv'
  <1>0. PICK x : x = stream[s]
    OBVIOUS
  <1>1. /\ x \in Feed /\ (x.pc # "unused" => Tells(x))
        /\ x.run \in Runs \cup {Nothing} /\ x.sent \in Seq(Event) /\ x.poll \in [Flight -> Polling]
    BY <1>0, NoStreamIs DEF FeedInv, Feed, Handlers
  <1>2. UNCHANGED <<kind, log, asked>> /\ log \in [Runs -> Seq(Event)]
    BY DEF stores, CoreInv, TypeInv
  <1>3. Asked \in Polling /\ Asked.pc = "asked" /\ NoPoll \in Polling /\ NoPoll.pc = "none"
    <2>1. << >> \in Seq(Event)
      OBVIOUS
    <2>2. QED
      BY <2>1 DEF Asked, NoPoll, Polling
  <1>4. ASSUME NEW y \in Feed, Become(s, y), x.pc # "unused", y.run = x.run, y.sent = x.sent,
               \A f \in Flight : y.poll[f] = x.poll[f] \/ y.poll[f].pc # "got"
        PROVE  FeedInv'
    <2>1. Tells(y)
      BY <1>1, <1>4, SameTold
    <2>2. QED
      BY <1>2, <1>4, <2>1, Becomes
  <1>5. ASSUME NEW r \in Runs, Connect(s, r) PROVE FeedInv'
    <2>1. PICK y : y = [NoStream EXCEPT !.pc = "find", !.run = r]
      OBVIOUS
    <2>2. /\ y \in Feed /\ y.run = r /\ y.sent = << >>
          /\ \A f \in Flight : y.poll[f].pc = "none"
      BY <2>1, NoStreamIs DEF Feed
    <2>3. Heard(<< >>, r) /\ InOrder(<< >>, log[r])
      <3>1. ToSet(<< >>) = {} /\ Distinct(<< >>) /\ InOrder(<< >>, log[r])
        BY DEF ToSet, Distinct, InOrder
      <3>2. First(log[r], 0) = {} /\ 0 \in 0..Len(log[r])
        BY <1>2 DEF First
      <3>3. BeginsLog({}, r)
        BY <3>2 DEF BeginsLog
      <3>4. QED
        BY <3>1, <3>3 DEF Heard
    <2>4. Tells(y)
      BY <2>2, <2>3 DEF Tells
    <2>5. QED
      BY <1>2, <1>5, <2>1, <2>2, <2>4, Becomes DEF Connect
  <1>6. CASE FindRun(s)
    <2>1. PICK pc \in {"ended", "audit"} : Become(s, [x EXCEPT !.pc = pc])
      BY <1>0, <1>6 DEF FindRun
    <2>2. PICK y : y = [x EXCEPT !.pc = pc]
      OBVIOUS
    <2>3. y \in Feed /\ y.run = x.run /\ y.sent = x.sent /\ y.poll = x.poll
      BY <1>1, <2>2 DEF Feed
    <2>4. QED
      BY <1>0, <1>4, <1>6, <2>1, <2>2, <2>3 DEF FindRun
  <1>7. CASE AuditAndOpen(s)
    <2>1. CASE Become(s, [x EXCEPT !.pc = "open", !.poll[1] = Asked])
      <3>1. PICK y : y = [x EXCEPT !.pc = "open", !.poll[1] = Asked]
        OBVIOUS
      <3>2. PICK polls : polls = [x.poll EXCEPT ![1] = Asked]
        OBVIOUS
      <3>3. polls \in [Flight -> Polling] /\ \A f \in Flight : polls[f] = x.poll[f] \/ polls[f] = Asked
        BY <1>1, <1>3, <3>2
      <3>4. y = [x EXCEPT !.pc = "open", !.poll = polls]
        BY <3>1, <3>2
      <3>5. y \in Feed /\ y.run = x.run /\ y.sent = x.sent /\ y.poll = polls
        BY <1>1, <3>3, <3>4 DEF Feed
      <3>6. x.pc = "audit"
        BY <1>0, <1>7 DEF AuditAndOpen
      <3>7. QED
        BY <1>3, <1>4, <2>1, <3>1, <3>3, <3>5, <3>6
    <2>2. CASE Become(s, [x EXCEPT !.pc = "ended"])
      <3>1. PICK y : y = [x EXCEPT !.pc = "ended"]
        OBVIOUS
      <3>2. y \in Feed /\ y.run = x.run /\ y.sent = x.sent /\ y.poll = x.poll
        BY <1>1, <3>1 DEF Feed
      <3>3. x.pc = "audit"
        BY <1>0, <1>7 DEF AuditAndOpen
      <3>4. QED
        BY <1>4, <2>2, <3>1, <3>2, <3>3
    <2>3. QED
      BY <1>0, <1>7, <2>1, <2>2 DEF AuditAndOpen
  <1>8. CASE Tick(s)
    <2>1. PICK f \in Flight : Become(s, [x EXCEPT !.poll[f] = Asked])
      BY <1>0, <1>8 DEF Tick
    <2>2. PICK y : y = [x EXCEPT !.poll[f] = Asked]
      OBVIOUS
    <2>3. PICK polls : polls = [x.poll EXCEPT ![f] = Asked]
      OBVIOUS
    <2>4. polls \in [Flight -> Polling] /\ \A g \in Flight : polls[g] = x.poll[g] \/ polls[g] = Asked
      BY <1>1, <1>3, <2>3
    <2>5. y = [x EXCEPT !.poll = polls]
      BY <2>2, <2>3
    <2>6. y \in Feed /\ y.run = x.run /\ y.sent = x.sent /\ y.poll = polls
      BY <1>1, <2>4, <2>5 DEF Feed
    <2>7. x.pc = "open"
      BY <1>0, <1>8 DEF Tick
    <2>8. QED
      BY <1>3, <1>4, <2>1, <2>2, <2>4, <2>6, <2>7
  <1>9. CASE Disconnect(s)
    <2>1. PICK y : y = [x EXCEPT !.gone = TRUE, !.stopped = x.timer, !.timer = FALSE]
      OBVIOUS
    <2>2. y \in Feed /\ y.run = x.run /\ y.sent = x.sent /\ y.poll = x.poll
      BY <1>1, <2>1 DEF Feed
    <2>3. x.pc # "unused" /\ Become(s, y)
      BY <1>0, <1>9, <2>1 DEF Disconnect
    <2>4. QED
      BY <1>4, <2>2, <2>3
  <1>10. ASSUME NEW f \in Flight, Poll(s, f) PROVE FeedInv'
    <2>1. PICK list \in IF kind = "file" THEN {log[x.run]} ELSE Listings(x.run) :
            Become(s, [x EXCEPT !.poll[f] = [pc |-> "got", list |-> list]])
      BY <1>0, <1>10 DEF Poll
    <2>2. x.pc = "open"
      BY <1>0, <1>10 DEF Poll
    <2>3. Tells(x) /\ x.run \in Runs
      BY <1>1, <2>2 DEF Tells
    <2>4. list \in Seq(Event) /\ ToSet(list) = ToSet(log[x.run]) /\ Sorted(list) /\ Distinct(list)
      <3>1. CASE kind = "file"
        <4>1. list = log[x.run]
          BY <2>1, <3>1
        <4>2. QED
          BY <1>2, <2>3, <3>1, <4>1 DEF SortedInv, EventsInv, Recorded
      <3>2. CASE kind # "file"
        <4>1. list \in Listings(x.run)
          BY <2>1, <3>2
        <4>2. QED
          BY <1>2, <2>3, <4>1, ListingIs
      <3>3. QED
        BY <3>1, <3>2
    <2>5. Heard(list, x.run)
      <3>1. ToSet(list) \subseteq ToSet(asked.log[x.run])
        BY <2>3, <2>4 DEF EventsInv, Recorded
      <3>2. BeginsLog(ToSet(list), x.run)
        <4>1. PICK events \in Seq(Event) : events = log[x.run]
          BY <1>2, <2>3
        <4>2. ToSet(events) = First(events, Len(events)) /\ Len(events) \in 0..Len(events)
          BY DEF ToSet, First
        <4>3. QED
          BY <2>4, <4>1, <4>2 DEF BeginsLog
      <3>3. QED
        BY <2>4, <3>1, <3>2 DEF Heard
    <2>6. PICK y : y = [x EXCEPT !.poll[f] = [pc |-> "got", list |-> list]]
      OBVIOUS
    <2>7. PICK polls : polls = [x.poll EXCEPT ![f] = [pc |-> "got", list |-> list]]
      OBVIOUS
    <2>8. polls \in [Flight -> Polling] /\ polls[f].list = list /\ \A g \in Flight \ {f} : polls[g] = x.poll[g]
      BY <1>1, <2>4, <2>7 DEF Polling
    <2>9. y = [x EXCEPT !.poll = polls]
      BY <2>6, <2>7
    <2>10. y \in Feed /\ y.run = x.run /\ y.sent = x.sent /\ y.poll = polls
      BY <1>1, <2>8, <2>9 DEF Feed
    <2>11. Tells(y)
      BY <2>3, <2>4, <2>5, <2>8, <2>10 DEF Tells
    <2>12. QED
      BY <1>2, <2>1, <2>6, <2>10, <2>11, Becomes
  <1>11. ASSUME NEW f \in Flight, Flush(s, f) PROVE FeedInv'
    <2>1. x.pc = "open" /\ x.poll[f].pc = "got"
      BY <1>0, <1>11 DEF Flush
    <2>2. PICK list \in Seq(Event) : list = x.poll[f].list
      BY <1>1 DEF Polling
    <2>3. PICK z : z = x.sent \o Unsent(list, x.sent)
      OBVIOUS
    <2>4. PICK y : y = [x EXCEPT !.sent = z, !.poll[f] = NoPoll, !.timer = ~x.stopped]
      OBVIOUS
    <2>5. Become(s, y)
      BY <1>0, <1>11, <2>2, <2>3, <2>4 DEF Flush
    <2>6. Tells(x) /\ x.run \in Runs
      BY <1>1, <2>1 DEF Tells
    <2>7. z \in Seq(Event) /\ Heard(z, x.run) /\ (kind = "database" => InOrder(z, log[x.run]))
      <3>1. Heard(x.sent, x.run) /\ Heard(list, x.run) /\ Sorted(list)
            /\ (kind = "database" => InOrder(x.sent, log[x.run]))
        BY <2>1, <2>2, <2>6 DEF Tells
      <3>2. QED
        BY <1>1, <1>2, <2>3, <2>6, <3>1, FlushTells
    <2>8. PICK polls : polls = [x.poll EXCEPT ![f] = NoPoll]
      OBVIOUS
    <2>9. polls \in [Flight -> Polling] /\ \A g \in Flight : polls[g] = x.poll[g] \/ polls[g] = NoPoll
      BY <1>1, <1>3, <2>8
    <2>10. y = [x EXCEPT !.sent = z, !.poll = polls, !.timer = ~x.stopped]
      BY <2>4, <2>8
    <2>11. y \in Feed /\ y.run = x.run /\ y.sent = z /\ y.poll = polls
      BY <1>1, <2>7, <2>9, <2>10 DEF Feed
    <2>12. Tells(y)
      BY <1>3, <2>6, <2>7, <2>9, <2>11 DEF Tells
    <2>13. QED
      BY <1>2, <2>5, <2>11, <2>12, Becomes
  <1>12. ASSUME NEW f \in Flight, PollThrows(s, f), stream[s].timer \/ stream[s].stopped PROVE FeedInv'
    <2>1. PICK y : y = [x EXCEPT !.poll[f] = NoPoll]
      OBVIOUS
    <2>2. PICK polls : polls = [x.poll EXCEPT ![f] = NoPoll]
      OBVIOUS
    <2>3. polls \in [Flight -> Polling] /\ \A g \in Flight : polls[g] = x.poll[g] \/ polls[g] = NoPoll
      BY <1>1, <1>3, <2>2
    <2>4. y = [x EXCEPT !.poll = polls]
      BY <2>1, <2>2
    <2>5. y \in Feed /\ y.run = x.run /\ y.sent = x.sent /\ y.poll = polls
      BY <1>1, <2>3, <2>4 DEF Feed
    <2>6. x.pc = "open" /\ Become(s, y)
      BY <1>0, <1>12, <2>1 DEF PollThrows
    <2>7. QED
      BY <1>3, <1>4, <2>3, <2>5, <2>6
  <1>13. ASSUME NEW f \in Flight, PollThrows(s, f), ~(stream[s].timer \/ stream[s].stopped) PROVE FeedInv'
    BY <1>13, ExitTold DEF PollThrows
  <1>14. QED
    BY <1>5, <1>6, <1>7, <1>8, <1>9, <1>10, <1>11, <1>12, <1>13 DEF Streaming

(* The store takes a step: what has been told stays true. *)
LEMMA GrowsLogs ==
  ASSUME CoreInv, StoreStep PROVE LogsGrow
  <1> DEFINE Grows == \A r \in Runs : log'[r] = log[r] \/ \E e \in Event : log'[r] = Append(log[r], e)
  <1>1. ASSUME NEW c \in Callers, Work(c)
        PROVE  kind' = kind /\ asked'.log = asked.log /\ (kind = "database" => Grows)
    <2>1. CASE Statement(c)
      <3>1. PICK k : k = call[c]
        OBVIOUS
      <3>2. kind' = kind /\ (log' = log \/ (Appends(k) /\ log' = [log EXCEPT ![k.run] = Append(log[k.run], k.event)]))
        BY <2>1, <3>1, StatementIs
      <3>3. asked'.log = asked.log
        BY <2>1, StatementIs DEF AskRow
      <3>4. log \in [Runs -> Seq(Event)]
        BY DEF CoreInv, TypeInv
      <3>5. CASE Appends(k) /\ log' = [log EXCEPT ![k.run] = Append(log[k.run], k.event)]
        <4>1. PICK e \in Event : e = k.event
          BY <3>5 DEF Appends
        <4>2. \A r \in Runs : log'[r] = log[r] \/ log'[r] = Append(log[r], e)
          BY <3>4, <3>5, <4>1
        <4>3. QED
          BY <3>2, <3>3, <4>2
      <3>6. QED
        BY <3>2, <3>3, <3>5
    <2>2. CASE OpenRow(c) \/ WriteRow(c) \/ ReadRow(c) \/ OpenQueue(c) \/ WriteQueue(c) \/ ReadLog(c)
      BY <2>2 DEF OpenRow, WriteRow, ReadRow, OpenQueue, WriteQueue, ReadLog
    <2>3. CASE ChooseRow(c)
      BY <2>3, ChooseRowIs DEF AskRow
    <2>4. CASE OpenLog(c) \/ WriteLog(c)
      <3>1. call[c].pc \in LogSteps
        BY <2>4 DEF OpenLog, WriteLog, LogSteps
      <3>2. kind = "file"
        BY <3>1 DEF CoreInv, ShapeInv, Shape
      <3>3. kind' = kind /\ asked' = asked
        BY <2>4 DEF OpenLog, WriteLog
      <3>4. QED
        BY <3>2, <3>3
    <2>5. QED
      BY <1>1, <2>1, <2>2, <2>3, <2>4 DEF Work
  <1>2. ASSUME NEW c \in Callers, Request(c) \/ Refresh(c)
        PROVE  kind' = kind /\ log' = log /\ \A r \in Runs : ToSet(asked.log[r]) \subseteq ToSet(asked'.log[r])
    <2>1. kind' = kind /\ log' = log
      BY <1>2, RequestBegins DEF Begins
    <2>2. asked'.log = asked.log \/ \E r \in Runs, e \in Event : AskEvent(r, e)
      <3>1. ASSUME NEW r \in Runs, CreateJob(c, r) \/ UpdateJob(c, r) PROVE asked'.log = asked.log
        BY <3>1, CreateJobIs, UpdateJobIs DEF AskRow
      <3>2. ASSUME NEW r \in Runs, AppendRunEvent(c, r) PROVE \E e \in Event : AskEvent(r, e)
        BY <3>2, AppendRunEventIs
      <3>3. ClaimNextQueuedJob(c) \/ Refresh(c) => asked'.log = asked.log
        BY ClaimIs, RefreshIs
      <3>4. QED
        BY <1>2, <3>1, <3>2, <3>3 DEF Request
    <2>3. ASSUME NEW r \in Runs, NEW e \in Event, AskEvent(r, e), NEW x \in Runs
          PROVE  ToSet(asked.log[x]) \subseteq ToSet(asked'.log[x])
      <3>1. PICK s \in Seq(Event) : s = asked.log[x]
        BY DEF CoreInv, TypeInv
      <3>2. asked'.log[x] = s \/ asked'.log[x] = Append(s, e)
        <4>1. asked.log \in [Runs -> Seq(Event)]
          BY DEF CoreInv, TypeInv
        <4>2. QED
          BY <2>3, <3>1, <4>1 DEF AskEvent
      <3>3. ToSet(Append(s, e)) = ToSet(s) \cup {e}
        BY AppendedSet
      <3>4. QED
        BY <3>1, <3>2, <3>3
    <2>4. QED
      BY <2>1, <2>2, <2>3
  <1>3. (LoseCalls \/ Wait \/ UNCHANGED stores) => UNCHANGED <<kind, log, asked>>
    BY DEF LoseCalls, Wait, stores
  <1>4. QED
    BY <1>1, <1>2, <1>3 DEF StoreStep, LogsGrow

LEMMA FeedBeside ==
  ASSUME CoreInv, FeedInv, StoreStep, stream' = stream PROVE FeedInv'
  <1>1. \A x \in Handlers : x = NoStream \/ Tells(x)'
    BY GrowsLogs, StillTold DEF FeedInv
  <1>2. Handlers' = Handlers
    BY DEF Handlers
  <1>3. QED
    BY <1>1, <1>2 DEF FeedInv

LEMMA FeedStep ==
  ASSUME CoreInv, SortedInv, EventsInv, FeedInv, [Next]_vars PROVE FeedInv'
  <1>1. StoreStep
    BY StoreSteps
  <1>2. ASSUME NEW s \in Streams, Streaming(s) PROVE FeedInv'
    <2>1. CASE UNCHANGED stores
      BY <1>2, <2>1, StreamTold
    <2>2. CASE \E f \in Flight : PollThrows(s, f)
      <3>1. Exit \/ UNCHANGED stores
        BY <2>2 DEF PollThrows
      <3>2. QED
        BY <1>2, <3>1, ExitTold, StreamTold
    <2>3. QED
      BY <1>2, <2>1, <2>2 DEF Streaming, Connect, FindRun, AuditAndOpen, Tick, Disconnect, Poll, Flush, Elsewhere
  <1>3. ASSUME NEW q \in Readers, Reading(q) PROVE stream' = stream
    BY <1>3 DEF Reading, AskAnalytics, ReadQueue, RefreshQueue, ReadJobs, ReadPolicy, Answer, ReaderFails, Beside
  <1>4. CASE Die
    BY <1>4, ExitTold DEF Die
  <1>5. CASE (\E u \in Scopes : PutConfig(u)) \/ UNCHANGED vars
    BY <1>1, <1>5, FeedBeside DEF PutConfig, vars
  <1>6. QED
    BY <1>1, <1>2, <1>3, <1>4, <1>5, FeedBeside DEF Next

LEMMA ToldInit == Init => EventsInv /\ FeedInv
  <1> SUFFICES ASSUME Init PROVE EventsInv /\ FeedInv
    OBVIOUS
  <1>1. EventsInv
    BY EventsInit DEF Init
  <1>2. FeedInv
    BY NoStreamIs DEF Init, FeedInv, Handlers
  <1>3. QED
    BY <1>1, <1>2

ToldInv == StoreInv /\ EventsInv /\ FeedInv

(* However many polls of a stream overlap and whatever is written between  *)
(* them, its client gets no event twice and none of another run; and from  *)
(* a database an event that is stamped earlier than one sent before it was *)
(* stored after that one.                                                  *)
THEOREM StreamsTell == Spec => []StreamTellsEachOnce
  <1>1. Init => ToldInv
    BY ToldInit, StoreInit DEF Init, ToldInv
  <1>2. ToldInv /\ [Next]_vars => ToldInv'
    BY StoreInvStep, StoreSteps, EventsStep, FeedStep DEF ToldInv, StoreInv
  <1>3. ToldInv => StreamTellsEachOnce
    <2> SUFFICES ASSUME ToldInv PROVE StreamTellsEachOnce
      OBVIOUS
    <2>1. log \in [Runs -> Seq(Event)]
      BY DEF ToldInv, StoreInv, CoreInv, TypeInv
    <2>2. ASSUME NEW s \in Streams
          PROVE  LET sent == stream[s].sent
                     PlaceOf(e) == CHOOSE i \in DOMAIN log[stream[s].run] : log[stream[s].run][i] = e
                 IN  /\ Cardinality(ToSet(sent)) = Len(sent)
                     /\ \A e \in ToSet(sent) : e \in ToSet(asked.log[stream[s].run])
                     /\ kind = "database" => \A i, j \in DOMAIN sent :
                           i < j /\ sent[i].at > sent[j].at => PlaceOf(sent[i]) < PlaceOf(sent[j])
      <3> DEFINE sent == stream[s].sent
                 events == log[stream[s].run]
                 PlaceOf(e) == CHOOSE i \in DOMAIN events : events[i] = e
      <3>1. stream[s] \in Feed /\ (stream[s] = NoStream \/ Tells(stream[s])) /\ sent \in Seq(Event)
        BY DEF ToldInv, FeedInv, Feed, Handlers
      <3>2. CASE stream[s] = NoStream
        <4>1. sent = << >>
          BY <3>2, NoStreamIs
        <4>2. Distinct(<< >>) /\ ToSet(<< >>) = {} /\ DOMAIN << >> = {} /\ Len(<< >>) = 0
          BY DEF Distinct, ToSet
        <4>3. QED
          BY <4>1, <4>2, FS_EmptySet
      <3>3. CASE Tells(stream[s])
        <4>1. stream[s].run \in Runs /\ Distinct(sent) /\ ToSet(sent) \subseteq ToSet(asked.log[stream[s].run])
              /\ (kind = "database" => InOrder(sent, events))
          BY <3>3 DEF Tells, Heard
        <4>2. Distinct(events)
          BY <4>1 DEF ToldInv, EventsInv, Recorded
        <4>3. \A i \in DOMAIN events : PlaceOf(events[i]) = i
          BY <4>2 DEF Distinct
        <4>4. Cardinality(ToSet(sent)) = Len(sent)
          BY <3>1, <4>1, DistinctCount
        <4>5. ASSUME kind = "database", NEW i \in DOMAIN sent, NEW j \in DOMAIN sent, i < j, sent[i].at > sent[j].at
              PROVE  PlaceOf(sent[i]) < PlaceOf(sent[j])
          <5>1. PICK a \in DOMAIN events, b \in DOMAIN events : events[a] = sent[i] /\ events[b] = sent[j] /\ a < b
            BY <4>1, <4>5 DEF InOrder
          <5>2. PlaceOf(sent[i]) = a /\ PlaceOf(sent[j]) = b
            BY <4>3, <5>1
          <5>3. QED
            BY <5>1, <5>2
        <4>6. QED
          BY <4>1, <4>4, <4>5
      <3>4. QED
        BY <3>1, <3>2, <3>3
    <2>3. QED
      BY <2>2 DEF StreamTellsEachOnce
  <1>4. QED
    BY <1>1, <1>2, <1>3, PTL DEF Spec
-----------------------------------------------------------------------------
(* A decision is stored with the state it leads to, in every row, and in   *)
(* every copy of a row that a call has with it; and the file of the queue  *)
(* is the queue of some table.                                             *)
Fits(row) == DecisionFits(row)
IsQueue(items) == \E table \in Table : items = Waiting(table)
FitsCall(k) == /\ Fits(k.row)
               /\ k.pc \in ListSteps => \A r \in DOMAIN k.seen : Fits(k.seen[r])
FitInv == /\ \A r \in Runs : Fits(rows[r])
          /\ \A c \in Callers : FitsCall(call[c])
          /\ kind = "file" => queue = Nothing \/ IsQueue(queue)

LEMMA NewRowsFit ==
  ASSUME NEW row \in Row, Fits(row)
  PROVE  /\ row.status = "QUEUED" => Fits(Claimed(row))
         /\ \A next \in NextRows(row) : Fits(next)
         /\ Fits(NewRow) /\ Fits(Nothing)
  <1>1. row.status # "COMPLETED" => row.decision = Nothing
    BY DEF Fits, DecisionFits
  <1>2. row.status = "QUEUED" => Fits(Claimed(row))
    BY <1>1 DEF Claimed, Fits, DecisionFits, Row
  <1>3. Fits(NewRow) /\ Fits(Nothing)
    BY DEF Fits, DecisionFits, NewRow
  <1>4. ASSUME NEW next \in NextRows(row), row.status = "RUNNING" PROVE Fits(next)
    <2>1. next.decision = Nothing
      BY <1>1, <1>4 DEF NextRows, Completed, Row
    <2>2. QED
      BY <2>1 DEF Fits, DecisionFits
  <1>5. ASSUME NEW next \in NextRows(row), row.status = "COMPLETED" PROVE Fits(next)
    <2>1. CASE next = Assigned(row)
      BY <1>5, <2>1 DEF Assigned, Fits, DecisionFits, Row
    <2>2. ASSUME NEW d \in Decision, next = Decided(row, d) PROVE Fits(next)
      <3>1. next.decision = d /\ next.status = "COMPLETED"
        BY <1>5, <2>2 DEF Decided, Row
      <3>2. d = "KEEP_NEEDS_REVIEW" => next.state = "NEEDS_REVIEW"
        BY <2>2 DEF Decided, Row
      <3>3. QED
        BY <3>1, <3>2 DEF Fits, DecisionFits
    <2>3. QED
      BY <1>5, <2>1, <2>2 DEF NextRows
  <1>6. QED
    BY <1>2, <1>3, <1>4, <1>5 DEF NextRows

LEMMA FitKept ==
  ASSUME CoreInv, FitInv, NEW c \in Callers, NEW m, Moves(c, m), kind' = kind, FitsCall(m),
         \A r \in Runs : Fits(rows'[r]),
         kind = "file" => queue' = queue \/ queue' = Nothing \/ IsQueue(queue')
  PROVE  FitInv'
  <1>1. ASSUME NEW d \in Callers PROVE FitsCall(call'[d])
    <2>1. CASE d = c
      BY <2>1 DEF Moves
    <2>2. CASE d # c
      BY <2>2 DEF Moves, FitInv
    <2>3. QED
      BY <2>1, <2>2
  <1>2. QED
    BY <1>1 DEF FitInv, FitsCall, Fits, IsQueue

LEMMA WorkFits ==
  ASSUME CoreInv, FitInv, NEW c \in Callers, Work(c) PROVE FitInv'
  <1>0. PICK k : k = call[c]
    OBVIOUS
  <1>1. /\ k \in Call /\ Shape(k) /\ k.left \in SUBSET Runs /\ k.seen \in Seen
        /\ rows \in Table /\ << >> \in Seen
    <2>1. << >> \in Seen
      BY DEF Seen
    <2>2. QED
      BY <1>0, <2>1, CallFields DEF CoreInv, TypeInv, ShapeInv
  <1>2. FitsCall(k) /\ (\A r \in Runs : Fits(rows[r])) /\ Fits(Nothing) /\ FitsCall(Idle)
    BY <1>0 DEF FitInv, FitsCall, Fits, DecisionFits, Idle, ListSteps
  <1>3. ASSUME NEW row, NEW x \in Runs, Fits(row), rows' = [rows EXCEPT ![x] = row]
        PROVE  \A r \in Runs : Fits(rows'[r])
    BY <1>1, <1>2, <1>3 DEF Table
  <1>4. CASE Statement(c)
    <2>1. kind = "database" /\ Moves(c, Idle) /\ kind' = kind
      BY <1>4, StatementIs
    <2>2. \A r \in Runs : Fits(rows'[r])
      <3>1. CASE Rewrites(k) /\ rows' = [rows EXCEPT ![k.run] = k.row]
        BY <1>2, <1>3, <3>1 DEF Rewrites, FitsCall
      <3>2. CASE rows' = rows
        BY <1>2, <3>2
      <3>3. ASSUME NEW x \in Runs, rows[x] \in Row, rows[x].status = "QUEUED",
                   rows' = [rows EXCEPT ![x] = Claimed(rows[x])]
            PROVE  \A r \in Runs : Fits(rows'[r])
        <4>1. Fits(Claimed(rows[x]))
          BY <1>2, <3>3, NewRowsFit
        <4>2. PICK row : row = Claimed(rows[x])
          OBVIOUS
        <4>3. QED
          BY <1>3, <3>3, <4>1, <4>2
      <3>4. QED
        BY <1>0, <1>4, <3>1, <3>2, <3>3, StatementIs
    <2>3. QED
      BY <1>2, <2>1, <2>2, FitKept
  <1>5. CASE OpenRow(c)
    <2>1. PICK m : m = At(k, "writeRow", k.seen, k.left)
      OBVIOUS
    <2>2. /\ Moves(c, m) /\ kind' = kind /\ queue' = queue /\ k.run \in Runs
          /\ rows' = [rows EXCEPT ![k.run] = Nothing]
      BY <1>0, <1>5, <2>1, OpenRowIs
    <2>3. m.pc = "writeRow" /\ m.row = k.row
      BY <1>1, <2>1, AtIs DEF RowSteps
    <2>4. FitsCall(m)
      BY <1>2, <2>3 DEF FitsCall, ListSteps
    <2>5. QED
      BY <1>2, <1>3, <2>2, <2>4, FitKept
  <1>6. CASE WriteRow(c)
    <2>1. PICK m : m = IF k.op = "create" THEN Idle ELSE At(k, "list", << >>, Runs)
      OBVIOUS
    <2>2. Moves(c, m) /\ kind' = kind /\ queue' = queue /\ k.run \in Runs
      BY <1>0, <1>6, <2>1, WriteRowIs
    <2>3. PICK row \in {k.row, Nothing} : rows' = [rows EXCEPT ![k.run] = row]
      BY <1>0, <1>6, WriteRowIs
    <2>4. Fits(row)
      BY <1>2 DEF FitsCall
    <2>5. FitsCall(m)
      <3>1. CASE m = Idle
        BY <1>2, <3>1
      <3>2. CASE m = At(k, "list", << >>, Runs)
        <4>1. m.row = k.row /\ m.seen = << >>
          BY <1>1, <3>2, AtIs DEF ListSteps
        <4>2. DOMAIN << >> = {}
          OBVIOUS
        <4>3. QED
          BY <1>2, <4>1, <4>2 DEF FitsCall
      <3>3. QED
        BY <2>1, <3>1, <3>2
    <2>6. QED
      BY <1>3, <2>2, <2>3, <2>4, <2>5, FitKept
  <1>7. CASE ReadRow(c)
    <2>1. k.pc = "list" /\ kind' = kind /\ queue' = queue /\ rows' = rows
      BY <1>0, <1>7, ReadRowIs
    <2>2. PICK x \in k.left : Moves(c, At(k, "list", Noted(k.seen, x, rows[x]), k.left \ {x}))
      BY <1>0, <1>7, ReadRowIs
    <2>3. PICK row : row = rows[x] /\ Fits(row) /\ row \in Row \cup {Nothing}
      BY <1>1, <1>2 DEF Table
    <2>4. PICK seen : seen = Noted(k.seen, x, row)
      OBVIOUS
    <2>5. \A r \in DOMAIN seen : Fits(seen[r])
      BY <1>2, <2>1, <2>3, <2>4 DEF Noted, FitsCall, ListSteps
    <2>6. PICK m : m = At(k, "list", seen, k.left \ {x})
      OBVIOUS
    <2>7. m.seen = seen /\ m.row = k.row
      BY <1>1, <2>6 DEF At, Call
    <2>8. FitsCall(m)
      BY <1>2, <2>5, <2>7 DEF FitsCall
    <2>9. QED
      BY <1>2, <2>1, <2>2, <2>3, <2>4, <2>6, <2>8, FitKept
  <1>8. CASE ChooseRow(c)
    <2>1. kind' = kind /\ queue' = queue /\ rows' = rows /\ k.pc = "list"
      BY <1>0, <1>8, ChooseRowIs
    <2>2. CASE Moves(c, Idle)
      BY <1>2, <2>1, <2>2, FitKept
    <2>3. ASSUME NEW r \in Runs, r \in DOMAIN k.seen, k.seen[r].status = "QUEUED", Claimed(k.seen[r]) \in Row,
                 k.seen[r] \in Row, Moves(c, Chosen(k, r))
          PROVE  FitInv'
      <3>1. Fits(k.seen[r])
        BY <1>2, <2>1, <2>3 DEF FitsCall, ListSteps
      <3>2. Fits(Claimed(k.seen[r]))
        BY <2>3, <3>1, NewRowsFit
      <3>3. PICK m : m = Chosen(k, r)
        OBVIOUS
      <3>4. m.row = Claimed(k.seen[r]) /\ m.pc = "openRow"
        BY <1>1, <2>3, <3>3, ChosenIs
      <3>5. FitsCall(m)
        BY <3>2, <3>4 DEF FitsCall, ListSteps
      <3>6. QED
        BY <1>2, <2>1, <2>3, <3>3, <3>5, FitKept
    <2>4. QED
      BY <1>0, <1>8, <2>2, <2>3, ChooseRowIs
  <1>9. CASE OpenQueue(c)
    <2>1. PICK m : m = At(k, "writeQueue", k.seen, k.left)
      OBVIOUS
    <2>2. Moves(c, m) /\ kind' = kind /\ rows' = rows /\ queue' = Nothing /\ k.pc = "list"
      BY <1>0, <1>9, <2>1, OpenQueueIs
    <2>3. m.row = k.row /\ m.seen = k.seen
      BY <1>1, <2>1 DEF At, Call
    <2>4. FitsCall(m)
      BY <1>2, <2>2, <2>3 DEF FitsCall, ListSteps
    <2>5. QED
      BY <1>2, <2>2, <2>4, FitKept
  <1>10. CASE WriteQueue(c)
    <2>1. /\ Moves(c, Idle) /\ kind' = kind /\ rows' = rows /\ k.pc = "writeQueue"
          /\ queue' = Waiting(k.seen) \/ queue' = Nothing
      BY <1>0, <1>10, WriteQueueIs DEF WriteQueue, Overwritten
    <2>2. DOMAIN k.seen = Runs /\ \A r \in DOMAIN k.seen : k.seen[r] \in Row \cup {Nothing}
      BY <1>1, <2>1 DEF Shape, ListSteps
    <2>3. k.seen \in Table
      BY <1>1, <2>2 DEF Seen, Table
    <2>4. QED
      BY <1>2, <2>1, <2>3, FitKept DEF IsQueue
  <1>11. CASE ReadLog(c)
    <2>1. PICK m : m = At(k, "openLog", log[k.run], k.left)
      OBVIOUS
    <2>2. /\ Moves(c, m) /\ kind' = kind /\ rows' = rows /\ queue' = queue
      BY <1>0, <1>11, <2>1, ReadLogIs
    <2>3. m.row = k.row /\ m.pc = "openLog"
      BY <1>1, <2>1 DEF At, Call
    <2>4. FitsCall(m)
      BY <1>2, <2>3 DEF FitsCall, ListSteps
    <2>5. QED
      BY <1>2, <2>2, <2>4, FitKept
  <1>12. CASE OpenLog(c)
    <2>1. PICK m : m = At(k, "writeLog", k.seen, k.left)
      OBVIOUS
    <2>2. /\ Moves(c, m) /\ kind' = kind /\ rows' = rows /\ queue' = queue
      BY <1>0, <1>12, <2>1, OpenLogIs
    <2>3. m.row = k.row /\ m.pc = "writeLog"
      BY <1>1, <2>1 DEF At, Call
    <2>4. FitsCall(m)
      BY <1>2, <2>3 DEF FitsCall, ListSteps
    <2>5. QED
      BY <1>2, <2>2, <2>4, FitKept
  <1>13. CASE WriteLog(c)
    <2>1. Moves(c, Idle) /\ kind' = kind /\ rows' = rows /\ queue' = queue
      BY <1>13, WriteLogIs
    <2>2. QED
      BY <1>2, <2>1, FitKept
  <1>14. QED
    BY <1>4, <1>5, <1>6, <1>7, <1>8, <1>9, <1>10, <1>11, <1>12, <1>13 DEF Work

LEMMA FitStep ==
  ASSUME CoreInv, FitInv, StoreStep PROVE FitInv'
  <1>0. (\A r \in Runs : Fits(rows[r])) /\ Fits(Nothing) /\ FitsCall(Idle)
    BY DEF FitInv, Fits, DecisionFits, FitsCall, Idle, ListSteps
  <1>1. ASSUME NEW c \in Callers, NEW k, Begins(c, k), Fits(k.row) PROVE FitInv'
    <2>1. FitsCall(k)
      <3>1. k.seen = << >> /\ DOMAIN << >> = {}
        BY <1>1 DEF Begins
      <3>2. QED
        BY <1>1, <3>1 DEF FitsCall
    <2>2. Moves(c, k) /\ kind' = kind /\ queue' = queue /\ rows' = rows
      BY <1>1 DEF Begins
    <2>3. QED
      BY <1>0, <2>1, <2>2, FitKept
  <1>2. ASSUME NEW c \in Callers, NEW r \in Runs, CreateJob(c, r) PROVE FitInv'
    BY <1>1, <1>2, CreateJobIs DEF Fits, DecisionFits, NewRow
  <1>3. ASSUME NEW c \in Callers, NEW r \in Runs, UpdateJob(c, r) PROVE FitInv'
    <2>1. PICK row \in NextRows(rows[r]) : \E k : Begins(c, k) /\ k.row = row
      BY <1>3, UpdateJobIs
    <2>2. Fits(row)
      BY <1>0, <1>3, UpdateJobIs, NewRowsFit
    <2>3. QED
      BY <1>1, <2>1, <2>2
  <1>4. ASSUME NEW c \in Callers, (\E r \in Runs : AppendRunEvent(c, r)) \/ ClaimNextQueuedJob(c) \/ Refresh(c)
        PROVE  FitInv'
    <2>1. \E k : Begins(c, k) /\ k.row = Nothing
      BY <1>4, AppendRunEventIs, ClaimIs, RefreshIs
    <2>2. QED
      BY <1>0, <1>1, <2>1
  <1>6. CASE LoseCalls
    BY <1>0, <1>6, LoseIs DEF FitInv, FitsCall, Fits, IsQueue
  <1>7. CASE Wait \/ UNCHANGED stores
    <2>1. UNCHANGED <<kind, rows, queue, call>>
      BY <1>7 DEF Wait, stores
    <2>2. QED
      BY <2>1 DEF FitInv, FitsCall, Fits, IsQueue
  <1>8. QED
    BY <1>2, <1>3, <1>4, <1>6, <1>7, WorkFits DEF StoreStep, Request
-----------------------------------------------------------------------------
(* What a request for the analytics has read: the queue of some table, a   *)
(* list whose decisions fit, and one policy for each use case.             *)
ReaderFields == {"pc", "todo", "queue", "before", "after", "policy", "at"}
KnownIn(x) == {i.run : i \in {y \in x.queue : x.before[y.run] # Nothing}}
Agreeing(policy) == \A r, s \in DOMAIN policy : ScopeOf[r] = ScopeOf[s] => policy[r] = policy[s]
IsList(table) == table \in Table /\ \A r \in Runs : Fits(table[r])
Reads(x) ==
    /\ DOMAIN x = ReaderFields
    /\ x.pc \in {"reading", "answered"} =>
          /\ Agreeing(x.policy)
          /\ "queue" \notin x.todo => IsQueue(x.queue)
          /\ "after" \notin x.todo => IsList(x.after)
    /\ x.pc = "answered" => x.todo = {} /\ KnownIn(x) \subseteq DOMAIN x.policy
ReaderInv == DOMAIN reader = Readers /\ \A q \in Readers : Reads(reader[q])

LEMMA NoReaderReads ==
  /\ Reads(NoReader) /\ Reads([NoReader EXCEPT !.pc = "failed"])
  /\ NoReader.policy = << >> /\ DOMAIN NoReader = ReaderFields
  BY DEF NoReader, Reads, ReaderFields

LEMMA ReaderMove ==
  ASSUME ReaderInv, NEW q \in Readers, NEW m, reader' = [reader EXCEPT ![q] = m], Reads(m)
  PROVE  ReaderInv'
  <1>1. \A p \in Readers : reader'[p] = IF p = q THEN m ELSE reader[p]
    BY DEF ReaderInv
  <1>2. DOMAIN reader' = Readers
    BY DEF ReaderInv
  <1>3. QED
    BY <1>1, <1>2 DEF ReaderInv, Reads, KnownIn, Agreeing, IsQueue, IsList, Fits

LEMMA NotedPolicy ==
  ASSUME NEW policy, Agreeing(policy), NEW r, NEW p,
         \A x \in DOMAIN policy : ScopeOf[x] = ScopeOf[r] => policy[x] = p
  PROVE  Agreeing(Noted(policy, r, p))
  BY DEF Agreeing, Noted

LEMMA ReadingReads ==
  ASSUME CoreInv, FitInv, ReaderInv, NEW q \in Readers, Reading(q) PROVE ReaderInv'
  <1>0. PICK x : x = reader[q] /\ Reads(x)
    BY DEF ReaderInv
  <1>1. CASE AskAnalytics(q)
    <2>1. PICK m : m = [NoReader EXCEPT !.pc = "reading", !.todo = {"queue", "before", "after"}]
      OBVIOUS
    <2>2. DOMAIN << >> = {}
      OBVIOUS
    <2>3. Reads(m)
      BY <2>1, <2>2, NoReaderReads DEF Reads, Agreeing, ReaderFields
    <2>4. QED
      BY <1>1, <2>1, <2>3, ReaderMove DEF AskAnalytics, SetReader
  <1>2. CASE ReadQueue(q)
    <2>1. PICK items : items = (IF kind = "file" THEN queue ELSE Waiting(rows))
      OBVIOUS
    <2>2. IsQueue(items)
      BY <1>2, <2>1 DEF ReadQueue, FitInv, IsQueue, CoreInv, TypeInv
    <2>3. PICK m : m = [x EXCEPT !.todo = x.todo \ {"queue"}, !.queue = items]
      OBVIOUS
    <2>4. x.pc = "reading"
      BY <1>0, <1>2 DEF ReadQueue, Got
    <2>5. /\ DOMAIN m = ReaderFields /\ m.pc = "reading" /\ m.policy = x.policy /\ m.queue = items
          /\ m.todo = x.todo \ {"queue"} /\ m.after = x.after
      BY <1>0, <2>3, <2>4 DEF Reads, ReaderFields
    <2>6. Reads(m)
      BY <1>0, <2>2, <2>4, <2>5 DEF Reads
    <2>7. reader' = [reader EXCEPT ![q] = m]
      BY <1>0, <1>2, <2>1, <2>3 DEF ReadQueue, SetReader
    <2>8. QED
      BY <2>6, <2>7, ReaderMove
  <1>3. CASE ReadJobs(q)
    <2>1. IsList(rows)
      BY DEF FitInv, CoreInv, TypeInv, IsList
    <2>2. x.pc = "reading"
      BY <1>0, <1>3 DEF ReadJobs
    <2>3. CASE reader' = [reader EXCEPT ![q] = [x EXCEPT !.todo = x.todo \ {"before"}, !.before = rows]]
      <3>1. PICK m : m = [x EXCEPT !.todo = x.todo \ {"before"}, !.before = rows]
        OBVIOUS
      <3>2. /\ DOMAIN m = ReaderFields /\ m.pc = "reading" /\ m.policy = x.policy /\ m.queue = x.queue
            /\ m.todo = x.todo \ {"before"} /\ m.after = x.after
        BY <1>0, <2>2, <3>1 DEF Reads, ReaderFields
      <3>3. Reads(m)
        BY <1>0, <2>2, <3>2 DEF Reads
      <3>4. QED
        BY <2>3, <3>1, <3>3, ReaderMove
    <2>4. CASE reader' = [reader EXCEPT ![q] = [x EXCEPT !.todo = x.todo \ {"after"}, !.after = rows]]
      <3>1. PICK m : m = [x EXCEPT !.todo = x.todo \ {"after"}, !.after = rows]
        OBVIOUS
      <3>2. /\ DOMAIN m = ReaderFields /\ m.pc = "reading" /\ m.policy = x.policy /\ m.queue = x.queue
            /\ m.todo = x.todo \ {"after"} /\ m.after = rows
        BY <1>0, <2>2, <3>1 DEF Reads, ReaderFields
      <3>3. Reads(m)
        BY <1>0, <2>1, <2>2, <3>2 DEF Reads
      <3>4. QED
        BY <2>4, <3>1, <3>3, ReaderMove
    <2>5. QED
      BY <1>0, <1>3, <2>3, <2>4 DEF ReadJobs, SetReader
  <1>4. CASE ReadPolicy(q)
    <2>1. PICK r : reader' = [reader EXCEPT ![q] = [x EXCEPT !.policy = Noted(x.policy, r, ResolvedPolicy(q, r))]]
      BY <1>0, <1>4 DEF ReadPolicy, SetReader
    <2>2. x.pc = "reading" /\ Agreeing(x.policy)
      BY <1>0, <1>4 DEF ReadPolicy, Reads
    <2>3. PICK p : p = ResolvedPolicy(q, r)
      OBVIOUS
    <2>4. ASSUME NEW y \in DOMAIN x.policy, ScopeOf[y] = ScopeOf[r] PROVE x.policy[y] = p
      <3> DEFINE cached == {z \in DOMAIN x.policy : ScopeOf[z] = ScopeOf[r]}
      <3>1. y \in cached
        BY <2>4
      <3>2. p = x.policy[CHOOSE z \in cached : TRUE]
        BY <1>0, <2>3, <3>1 DEF ResolvedPolicy
      <3>3. PICK z \in cached : z = CHOOSE w \in cached : TRUE
        BY <3>1
      <3>4. QED
        BY <2>2, <2>4, <3>2, <3>3 DEF Agreeing
    <2>5. PICK policy : policy = Noted(x.policy, r, p) /\ Agreeing(policy)
      BY <2>2, <2>4, NotedPolicy
    <2>6. PICK m : m = [x EXCEPT !.policy = policy]
      OBVIOUS
    <2>7. /\ DOMAIN m = ReaderFields /\ m.pc = "reading" /\ m.policy = policy /\ m.queue = x.queue
          /\ m.todo = x.todo /\ m.after = x.after
      BY <1>0, <2>2, <2>6 DEF Reads, ReaderFields
    <2>8. Reads(m)
      BY <1>0, <2>2, <2>5, <2>7 DEF Reads
    <2>9. QED
      BY <2>1, <2>3, <2>5, <2>6, <2>8, ReaderMove
  <1>5. CASE Answer(q)
    <2>1. x.pc = "reading" /\ x.todo = {} /\ KnownIn(x) \subseteq DOMAIN x.policy
      BY <1>0, <1>5 DEF Answer, Known, KnownIn
    <2>2. PICK m : m = [x EXCEPT !.pc = "answered", !.at = now]
      OBVIOUS
    <2>3. /\ DOMAIN m = ReaderFields /\ m.policy = x.policy /\ m.queue = x.queue
          /\ m.todo = x.todo /\ m.after = x.after /\ m.before = x.before
      BY <1>0, <2>2 DEF Reads, ReaderFields
    <2>4. KnownIn(m) = KnownIn(x)
      BY <2>3 DEF KnownIn
    <2>5. Reads(m)
      BY <1>0, <2>1, <2>3, <2>4 DEF Reads
    <2>6. QED
      BY <1>0, <1>5, <2>2, <2>5, ReaderMove DEF Answer, SetReader
  <1>6. CASE ReaderFails(q)
    BY <1>6, NoReaderReads, ReaderMove DEF ReaderFails, SetReader
  <1>7. CASE RefreshQueue(q)
    <2>1. reader' = reader
      BY <1>7 DEF RefreshQueue
    <2>2. QED
      BY <2>1 DEF ReaderInv, Reads, KnownIn, Agreeing, IsQueue, IsList, Fits
  <1>8. QED
    BY <1>1, <1>2, <1>3, <1>4, <1>5, <1>6, <1>7 DEF Reading

LEMMA ReaderStep ==
  ASSUME CoreInv, FitInv, ReaderInv, [Next]_vars PROVE ReaderInv'
  <1>1. CASE reader' = reader
    BY <1>1 DEF ReaderInv, Reads, KnownIn, Agreeing, IsQueue, IsList, Fits
  <1>2. CASE Exit
    <2>1. /\ DOMAIN reader' = Readers
          /\ \A q \in Readers : reader'[q] \in {NoReader, [NoReader EXCEPT !.pc = "failed"]}
      BY <1>2 DEF Exit
    <2>2. \A q \in Readers : Reads(reader'[q])
      BY <2>1, NoReaderReads
    <2>3. QED
      BY <2>1, <2>2 DEF ReaderInv, Reads, KnownIn, Agreeing, IsQueue, IsList, Fits
  <1>3. ASSUME NEW s \in Streams, Streaming(s) PROVE Exit \/ reader' = reader
    BY <1>3 DEF Streaming, Connect, FindRun, AuditAndOpen, Tick, Disconnect, Poll, Flush, PollThrows, Elsewhere
  <1>4. (\E u \in Scopes : PutConfig(u)) \/ UNCHANGED vars => reader' = reader
    BY DEF PutConfig, vars
  <1>5. QED
    BY <1>1, <1>2, <1>3, <1>4, ReadingReads DEF Next, Die

AddUpInv == CoreInv /\ FitInv /\ ReaderInv

LEMMA AddUpInit == Init => AddUpInv
  <1> SUFFICES ASSUME Init PROVE AddUpInv
    OBVIOUS
  <1>1. CoreInv
    BY CoreInit DEF Init
  <1>2. rows \in InitialRows /\ queue = (IF kind = "file" THEN Waiting(rows) ELSE Nothing)
        /\ \A c \in Callers : call[c] = Idle
    BY DEF Init, StoresInit
  <1>3. FitsCall(Idle)
    BY DEF FitsCall, Idle, Fits, DecisionFits, ListSteps
  <1>4. \A r \in Runs : Fits(rows[r])
    BY <1>2, RowsAssumption DEF Fits
  <1>5. FitInv
    BY <1>1, <1>2, <1>3, <1>4 DEF FitInv, IsQueue, CoreInv, TypeInv
  <1>6. ReaderInv
    BY NoReaderReads DEF Init, ReaderInv
  <1>7. QED
    BY <1>1, <1>5, <1>6 DEF AddUpInv

LEMMA AddUpStep == AddUpInv /\ [Next]_vars => AddUpInv'
  BY StoreSteps, CoreStep, FitStep, ReaderStep DEF AddUpInv
-----------------------------------------------------------------------------
(* The items of a queue are as many as the runs that wait.                 *)
WaitingIn(table) == {r \in Runs : Waits(table[r])}
LEMMA QueueCount ==
  ASSUME NEW table \in Table
  PROVE  /\ IsFiniteSet(Waiting(table)) /\ Cardinality(Waiting(table)) = Cardinality(WaitingIn(table))
         /\ IsFiniteSet(WaitingIn(table))
         /\ \A i, j \in Waiting(table) : i.run = j.run => i = j
  <1> DEFINE S == WaitingIn(table)
             item(r) == [run |-> r, createdAt |-> table[r].updatedAt, assignedAt |-> table[r].assignedAt]
             G == [r \in S |-> item(r)]
             T == Waiting(table)
  <1>1. T = {item(r) : r \in S}
    BY DEF Waiting, WaitingIn, Waits, Table
  <1>2. IsFiniteSet(S)
    BY RowsAssumption, FS_Subset DEF WaitingIn
  <1>3. G \in [S -> T] /\ \A t \in T : \E r \in S : G[r] = t
    BY <1>1
  <1>4. \A r, s \in S : G[r] = G[s] => r = s
    <2>1. \A r \in S : G[r].run = r
      OBVIOUS
    <2>2. QED
      BY <2>1
  <1>5. \A i, j \in T : i.run = j.run => i = j
    <2>1. \A i \in T : i = item(i.run)
      BY <1>1
    <2>2. QED
      BY <2>1
  <1> HIDE DEF S, G, T
  <1>6. G \in Surjection(S, T) /\ G \in Injection(S, T)
    <2>1. G \in Surjection(S, T)
      BY <1>3, Zenon DEF Surjection
    <2>2. DOMAIN G = S
      BY <1>3
    <2>3. IsInjective(G)
      BY <1>4, <2>2 DEF IsInjective
    <2>4. QED
      BY <1>3, <2>1, <2>3 DEF Injection
  <1>7. IsFiniteSet(T) /\ Cardinality(T) = Cardinality(S)
    BY <1>2, <1>6, FS_Surjection
  <1>8. QED
    BY <1>2, <1>5, <1>7 DEF S, T

(* However the lists behind an answer interleave with completions, reviews *)
(* and changes of policy, for any number of runs, use cases and readers:   *)
(* its policies count every pending run once, the runs of a use case that  *)
(* were found have one policy, the reported one, and where queue and list  *)
(* agree, pending, verified and uncertain runs are all that completed.     *)
THEOREM AnswersAddUp == Spec => []AnalyticsAddUp
  <1>1. AddUpInv => AnalyticsAddUp
    <2> SUFFICES ASSUME AddUpInv, NEW q \in Readers, reader[q].pc = "answered"
                 PROVE  LET a == Analytics(q)
                            Ended(state) == {r \in Runs : /\ reader[q].after[r] # Nothing
                                                              /\ reader[q].after[r].status = "COMPLETED"
                                                              /\ reader[q].after[r].state \in state}
                        IN  /\ SumOver([u \in DOMAIN a.policies |-> a.policies[u].runCount], DOMAIN a.policies)
                                  = a.pending
                            /\ Known(q) = {i.run : i \in reader[q].queue} =>
                                  \A u \in DOMAIN a.policies \ {DefaultScope} :
                                      Cardinality(a.policies[u].targets) = 1
                            /\ reader[q].queue = Waiting(reader[q].after) =>
                                  /\ a.pending = Cardinality(Ended(State))
                                                     - Cardinality(Ended({"VERIFIED", "UNCERTAIN"}))
                                  /\ a.decisions["KEEP_NEEDS_REVIEW"] <= a.pending
                                  /\ a.assigned + a.unassignedOverdue <= a.pending
      BY DEF AnalyticsAddUp
    <2> DEFINE a == Analytics(q)
               items == reader[q].queue
               after == reader[q].after
               policy == reader[q].policy
               Ended(state) == {r \in Runs : /\ after[r] # Nothing /\ after[r].status = "COMPLETED"
                                                 /\ after[r].state \in state}
               K == [i \in items |-> ScopeIn(q, i)]
               One == [i \in items |-> 1]
               D == {ScopeIn(q, i) : i \in items}
               Within(u) == {i \in items : ScopeIn(q, i) = u}
    <2>1. /\ IsQueue(items) /\ IsList(after) /\ Agreeing(policy) /\ KnownIn(reader[q]) \subseteq DOMAIN policy
      BY DEF AddUpInv, ReaderInv, Reads
    <2>2. IsFiniteSet(items) /\ Cardinality(items) \in Nat /\ \A i, j \in items : i.run = j.run => i = j
      BY <2>1, QueueCount, FS_CardinalityType DEF IsQueue
    <2>3. /\ a.pending = Cardinality(items) /\ DOMAIN a.policies = D
          /\ \A u \in D : /\ a.policies[u].runCount = Cardinality(Within(u))
                          /\ a.policies[u].targets = {PolicyOf(q, i) : i \in Within(u)}
      BY DEF Analytics, ConfiguredPolicies
    <2>4. SumOver([u \in DOMAIN a.policies |-> a.policies[u].runCount], DOMAIN a.policies) = a.pending
      <3>1. IsFiniteSet(D) /\ \A i \in items : K[i] \in D
        <4>1. D = {K[i] : i \in items}
          OBVIOUS
        <4>2. IsFiniteSet({K[i] : i \in items})
          <5> HIDE DEF K, items
          <5>1. QED
            BY <2>2, ImageFinite
        <4>3. QED
          BY <4>1, <4>2
      <3>2. PICK G : G = [u \in D |-> a.policies[u].runCount]
        OBVIOUS
      <3>3. ASSUME NEW u \in D PROVE G[u] = SumOver(One, AtKey(items, K, u))
        <4>1. AtKey(items, K, u) = Within(u) /\ IsFiniteSet(Within(u))
          BY <2>2, FS_Subset DEF AtKey
        <4>2. \A i \in Within(u) : One[i] = 1
          OBVIOUS
        <4>3. SumOver(One, Within(u)) = Cardinality(Within(u))
          BY <4>1, <4>2, TotalOfOnes
        <4>4. QED
          BY <2>3, <3>2, <4>1, <4>3
      <3>4. Numbers(One, items)
        BY DEF Numbers
      <3>5. SumOver(One, items) = Cardinality(items)
        <4>1. \A i \in items : One[i] = 1
          OBVIOUS
        <4>2. QED
          BY <2>2, <4>1, TotalOfOnes
      <3> HIDE DEF K, One, D
      <3>6. SumOver(G, D) = SumOver(One, items)
        BY <2>2, <3>1, <3>3, <3>4, TotalByKey
      <3>7. QED
        BY <2>3, <3>2, <3>5, <3>6
    <2>5. ASSUME Known(q) = {i.run : i \in items}, NEW u \in D \ {DefaultScope}
          PROVE  Cardinality(a.policies[u].targets) = 1
      <3>1. \A i \in items : i.run \in DOMAIN policy
        BY <2>1, <2>5 DEF Known, KnownIn
      <3>2. \A i \in Within(u) : ScopeOf[i.run] = u /\ PolicyOf(q, i) = policy[i.run]
        BY <2>5, <3>1 DEF ScopeIn, PolicyOf
      <3>3. PICK i \in Within(u) : TRUE
        OBVIOUS
      <3>4. \A j \in Within(u) : PolicyOf(q, j) = PolicyOf(q, i)
        BY <2>1, <3>1, <3>2 DEF Agreeing
      <3>5. a.policies[u].targets = {PolicyOf(q, i)}
        <4>1. a.policies[u].targets = {PolicyOf(q, j) : j \in Within(u)}
          BY <2>3, <2>5
        <4>2. {PolicyOf(q, j) : j \in Within(u)} = {PolicyOf(q, i)}
          BY <3>3, <3>4
        <4>3. QED
          BY <4>1, <4>2
      <3>6. QED
        BY <3>5, FS_Singleton
    <2>6. ASSUME items = Waiting(after)
          PROVE  /\ a.pending = Cardinality(Ended(State)) - Cardinality(Ended({"VERIFIED", "UNCERTAIN"}))
                 /\ a.decisions["KEEP_NEEDS_REVIEW"] <= a.pending
                 /\ a.assigned + a.unassignedOverdue <= a.pending
      <3> DEFINE W == WaitingIn(after)
                 settled == Ended({"VERIFIED", "UNCERTAIN"})
                 keep == {r \in Runs : after[r] # Nothing /\ after[r].decision = "KEEP_NEEDS_REVIEW"}
                 assigned == {i \in items : i.assignedAt # Nothing}
                 late == Overdue(q, items \ assigned)
      <3>1. a.pending = Cardinality(W) /\ IsFiniteSet(W)
        BY <2>1, <2>3, <2>6, QueueCount DEF IsList
      <3>2. Ended(State) = W \cup settled /\ W \cap settled = {}
        BY DEF State, WaitingIn, Waits
      <3>3. IsFiniteSet(settled) /\ IsFiniteSet(keep)
        BY RowsAssumption, FS_Subset
      <3>4. keep \subseteq W
        <4> SUFFICES ASSUME NEW r \in keep PROVE r \in Runs /\ Waits(after[r])
          BY DEF WaitingIn
        <4>1. after[r] # Nothing /\ after[r].decision = "KEEP_NEEDS_REVIEW" /\ DecisionFits(after[r])
          BY <2>1 DEF IsList, Fits
        <4>2. after[r].decision # Nothing
          BY <4>1, RowsAssumption DEF Decision
        <4>3. QED
          BY <4>1, <4>2 DEF DecisionFits, Waits
      <3>5. a.decisions["KEEP_NEEDS_REVIEW"] = Cardinality(keep)
        BY DEF Analytics, DecisionCounts, Decision
      <3>6. /\ a.assigned = Cardinality(assigned) /\ a.unassignedOverdue = Cardinality(late)
            /\ assigned \subseteq items /\ late \subseteq items \ assigned
        BY DEF Analytics, Overdue
      <3> HIDE DEF W, settled, keep, assigned, late, a, items
      <3>7. a.pending = Cardinality(Ended(State)) - Cardinality(settled)
        <4>1. Cardinality(W \cup settled) = Cardinality(W) + Cardinality(settled) - Cardinality(W \cap settled)
          BY <3>1, <3>3, FS_Union
        <4>2. PICK n \in Nat, m \in Nat : n = Cardinality(W) /\ m = Cardinality(settled)
          BY <3>1, <3>3, FS_CardinalityType
        <4>3. Cardinality(W \cap settled) = 0
          BY <3>2, FS_EmptySet
        <4>4. Cardinality(Ended(State)) = Cardinality(W \cup settled)
          BY <3>2
        <4>5. Cardinality(W \cup settled) = n + m
          BY <4>1, <4>2, <4>3
        <4>6. a.pending = n
          BY <3>1, <4>2
        <4> HIDE DEF Ended
        <4>7. QED
          BY <4>2, <4>4, <4>5, <4>6
      <3>8. a.decisions["KEEP_NEEDS_REVIEW"] <= a.pending
        BY <3>1, <3>4, <3>5, FS_Subset
      <3>9. a.assigned + a.unassignedOverdue <= a.pending
        <4>1. IsFiniteSet(assigned) /\ IsFiniteSet(late) /\ assigned \cup late \subseteq items
          BY <2>2, <3>6, FS_Subset
        <4>2. assigned \cap late = {}
          BY <3>6
        <4>3. Cardinality(assigned \cup late)
                = Cardinality(assigned) + Cardinality(late) - Cardinality(assigned \cap late)
          BY <4>1, FS_Union
        <4>4. Cardinality(assigned) \in Nat /\ Cardinality(late) \in Nat /\ Cardinality(assigned \cap late) = 0
          BY <4>1, <4>2, FS_CardinalityType, FS_EmptySet
        <4>5. Cardinality(assigned \cup late) <= Cardinality(items)
          BY <2>2, <4>1, FS_Subset
        <4>6. QED
          BY <2>3, <3>6, <4>3, <4>4, <4>5
      <3>10. QED
        BY <3>7, <3>8, <3>9 DEF settled
    <2> HIDE DEF a, D
    <2>7. QED
      BY <2>3, <2>4, <2>5, <2>6 DEF a
  <1>2. QED
    BY <1>1, AddUpInit, AddUpStep, PTL DEF Spec
=============================================================================
