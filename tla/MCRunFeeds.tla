----------------------------- MODULE MCRunFeeds -----------------------------
(* Two runs of one use case in a store that earlier processes have filled: *)
(* one waits for its review, the other is queued or being analyzed.        *)
EXTENDS RunFeeds

CONSTANTS r1, r2, c1, c2, q1, s1

UseCaseOf == [r \in Runs |-> "billing"]
Row0 == [status |-> "QUEUED", createdAt |-> 0, updatedAt |-> 0, state |-> Nothing,
         assignedAt |-> Nothing, decision |-> Nothing]
Pending == [Row0 EXCEPT !.status = "COMPLETED", !.state = "NEEDS_REVIEW"]
Found == {r1 :> Pending @@ r2 :> Row0,
          r1 :> Pending @@ r2 :> [Row0 EXCEPT !.status = "RUNNING"],
          r1 :> Pending @@ r2 :> Nothing}

(* A stream and the analytics only read, but for the queue's file, and do  *)
(* not see each other: a behaviour has calls that write among themselves,  *)
(* or appends beside a stream of their run, or one writer at a time beside *)
(* the analytics, which never look at events.  The calls of the file store *)
(* take many steps: there a fault takes the place of one of the writes.    *)
Streamed == \E s \in Streams : stream[s].pc # "unused"
Read == (\E q \in Readers : reader[q].pc # "idle") \/ puts > 0
Appending(r) == /\ rows \in InitialRows /\ \A c \in Callers : Busy(c) => call[c].op = "append"
                /\ \A x \in Runs \ {r} : asked.log[x] = << >>
Writers == {c \in Callers \ Readers : Busy(c)}
Bounded == /\ Streamed => ~Read /\ \A s \in Streams : stream[s].run \in {r2, Nothing}
           /\ Read => asked.log = [r \in Runs |-> << >>] /\ Cardinality(Writers) < 2
                   /\ now = 1 /\ (kind = "file" \/ faults > 0 => writes <= 1)
           /\ ~Appending(r2) => ~Streamed
           /\ kind = "file" => writes + faults <= 2
=============================================================================
