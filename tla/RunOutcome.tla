----------------------------- MODULE RunOutcome -----------------------------
(***************************************************************************)
(* What the runtime promises of each run, whatever the number of workers   *)
(* and whatever fails: it is submitted once, claimed at most once, and     *)
(* settles once, COMPLETED or FAILED.  A completion may be withdrawn (the  *)
(* run becomes FAILED), and it comes back only by a call that had seen the *)
(* run COMPLETED and wrote what it saw afterwards: a run that never was    *)
(* COMPLETED stays FAILED, and so does one that no such call is left for.  *)
(***************************************************************************)
CONSTANTS Runs

VARIABLES status,   \* status[r], as a client that polls the run sees it
          claimed,  \* the runs that have been claimed
          seen      \* the runs a call has seen COMPLETED and may write back

Init == /\ status = [r \in Runs |-> "ABSENT"]
        /\ claimed = {} /\ seen = {}

Move(r, from, to) == status[r] = from /\ status' = [status EXCEPT ![r] = to]

(* Calls end at any moment, and what they have seen with them. *)
Forget == seen' \in SUBSET seen

Submit(r) == Move(r, "ABSENT", "QUEUED") /\ Forget /\ UNCHANGED claimed

Claim(r) == /\ r \notin claimed
            /\ Move(r, "QUEUED", "RUNNING")
            /\ claimed' = claimed \cup {r} /\ Forget

Settle(r) == /\ r \in claimed
             /\ Move(r, "RUNNING", "COMPLETED") \/ Move(r, "RUNNING", "FAILED")
             /\ Forget /\ UNCHANGED claimed

Withdraw(r) == /\ r \in claimed
               /\ Move(r, "COMPLETED", "FAILED")
               /\ Forget /\ UNCHANGED claimed

See(r) == /\ status[r] = "COMPLETED" /\ seen' = seen \cup {r}
          /\ UNCHANGED <<status, claimed>>

Restore(r) == /\ r \in seen
              /\ Move(r, "FAILED", "COMPLETED")
              /\ Forget /\ UNCHANGED claimed

Next == \/ \E r \in Runs : Submit(r) \/ Claim(r) \/ Settle(r) \/ Withdraw(r) \/ See(r) \/ Restore(r)
        \/ Forget /\ UNCHANGED <<status, claimed>>

Spec == Init /\ [][Next]_<<status, claimed, seen>>
=============================================================================
