------------------------ MODULE MCTenantPackRegistry ------------------------
(* An instance of TenantPackRegistry for TLC: two versions and two actors, *)
(* and the requests that lead a release through each gate: all of them     *)
(* while the calls come one at a time, the ones that race best and fewer   *)
(* calls once two are in flight, or one is cut short.                      *)
EXTENDS TenantPackRegistry, TLC

CONSTANTS v1, v2, ann, bob, h1, h2

Publish(v, mode, canary) == [kind |-> "publish", version |-> v, by |-> ann, mode |-> mode,
                             canary |-> canary, required |-> 2]
Approve(v, who) == [kind |-> "approve", version |-> v, by |-> who]
Plain(kind, v) == [kind |-> kind, version |-> v, by |-> bob]
Promote(v, pass) == [kind |-> "promote", version |-> v, by |-> bob, pass |-> pass]
Evaluate(v, pass, apply) == [kind |-> "evaluate", version |-> v, by |-> bob,
                             pass |-> pass, apply |-> apply]

EveryRequest ==
    {Publish(v1, "DIRECT", FALSE), Publish(v1, "APPROVAL_REQUIRED", TRUE),
     Publish(v2, "DIRECT", TRUE), Publish(v2, "CANARY", FALSE),
     Publish(v2, "APPROVAL_REQUIRED", FALSE),
     Approve(v1, ann), Approve(v1, bob), Approve(v2, ann), Approve(v2, bob),
     Plain("comment", v1), Plain("rollback", v1), Plain("rollback", v2),
     Promote(v1, TRUE), Promote(v2, FALSE),
     Evaluate(v2, TRUE, TRUE), Evaluate(v2, FALSE, TRUE),
     Evaluate(v2, TRUE, FALSE), Evaluate(v1, FALSE, FALSE)}

RacingRequests ==
    {Publish(v1, "DIRECT", FALSE), Publish(v2, "APPROVAL_REQUIRED", FALSE),
     Publish(v2, "CANARY", FALSE), Approve(v2, ann), Approve(v2, bob),
     Plain("rollback", v1), Promote(v2, TRUE), Evaluate(v2, FALSE, TRUE),
     Evaluate(v2, TRUE, FALSE)}

Races == ~serial \/ faults > 0
MaxRacing == 4
Bounded == Races => /\ calls + faults <= MaxRacing
                    /\ \A h \in Handlers : handler[h].request \in RacingRequests \cup {Nothing}
HandlerSymmetry == Permutations(Handlers)
=============================================================================
