----------------------------- MODULE MCHttpApi -----------------------------
(* Two requests side by side, one for every route that changes something   *)
(* and some that do not, one for a change or one of every kind of read.    *)
(* Of routes that HttpApi treats alike one stands for all.                 *)
EXTENDS HttpApi, TLC

CONSTANTS t1, t2, a, b, c, d, writer, reader

OneRunEach == {a :> [tenant |-> t1, status |-> status] @@
               b :> [tenant |-> t2, status |-> "COMPLETED"] @@ c :> Nothing @@ d :> Nothing
                  : status \in {"QUEUED", "COMPLETED"}}
Clients == writer :> {"submit", "packs/approve", "admin/put", "validation/apply", "exports/refresh",
                      "review", "analyze", "schema", "jobs"}
        @@ reader :> {"healthz", "audit", "run", "runs", "events", "admin/get", "submit", "comments",
                      "validation/run", "sentiment/trend", "sentiment/analysis",
                      "validation/export", "validation/alerts"}
AllButAlerts == Routes \ {"validation/alerts"}

Fresh == Permutations({c, d})
OneFails == Cardinality({r \in RunIds : runs[r] # Nothing /\ runs[r].status = "FAILED"}) < 2
=============================================================================
