------------------------------ MODULE HttpApi ------------------------------
(***************************************************************************)
(* The routes of the HTTP server, as one request meets them: who is it     *)
(* from, which tenant is it about, may it, do it, append an audit event,   *)
(* answer.  Requests are served side by side and every await is a step of  *)
(* its own; what an operation does inside is the matter of the modules of  *)
(* its component, here it is one step that changes data of some tenant.    *)
(* A call to a store may throw, with its effect or without, and is then    *)
(* answered with 500; the process may die.  A client that repeats a        *)
(* request sends another request.                                          *)
(***************************************************************************)
EXTENDS Naturals, FiniteSets

CONSTANTS Requests,    \* the requests that clients send
          Tenants,
          RunIds,      \* bound: the runs there can be
          InitialRuns, \* the runs the server may find when it starts
          Modes,       \* the authentication modes it may be configured with
          Offered,     \* the routes whose parts it was built with
          Sends,       \* Sends[n]: the routes request n may be for
          Nothing,
          MaxFaults    \* bound: calls that throw, plus process deaths

(* Answered before anybody is authenticated. *)
PublicRoutes == {"ui", "metrics", "healthz"}
(* The tenant is a parameter, or else that of the principal. *)
TenantReads == {"packs/active", "admin/get", "validation/reports", "validation/datasets",
                "validation/recommend", "validation/alerts"}
SentimentReads == {"sentiment/analyses", "sentiment/trend", "sentiment/search",
                   "sentiment/moments", "calibration", "calibration/drift",
                   "calibration/recommend", "calibration/convergence"}
ScopedPosts == {"validation/export", "validation/apply"}
(* The same, and without either the operation is for every tenant. *)
SweepingPosts == {"exports/refresh", "validation/run"}
(* The tenant is in the body. *)
PackDryRuns == {"packs/validate", "packs/preview"}
PackCalls == {"packs/publish", "packs/approve", "packs/comment", "packs/evaluate",
              "packs/auto-evaluate", "packs/promote", "packs/rollback"}
BodyPosts == {"analyze", "submit", "admin/put"} \cup PackDryRuns \cup PackCalls
(* The tenant is that of the principal, if it has one. *)
Lists == {"runs", "jobs", "review-queue", "review-analytics"}
(* The tenant is that of the run named in the path. *)
RecordReads == {"run", "job", "stream"}  \* audited before they answer from the record
RunReads == RecordReads \cup {"events", "audit"}
ReviewPosts == {"assignment", "comments", "review"}
RunRoutes == RunReads \cup ReviewPosts \cup {"sentiment/analysis"}

Routes == UNION {PublicRoutes, {"schema"}, TenantReads, SentimentReads, ScopedPosts,
                 SweepingPosts, BodyPosts, Lists, RunRoutes}
(* What is parsed before anything else is done may turn out to be invalid. *)
Parsed == UNION {ScopedPosts, SweepingPosts, BodyPosts,
                 {"sentiment/search", "validation/recommend"}}
Changes == UNION {PackCalls, {"submit", "admin/put", "validation/apply"},
                  SweepingPosts, ReviewPosts}
Audited == Routes \ UNION {PublicRoutes, SentimentReads, {"sentiment/analysis"}}

MaybeTenant == Tenants \cup {Nothing}
MaybeRun == RunIds \cup {Nothing}
Mode == {"none", "api_key", "trusted_proxy"}
Run == [tenant : Tenants, status : {"QUEUED", "COMPLETED", "FAILED"}]

ASSUME HttpAssumption ==
    /\ Nothing \notin UNION {Tenants, RunIds, Run}
    /\ InitialRuns \subseteq [RunIds -> Run \cup {Nothing}]
    /\ Modes \subseteq Mode /\ Offered \subseteq Routes
    /\ Sends \in [Requests -> SUBSET Routes]
    /\ MaxFaults \in Nat

VARIABLES mode,  \* the authentication mode of the server
          req,   \* req[n]: where the handler of request n is, and its locals
          runs,  \* the store: runs[r], or Nothing
          done,  \* history: who changed data of which tenant, and of which run
          trail, \* the audit events
          faults

vars == <<mode, req, runs, done, trail, faults>>

Entry == [by : Requests, tenant : Tenants, run : MaybeRun]
InService == {"find", "operate", "record"}
(* The status of a refusal, by what it says. *)
Refusal == {"invalid",         \* 400: the request itself, or it names no tenant
            "unauthenticated", \* 401
            "forbidden",       \* 403: which tenant cannot access which
            "not found",       \* 404: no such route, run, or sentiment of a run
            "not ready"}       \* 409: that a run is not ready for a review
Request == [pc : InService \cup {"unsent", "ok", "refused", "error", "lost"},
            route : Routes, scope : MaybeTenant, tenant : MaybeTenant, run : MaybeRun,
            refusal : Refusal \cup {Nothing},
            named : MaybeTenant,       \* the tenant the message of a 403 says is denied
            shown : SUBSET Tenants,    \* the tenants whose data the answer tells of
            entries : SUBSET Entry,    \* the audit events in the answer
            before : SUBSET Requests]  \* history: what was answered before it was sent

TypeOK == /\ mode \in Modes
          /\ req \in [Requests -> Request]
          /\ runs \in [RunIds -> Run \cup {Nothing}]
          /\ done \subseteq Entry /\ trail \subseteq Entry
          /\ faults \in 0..MaxFaults

Unsent == [pc |-> "unsent", route |-> "healthz", scope |-> Nothing, tenant |-> Nothing,
           run |-> Nothing, refusal |-> Nothing, named |-> Nothing,
           shown |-> {}, entries |-> {}, before |-> {}]

Init == /\ mode \in Modes
        /\ req = [n \in Requests |-> Unsent]
        /\ runs \in InitialRuns
        /\ done = {} /\ trail = {} /\ faults = 0
-----------------------------------------------------------------------------
Become(n, r) == req' = [req EXCEPT ![n] = r]
(* The message of a 403 names the tenant that the client may not access,   *)
(* though the client may not have known it; the others name none.          *)
Refuse(n, r, refusal, named) ==
    Become(n, [r EXCEPT !.pc = "refused", !.refusal = refusal, !.named = named])
Goto(n, pc) == Become(n, [req[n] EXCEPT !.pc = pc])

Fault == faults < MaxFaults /\ faults' = faults + 1

(* resolveHttpAuthContext: without authentication everybody is anonymous   *)
(* and of no tenant; otherwise the key, or the headers of the proxy, name  *)
(* the tenant, and without a good one the request is answered with 401.    *)
Recognized(credential) == mode = "none" \/ credential # Nothing
ScopeOf(credential) == IF mode = "none" THEN Nothing ELSE credential

(* assertTenantAccess *)
MayAccess(scope, tenant) == scope \in {Nothing, tenant}

TenantOf(route, given, scope) ==
    CASE route \in Lists \cup {"schema"} -> scope
      [] route \in BodyPosts             -> given
      [] OTHER -> IF given # Nothing THEN given ELSE scope

NeedsTenant(route) == route \notin Lists \cup SweepingPosts \cup {"schema"}

(* A request carries what its route looks at. *)
WellFormed(route, credential, given, run) ==
    /\ mode = "none" \/ route \in PublicRoutes => credential = Nothing
    /\ given # Nothing => route \in UNION {TenantReads, SentimentReads, ScopedPosts,
                                          SweepingPosts, BodyPosts}
    /\ route \in BodyPosts => given # Nothing
    /\ run # Nothing <=> route \in RunRoutes

OkNow == {n \in Requests : req[n].pc = "ok"}

(* What the handler does before its first await on a store: 404 for a part *)
(* the server was built without, 400 for a body that does not parse or a   *)
(* tenant that is needed and not given, 403 for that of somebody else.     *)
Receive(n, route, credential, given, run) ==
    LET scope == ScopeOf(credential)
        tenant == TenantOf(route, given, scope)
        asked == [Unsent EXCEPT !.route = route, !.scope = scope, !.run = run]
        next == [asked EXCEPT !.before = OkNow]
        about == [asked EXCEPT !.tenant = tenant]
        admitted == [next EXCEPT !.tenant = tenant, !.pc =
                        IF route = "schema" THEN IF tenant = Nothing THEN "ok" ELSE "record"
                        ELSE "operate"]
    IN  /\ req[n].pc = "unsent"
        /\ WellFormed(route, credential, given, run)
        /\ \/ route \in PublicRoutes /\ Become(n, [next EXCEPT !.pc = "ok"])
           \/ /\ route \notin PublicRoutes /\ ~Recognized(credential)
              /\ Refuse(n, asked, "unauthenticated", Nothing)
           \/ /\ route \notin PublicRoutes \cup Offered
              /\ Refuse(n, asked, "not found", Nothing)
           \/ /\ route \in Offered \cap Parsed /\ Recognized(credential)
              /\ Refuse(n, asked, "invalid", Nothing)
           \/ /\ route \in Offered \cap RunRoutes /\ Recognized(credential)
              /\ Become(n, [next EXCEPT !.pc = "find"])
           \/ /\ route \in Offered \ (RunRoutes \cup PublicRoutes) /\ Recognized(credential)
              /\ IF tenant = Nothing /\ NeedsTenant(route)
                 THEN Refuse(n, asked, "invalid", Nothing)
                 ELSE IF tenant # Nothing /\ ~MayAccess(scope, tenant)
                 THEN Refuse(n, about, "forbidden", tenant)
                 ELSE Become(n, admitted)
        /\ UNCHANGED <<mode, runs, done, trail, faults>>

(* There may be no such run; a run that has not ended well may have no     *)
(* sentiment.                                                              *)
Missing(r, run) == run # Nothing => r.route = "sentiment/analysis" /\ run.status # "COMPLETED"
Present(r, run) == run # Nothing /\ (r.route = "sentiment/analysis" => run.status # "QUEUED")
Ready(r, run) == r.route \in ReviewPosts => run.status = "COMPLETED"

(* A run is read before the tenant of the request is known.  A review of   *)
(* one that is not ready is refused before it is asked whose the run is;   *)
(* the body is parsed after that.                                          *)
Find(n) ==
    LET r == req[n]
        run == runs[r.run]
        next == CASE r.route = "sentiment/analysis" -> "ok"
                  [] r.route \in RecordReads -> "record"
                  [] OTHER -> "operate"
        found == [r EXCEPT !.pc = next, !.tenant = run.tenant, !.shown = {run.tenant}]
        refused == [r EXCEPT !.before = {}]
    IN  /\ r.pc = "find"
        /\ \/ /\ Missing(r, run)
              /\ Refuse(n, refused, "not found", Nothing) /\ UNCHANGED faults
           \/ /\ Present(r, run) /\ ~Ready(r, run)
              /\ Refuse(n, refused, "not ready", Nothing) /\ UNCHANGED faults
           \/ /\ Present(r, run) /\ Ready(r, run) /\ UNCHANGED faults
              /\ IF MayAccess(r.scope, run.tenant)
                 THEN \/ Become(n, found)
                      \/ r.route \in ReviewPosts /\ Refuse(n, refused, "invalid", Nothing)
                 ELSE Refuse(n, refused, "forbidden", run.tenant)
           \/ Goto(n, "error") /\ Fault
        /\ UNCHANGED <<mode, runs, done, trail>>
-----------------------------------------------------------------------------
(* Slip: a list is not narrowed to the tenant of the principal. *)
VisibleToAll(scope) == {r \in RunIds : runs[r] # Nothing}

Visible(scope) == {r \in RunIds : runs[r] # Nothing /\ MayAccess(scope, runs[r].tenant)}

(* The audit events of a run: those of its tenant that name it. *)
EntriesOf(r) == {e \in trail : e.tenant = r.tenant /\ e.run = r.run}

(* appendAudit is skipped when the request is for no tenant in particular. *)
AfterOperation(r) == IF r.route \in Audited /\ r.tenant # Nothing THEN "record" ELSE "ok"

Read(n) ==
    LET r == req[n]
        told == [r EXCEPT !.pc = AfterOperation(r),
                    !.shown = IF r.route \in Lists THEN {runs[x].tenant : x \in Visible(r.scope)}
                              ELSE {r.tenant},
                    !.entries = IF r.route = "audit" THEN EntriesOf(r) ELSE {}]
    IN  /\ r.pc = "operate" /\ r.route \notin Changes
        /\ \/ Become(n, told) /\ UNCHANGED faults
           \/ Goto(n, "error") /\ Fault
        /\ UNCHANGED <<mode, runs, done, trail>>

(* Without a tenant the configured exports or validations of every tenant  *)
(* are refreshed or run.                                                   *)
TenantsOf(r) == IF r.tenant = Nothing THEN Tenants ELSE {r.tenant}
EffectsOf(n, r) == {[by |-> n, tenant |-> t, run |-> r.run] : t \in TenantsOf(r)}

(* The answer tells what was done and leaves the runs as in `after`; or    *)
(* the operation throws, with its effect or without.                       *)
Acts(n, r, after) ==
    \/ /\ Become(n, [r EXCEPT !.pc = AfterOperation(r), !.shown = TenantsOf(r)])
       /\ done' = done \cup EffectsOf(n, r) /\ runs' = after
       /\ UNCHANGED faults
    \/ /\ Become(n, [r EXCEPT !.pc = "error"]) /\ Fault
       /\ \/ done' = done \cup EffectsOf(n, r) /\ runs' = after
          \/ UNCHANGED <<done, runs>>

(* A run is created under a fresh identifier, for the tenant of its        *)
(* transcript.                                                             *)
Submit(n) ==
    LET r == req[n]
    IN  /\ r.pc = "operate" /\ r.route = "submit"
        /\ \E id \in RunIds :
              /\ runs[id] = Nothing
              /\ Acts(n, [r EXCEPT !.run = id],
                      [runs EXCEPT ![id] = [tenant |-> r.tenant, status |-> "QUEUED"]])
        /\ UNCHANGED <<mode, trail>>

(* A component may refuse by itself: a release that is not there or not in *)
(* the right state, a run that has failed since it was found.              *)
Change(n) ==
    LET r == req[n]
        ready == r.route \in ReviewPosts => runs[r.run].status = "COMPLETED"
    IN  /\ r.pc = "operate" /\ r.route \in Changes \ {"submit"}
        /\ \/ ready /\ Acts(n, r, runs)
           \/ /\ ~ready \/ r.route \in PackCalls
              /\ Goto(n, "error") /\ UNCHANGED <<runs, done, faults>>
        /\ UNCHANGED <<mode, trail>>

(* Slip: the audit event of a review does not name the run. *)
EntryWithoutRun(n) == [by |-> n, tenant |-> req[n].tenant,
                       run |-> IF req[n].route \in ReviewPosts THEN Nothing ELSE req[n].run]

EntryOf(n) == [by |-> n, tenant |-> req[n].tenant, run |-> req[n].run]

(* appendAudit, and the answer that waits for it. *)
Record(n) ==
    /\ req[n].pc = "record"
    /\ \/ trail' = trail \cup {EntryOf(n)} /\ Goto(n, "ok") /\ UNCHANGED faults
       \/ trail' \in {trail, trail \cup {EntryOf(n)}} /\ Goto(n, "error") /\ Fault
    /\ UNCHANGED <<mode, runs, done>>
-----------------------------------------------------------------------------
(* The loop ends a run, and may fail one that it has completed. *)
EndRun(id) ==
    /\ runs[id] # Nothing /\ runs[id].status # "FAILED"
    /\ \E status \in {"COMPLETED", "FAILED"} \ {runs[id].status} :
          runs' = [runs EXCEPT ![id].status = status]
    /\ UNCHANGED <<mode, req, done, trail, faults>>

(* The process dies: no request under way is answered. *)
Die == /\ Fault
       /\ req' = [n \in Requests |-> IF req[n].pc \in InService
                                     THEN [req[n] EXCEPT !.pc = "lost"] ELSE req[n]]
       /\ UNCHANGED <<mode, runs, done, trail>>

Next == \/ \E n \in Requests :
              \/ \E route \in Sends[n], credential \in MaybeTenant, given \in MaybeTenant,
                    run \in MaybeRun : Receive(n, route, credential, given, run)
              \/ Find(n) \/ Read(n) \/ Submit(n) \/ Change(n) \/ Record(n)
        \/ (\E id \in RunIds : EndRun(id))
        \/ Die

Spec == Init /\ [][Next]_vars
-----------------------------------------------------------------------------
(* Properties. *)

(* A principal that belongs to a tenant changes data of that tenant only,  *)
(* leaves audit events with that tenant only, and is answered with data of *)
(* that tenant only, whichever way the tenant of the request was found: a  *)
(* parameter, the body, the principal itself or the record of a run.  A    *)
(* refusal carries no data, but its message may tell what the client did   *)
(* not know: that of a 403, whose the run is that the client named, and    *)
(* that of a 409, of whoever the run is, that it is not ready.  It names   *)
(* no tenant that is neither the owner of that run nor the one the client  *)
(* gave.  (http-auth.ts:113-122, http-server.ts:790-795 and 1225.)         *)
TenantsStayApart ==
    /\ \A n \in Requests : req[n].scope # Nothing => req[n].shown \subseteq {req[n].scope}
    /\ \A e \in done \cup trail : MayAccess(req[e.by].scope, e.tenant)
    /\ \A n \in Requests : req[n].pc = "refused" =>
          /\ req[n].shown = {} /\ req[n].entries = {}
          /\ req[n].refusal = "not ready" => runs[req[n].run] # Nothing
          /\ req[n].named # Nothing =>
                /\ ~MayAccess(req[n].scope, req[n].named)
                /\ IF req[n].run = Nothing THEN req[n].named = req[n].tenant
                   ELSE runs[req[n].run] # Nothing /\ req[n].named = runs[req[n].run].tenant

(* A request that was answered left its audit event, if it was about a     *)
(* tenant; the audit event of a change comes after the change; a refused   *)
(* request changed nothing, and unless a call threw or the process died    *)
(* only a request that is answered, or about to be, did.                   *)
ChangesAreAudited ==
    /\ \A n \in OkNow : AfterOperation(req[n]) = "record" =>
          \E e \in trail : e.by = n /\ e.tenant = req[n].tenant
    /\ \A e \in trail : req[e.by].route \in Changes =>
          \E d \in done : d.by = e.by /\ d.tenant = e.tenant
    /\ \A d \in done : /\ req[d.by].pc \notin {"unsent", "refused"}
                       /\ faults = 0 => req[d.by].pc \in {"record", "ok"}

(* The audit events a client is given of a run (GET /v1/runs/:id/audit)    *)
(* include every change of the run that was answered before it asked.      *)
TrailIsUpToDate ==
    \A n \in OkNow : req[n].route = "audit" =>
        \A m \in req[n].before :
            req[m].route \in Changes /\ req[m].run = req[n].run =>
                \E e \in req[n].entries : e.by = m

(* What was done for a tenant can be told from the audit events.           *)
AuditTrailTells == ChangesAreAudited /\ TrailIsUpToDate
=============================================================================
