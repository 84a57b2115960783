--------------------------- MODULE HttpApiProofs ---------------------------
(***************************************************************************)
(* Proofs about HttpApi and about what its requests start: the exports of  *)
(* reviewed runs and the validation monitoring (ReviewedExports,           *)
(* ValidationMonitoring).                                                  *)
(*                                                                         *)
(* For any number of requests, tenants and runs, any parts the server was  *)
(* built with and any number of faults, tenants stay apart and the audit   *)
(* events tell what was done.  The inductive invariant says of every       *)
(* request, wherever its handler is, what it has left in the store and     *)
(* where its tenant comes from; the tenant of a run never changes, which   *)
(* is what lets the check made before an await hold after.                 *)
(*                                                                         *)
(* For any runs, processes and crashes, what a refresh has exported can    *)
(* still be read, and thresholds that the service has recommended and      *)
(* installed raise no alert over the measurements they were made from.     *)
(***************************************************************************)
EXTENDS HttpApi, ValidationMonitoring, SequenceFilterProofs

(* The effects of a request: none before its operation, and those of a     *)
(* tenant it may access.                                                   *)
EffectsOK(n) ==
    /\ \A e \in done \cup trail : e.by = n =>
          /\ req[n].pc \notin {"unsent", "find", "operate", "refused"}
          /\ MayAccess(req[n].scope, e.tenant)
    /\ \A d \in done : d.by = n /\ faults = 0 => req[n].pc \in {"record", "ok"}

(* Where the handler is tells what it knows. *)
PlaceOK(n) ==
    /\ req[n].scope # Nothing => req[n].shown \subseteq {req[n].scope}
    /\ req[n].pc = "find" => req[n].route \in RunRoutes /\ req[n].run # Nothing
    /\ req[n].pc \in {"operate", "record"} => MayAccess(req[n].scope, req[n].tenant)
    /\ req[n].pc = "record" => req[n].tenant # Nothing
    /\ req[n].pc = "operate" /\ req[n].tenant = Nothing =>
          req[n].route \in Lists \cup SweepingPosts
    /\ /\ req[n].pc \in {"operate", "record", "ok"} /\ req[n].tenant = Nothing
       => req[n].route \notin Changes \/ req[n].route \in SweepingPosts
    /\ req[n].pc \in {"operate", "record", "ok"} /\ req[n].route = "audit" =>
          req[n].run # Nothing /\ req[n].tenant # Nothing
    /\ req[n].route \in SweepingPosts => req[n].run = Nothing
    /\ req[n].pc = "unsent" => req[n].before = {}
    /\ req[n].pc = "find" => req[n].shown = {} /\ req[n].entries = {}

(* What a refusal tells of.  The owner of a run stays its owner, so what   *)
(* was told stays true.                                                    *)
RefusalOK(n) ==
    req[n].pc = "refused" =>
        /\ req[n].shown = {} /\ req[n].entries = {}
        /\ req[n].refusal = "not ready" => req[n].run \in RunIds /\ runs[req[n].run] # Nothing
        /\ req[n].named # Nothing =>
              /\ ~MayAccess(req[n].scope, req[n].named)
              /\ req[n].run = Nothing => req[n].named = req[n].tenant
              /\ req[n].run # Nothing => runs[req[n].run] # Nothing
                                        /\ req[n].named = runs[req[n].run].tenant

(* What a request with an answer, or about to have it, has done. *)
TracesOK(n) ==
    /\ req[n].pc \in {"record", "ok"} /\ req[n].route \in Changes /\ req[n].tenant # Nothing =>
          \E d \in done : d.by = n /\ d.tenant = req[n].tenant
    /\ req[n].pc = "ok" /\ AfterOperation(req[n]) = "record" => EntryOf(n) \in trail
    /\ \A e \in trail : e.by = n /\ req[n].route \in Changes =>
          \E d \in done : d.by = n /\ d.tenant = e.tenant
    /\ /\ req[n].pc \in {"operate", "record", "ok"}
       /\ req[n].tenant # Nothing /\ req[n].run # Nothing
       => runs[req[n].run] # Nothing /\ runs[req[n].run].tenant = req[n].tenant

(* What was answered before a request was sent, and what it read of it. *)
HistoryOK(n) ==
    /\ \A m \in req[n].before : req[m].pc = "ok"
    /\ req[n].pc \in {"record", "ok"} /\ req[n].route = "audit" =>
          \A m \in req[n].before :
              req[m].route \in Changes /\ req[m].run = req[n].run =>
                  \E e \in req[n].entries : e.by = m

RequestOK(n) == EffectsOK(n) /\ PlaceOK(n) /\ RefusalOK(n) /\ TracesOK(n) /\ HistoryOK(n)
IInv == TypeOK /\ \A n \in Requests : RequestOK(n)
-----------------------------------------------------------------------------
(* How the kinds of route are told apart. *)
LEMMA Kinds ==
    /\ "healthz" \in Routes /\ "audit" \in RunRoutes /\ "submit" \in BodyPosts \cap Changes
    /\ RunRoutes \subseteq Routes
    /\ "healthz" \notin Changes \cup SweepingPosts \cup RunRoutes \cup Audited
    /\ PublicRoutes \cap (Changes \cup SweepingPosts \cup RunRoutes \cup Audited) = {}
    /\ "audit" \notin RecordReads \cup Changes
    /\ "schema" \notin Changes \cup RunRoutes
    /\ Lists \cap Changes = {} /\ Lists \cap RunRoutes = {}
    /\ SweepingPosts \cap RunRoutes = {} /\ SweepingPosts \subseteq Changes
    /\ "submit" \notin SweepingPosts \cup RunRoutes
    /\ "sentiment/analysis" \notin Changes \cup Audited
    /\ RecordReads \cap Changes = {}
    /\ RecordReads \subseteq Audited
    /\ Changes \subseteq Audited
    /\ "audit" \in Audited
<1> USE DEF Routes, RunRoutes, BodyPosts, SweepingPosts, Changes, Audited, PublicRoutes,
            RecordReads, Lists, RunReads, ReviewPosts, PackCalls, PackDryRuns, TenantReads,
            SentimentReads, ScopedPosts
<1>1. "healthz" \in Routes /\ "audit" \in RunRoutes /\ "submit" \in BodyPosts \cap Changes  OBVIOUS
<1>2. RunRoutes \subseteq Routes  OBVIOUS
<1>3. "healthz" \notin Changes \cup SweepingPosts \cup RunRoutes \cup Audited  OBVIOUS
<1>4. PublicRoutes \cap (Changes \cup SweepingPosts \cup RunRoutes \cup Audited) = {}  OBVIOUS
<1>5. "audit" \notin RecordReads \cup Changes  OBVIOUS
<1>6. "schema" \notin Changes \cup RunRoutes  OBVIOUS
<1>7. Lists \cap Changes = {} /\ Lists \cap RunRoutes = {}  OBVIOUS
<1>8. SweepingPosts \cap RunRoutes = {} /\ SweepingPosts \subseteq Changes  OBVIOUS
<1>9. "submit" \notin SweepingPosts \cup RunRoutes  OBVIOUS
<1>10. "sentiment/analysis" \notin Changes \cup Audited  OBVIOUS
<1>11. RecordReads \cap Changes = {}  OBVIOUS
<1>12. RecordReads \subseteq Audited  OBVIOUS
<1>13. Changes \subseteq Audited  OBVIOUS
<1>14. "audit" \in Audited  OBVIOUS
<1> QED BY <1>1, <1>2, <1>3, <1>4, <1>5, <1>6, <1>7, <1>8, <1>9, <1>10, <1>11, <1>12, <1>13, <1>14
-----------------------------------------------------------------------------
LEMMA InitTypes == Init => TypeOK
BY HttpAssumption, Kinds DEF Init, TypeOK, Unsent, Request, MaybeTenant, MaybeRun

(* Every step that a request takes gives it another well typed record. *)
LEMMA BecomeTypes ==
    ASSUME TypeOK, NEW n \in Requests, NEW r \in Request, Become(n, r)
    PROVE  req' \in [Requests -> Request]
BY DEF Become, TypeOK

LEMMA FaultTypes == TypeOK /\ Fault => faults' \in 0..MaxFaults
BY HttpAssumption DEF TypeOK, Fault

LEMMA UnsentTyped == Unsent \in Request
BY Kinds DEF Unsent, Request, MaybeTenant, MaybeRun

LEMMA RefuseTypes ==
    ASSUME TypeOK, NEW n \in Requests, NEW r \in Request, NEW code \in Refusal,
           NEW named \in MaybeTenant, Refuse(n, r, code, named)
    PROVE  req' \in [Requests -> Request]
<1>1. [r EXCEPT !.pc = "refused", !.refusal = code, !.named = named] \in Request
  BY DEF Request
<1> QED BY <1>1, BecomeTypes DEF Refuse

LEMMA GotoTyped ==
    ASSUME TypeOK, NEW n \in Requests, NEW pc \in {"ok", "error"}
    PROVE  [req[n] EXCEPT !.pc = pc] \in Request
BY DEF TypeOK, Request

LEMMA ReceiveTypes ==
    ASSUME TypeOK, NEW n \in Requests, NEW route \in Sends[n], NEW credential \in MaybeTenant,
           NEW given \in MaybeTenant, NEW asked \in MaybeRun,
           Receive(n, route, credential, given, asked)
    PROVE  TypeOK'
<1> DEFINE scope == ScopeOf(credential)
           tenant == TenantOf(route, given, scope)
           first == [Unsent EXCEPT !.route = route, !.scope = scope, !.run = asked]
           next == [first EXCEPT !.before = OkNow]
           about == [first EXCEPT !.tenant = tenant]
           place == IF route = "schema" THEN IF tenant = Nothing THEN "ok" ELSE "record"
                    ELSE "operate"
           admitted == [next EXCEPT !.tenant = tenant, !.pc = place]
<1>1. route \in Routes
  BY HttpAssumption
<1>2. scope \in MaybeTenant
  BY DEF ScopeOf, MaybeTenant
<1>3. tenant \in MaybeTenant
  BY <1>2 DEF TenantOf
<1>4. first \in Request
  BY <1>1, <1>2, UnsentTyped DEF Request
<1>5. place \in {"ok", "record", "operate"}
  OBVIOUS
<1> HIDE DEF first, tenant, scope, place
<1>6. next \in Request /\ about \in Request
  BY <1>3, <1>4 DEF OkNow, Request
<1> HIDE DEF next, about
<1>7. /\ [next EXCEPT !.pc = "ok"] \in Request
      /\ [next EXCEPT !.pc = "find"] \in Request
      /\ admitted \in Request
  BY <1>3, <1>5, <1>6 DEF Request, InService
<1> HIDE DEF admitted
<1>8. req' \in [Requests -> Request]
  <2>1. CASE Become(n, [next EXCEPT !.pc = "ok"])
    BY <2>1, <1>7, BecomeTypes
  <2>2. CASE \E code \in Refusal : Refuse(n, first, code, Nothing)
    BY <2>2, <1>4, RefuseTypes DEF MaybeTenant
  <2>3. CASE Refuse(n, about, "forbidden", tenant)
    BY <2>3, <1>3, <1>6, RefuseTypes DEF Refusal
  <2>4. CASE Become(n, [next EXCEPT !.pc = "find"])
    BY <2>4, <1>7, BecomeTypes
  <2>5. CASE Become(n, admitted)
    BY <2>5, <1>7, BecomeTypes
  <2> QED BY <2>1, <2>2, <2>3, <2>4, <2>5
          DEF Receive, admitted, next, about, first, tenant, scope, place, Refusal
<1> QED BY <1>8 DEF Receive, TypeOK

LEMMA FindTypes ==
    ASSUME TypeOK, NEW n \in Requests, PlaceOK(n), Find(n)
    PROVE  TypeOK'
<1> DEFINE r == req[n]
           found == runs[r.run]
           next == CASE r.route = "sentiment/analysis" -> "ok"
                     [] r.route \in RecordReads -> "record"
                     [] OTHER -> "operate"
<1>1. r \in Request /\ r.run \in RunIds
  BY DEF Find, PlaceOK, TypeOK, Request, MaybeRun
<1>2. next \in {"ok", "record", "operate"}
  OBVIOUS
<1> DEFINE answer == [r EXCEPT !.pc = next, !.tenant = found.tenant, !.shown = {found.tenant}]
           refused == [r EXCEPT !.before = {}]
<1>3. Present(r, found) => found.tenant \in Tenants
  BY <1>1 DEF Present, TypeOK, Run
<1> HIDE DEF next, found, r
<1>4. (Present(r, found) => answer \in Request) /\ refused \in Request
  BY <1>1, <1>2, <1>3 DEF Request, InService, MaybeTenant
<1> HIDE DEF answer, refused
<1>5. req' \in [Requests -> Request]
  <2>1. CASE \E code \in Refusal : Refuse(n, refused, code, Nothing)
    BY <2>1, <1>4, RefuseTypes DEF MaybeTenant
  <2>2. CASE Present(r, found) /\ Refuse(n, refused, "forbidden", found.tenant)
    BY <2>2, <1>3, <1>4, RefuseTypes DEF Refusal, MaybeTenant
  <2>3. CASE Present(r, found) /\ Become(n, answer)
    BY <2>3, <1>4, BecomeTypes
  <2>4. CASE Goto(n, "error")
    BY <2>4, GotoTyped, BecomeTypes DEF Goto
  <2> QED BY <2>1, <2>2, <2>3, <2>4 DEF Find, next, found, r, answer, refused, Refusal
<1>6. faults' \in 0..MaxFaults
  BY FaultTypes DEF Find, TypeOK
<1> QED BY <1>5, <1>6 DEF Find, TypeOK

LEMMA VisibleTyped ==
    ASSUME TypeOK, NEW scope
    PROVE  {runs[x].tenant : x \in Visible(scope)} \subseteq Tenants
BY DEF Visible, TypeOK, Run

LEMMA ReadTypes ==
    ASSUME TypeOK, NEW n \in Requests, PlaceOK(n), Read(n)
    PROVE  TypeOK'
<1> DEFINE r == req[n]
           shown == IF r.route \in Lists THEN {runs[x].tenant : x \in Visible(r.scope)}
                    ELSE {r.tenant}
           entries == IF r.route = "audit" THEN EntriesOf(r) ELSE {}
           next == AfterOperation(r)
<1>1. r \in Request
  BY DEF TypeOK
<1>2. next \in {"record", "ok"}
  BY DEF AfterOperation
<1>3. entries \subseteq Entry
  BY DEF EntriesOf, TypeOK
<1>4. shown \subseteq Tenants
  <2>1. CASE r.route \in Lists
    BY <2>1, VisibleTyped
  <2>2. CASE r.route \notin Lists
    <3>1. r.tenant # Nothing
      BY <2>2, Kinds DEF Read, PlaceOK
    <3> QED BY <3>1, <2>2, <1>1 DEF Request, MaybeTenant
  <2> QED BY <2>1, <2>2
<1> HIDE DEF next, shown, entries
<1>5. [r EXCEPT !.pc = next, !.shown = shown, !.entries = entries] \in Request
  <2> HIDE DEF r
  <2> QED BY <1>1, <1>2, <1>3, <1>4 DEF Request, InService
<1>6. req' \in [Requests -> Request]
  <2>1. CASE Become(n, [r EXCEPT !.pc = next, !.shown = shown, !.entries = entries])
    BY <2>1, <1>5, BecomeTypes
  <2>2. CASE Goto(n, "error")
    BY <2>2, GotoTyped, BecomeTypes DEF Goto
  <2> QED BY <2>1, <2>2 DEF Read, next, shown, entries
<1>7. faults' \in 0..MaxFaults
  BY FaultTypes DEF Read, TypeOK
<1> QED BY <1>6, <1>7 DEF Read, TypeOK

(* An operation with its effect, or one that throws. *)
Acted(n, r) ==
    \/ /\ Become(n, [r EXCEPT !.pc = AfterOperation(r), !.shown = TenantsOf(r)])
       /\ done' = done \cup EffectsOf(n, r)
       /\ UNCHANGED faults
    \/ /\ Become(n, [r EXCEPT !.pc = "error"]) /\ Fault
       /\ done' = done \cup EffectsOf(n, r) \/ UNCHANGED done

LEMMA ActedTypes ==
    ASSUME TypeOK, NEW n \in Requests, NEW r \in Request, Acted(n, r)
    PROVE  /\ req' \in [Requests -> Request]
           /\ done' \subseteq Entry
           /\ faults' \in 0..MaxFaults
<1>1. TenantsOf(r) \subseteq Tenants
  BY DEF TenantsOf, Request, MaybeTenant
<1>2. EffectsOf(n, r) \subseteq Entry
  BY <1>1 DEF EffectsOf, Entry, Request
<1>3. AfterOperation(r) \in {"record", "ok"}
  BY DEF AfterOperation
<1>4. [r EXCEPT !.pc = AfterOperation(r), !.shown = TenantsOf(r)] \in Request
  BY <1>1, <1>3 DEF Request, InService
<1>5. [r EXCEPT !.pc = "error"] \in Request
  BY DEF Request
<1>6. req' \in [Requests -> Request]
  BY <1>4, <1>5, BecomeTypes DEF Acted
<1>7. done' \subseteq Entry
  BY <1>2 DEF Acted, TypeOK
<1>8. faults' \in 0..MaxFaults
  BY FaultTypes DEF Acted, TypeOK
<1> QED BY <1>6, <1>7, <1>8

LEMMA SubmitTypes ==
    ASSUME TypeOK, NEW n \in Requests, PlaceOK(n), Submit(n)
    PROVE  TypeOK'
<1>1. PICK id \in RunIds :
         Acts(n, [req[n] EXCEPT !.run = id],
              [runs EXCEPT ![id] = [tenant |-> req[n].tenant, status |-> "QUEUED"]])
  BY DEF Submit
<1> DEFINE r == [req[n] EXCEPT !.run = id]
<1>2. r \in Request
  BY DEF TypeOK, Request, MaybeRun
<1>3. Acted(n, r)
  BY <1>1 DEF Acts, Acted
<1>4. req[n].tenant \in Tenants
  <2>1. req[n].pc = "operate" /\ req[n].route \in Changes \ SweepingPosts
    BY Kinds DEF Submit
  <2>2. req[n].tenant # Nothing
    BY <2>1 DEF PlaceOK
  <2> QED BY <2>2 DEF TypeOK, Request, MaybeTenant
<1>5. runs' \in [RunIds -> Run \cup {Nothing}]
  <2>1. [runs EXCEPT ![id] = [tenant |-> req[n].tenant, status |-> "QUEUED"]]
            \in [RunIds -> Run \cup {Nothing}]
    BY <1>4 DEF TypeOK, Run
  <2> QED BY <1>1, <2>1 DEF Acts, TypeOK
<1> HIDE DEF r
<1> QED BY <1>2, <1>3, <1>5, ActedTypes DEF Submit, TypeOK

LEMMA ChangeTypes ==
    ASSUME TypeOK, NEW n \in Requests, Change(n)
    PROVE  TypeOK'
<1>1. req[n] \in Request
  BY DEF TypeOK
<1>2. CASE Acts(n, req[n], runs)
  <2>1. Acted(n, req[n]) /\ runs' = runs
    BY <1>2 DEF Acts, Acted
  <2> QED BY <1>1, <2>1, ActedTypes DEF Change, TypeOK
<1>3. CASE Goto(n, "error") /\ UNCHANGED <<runs, done, faults>>
  BY <1>3, GotoTyped, BecomeTypes DEF Goto, Change, TypeOK
<1> QED BY <1>2, <1>3 DEF Change

LEMMA RecordTypes ==
    ASSUME TypeOK, NEW n \in Requests, PlaceOK(n), Record(n)
    PROVE  TypeOK'
<1>1. EntryOf(n) \in Entry
  BY DEF Record, PlaceOK, TypeOK, Request, Entry, EntryOf, MaybeTenant
<1>2. trail' \subseteq Entry
  BY <1>1 DEF Record, TypeOK
<1>3. req' \in [Requests -> Request]
  BY GotoTyped, BecomeTypes DEF Goto, Record
<1>4. faults' \in 0..MaxFaults
  BY FaultTypes DEF Record, TypeOK
<1> QED BY <1>2, <1>3, <1>4 DEF Record, TypeOK

LEMMA EndRunTypes ==
    ASSUME TypeOK, NEW id \in RunIds, EndRun(id)
    PROVE  TypeOK'
<1>1. PICK status \in {"COMPLETED", "FAILED"} : runs' = [runs EXCEPT ![id].status = status]
  BY DEF EndRun
<1>2. runs[id] \in Run
  BY DEF EndRun, TypeOK
<1>3. [runs[id] EXCEPT !.status = status] \in Run
  BY <1>2 DEF Run
<1>4. runs' \in [RunIds -> Run \cup {Nothing}]
  BY <1>1, <1>3 DEF TypeOK
<1> QED BY <1>4 DEF EndRun, TypeOK

LEMMA DieTypes ==
    ASSUME TypeOK, Die
    PROVE  TypeOK'
<1>1. \A n \in Requests : [req[n] EXCEPT !.pc = "lost"] \in Request
  BY DEF TypeOK, Request
<1>2. req' \in [Requests -> Request]
  BY <1>1 DEF Die, TypeOK
<1>3. faults' \in 0..MaxFaults
  BY FaultTypes DEF Die
<1> QED BY <1>2, <1>3 DEF Die, TypeOK

(* IInv keeps the types: only what PlaceOK says is needed for it. *)
LEMMA TypeStep ==
    ASSUME IInv, [Next]_vars
    PROVE  TypeOK'
<1>1. TypeOK /\ \A n \in Requests : PlaceOK(n)
  BY DEF IInv, RequestOK
<1>2. ASSUME NEW n \in Requests, NEW route \in Sends[n], NEW credential \in MaybeTenant,
             NEW given \in MaybeTenant, NEW asked \in MaybeRun,
             Receive(n, route, credential, given, asked)
      PROVE  TypeOK'
  BY <1>1, <1>2, ReceiveTypes
<1>3. ASSUME NEW n \in Requests, Find(n) \/ Read(n) \/ Submit(n) \/ Change(n) \/ Record(n)
      PROVE  TypeOK'
  BY <1>1, <1>3, FindTypes, ReadTypes, SubmitTypes, ChangeTypes, RecordTypes
<1>4. CASE UNCHANGED vars
  BY <1>1, <1>4 DEF vars, TypeOK
<1> QED BY <1>1, <1>2, <1>3, <1>4, EndRunTypes, DieTypes DEF Next
-----------------------------------------------------------------------------
(* A step of one request: the others keep what they have, no run loses its *)
(* tenant, and what is new in the store is of that request.                *)
Frame(n) ==
    /\ req[n].pc # "ok"
    /\ \A m \in Requests \ {n} : req'[m] = req[m]
    /\ faults' = 0 => faults = 0
    /\ done \subseteq done' /\ trail \subseteq trail'
    /\ \A e \in (done' \ done) \cup (trail' \ trail) : e.by = n
    /\ \A r \in RunIds : runs[r] # Nothing =>
          runs'[r] # Nothing /\ runs'[r].tenant = runs[r].tenant

LEMMA Others ==
    ASSUME TypeOK, NEW n \in Requests, Frame(n), NEW m \in Requests \ {n}, RequestOK(m)
    PROVE  RequestOK(m)'
<1>1. req'[m] = req[m] /\ req[m] \in Request
  BY DEF Frame, TypeOK
<1>2. EffectsOK(m)'
  BY <1>1 DEF Frame, RequestOK, EffectsOK, MayAccess
<1>3. PlaceOK(m)'
  BY <1>1 DEF RequestOK, PlaceOK, MayAccess
<1>6. RefusalOK(m)'
  BY <1>1 DEF Frame, RequestOK, RefusalOK, MayAccess, Request, MaybeRun
<1>4. TracesOK(m)'
  <2>1. /\ req'[m].pc \in {"record", "ok"} /\ req'[m].route \in Changes /\ req'[m].tenant # Nothing
        => \E d \in done' : d.by = m /\ d.tenant = req'[m].tenant
    BY <1>1 DEF Frame, RequestOK, TracesOK
  <2>2. req'[m].pc = "ok" /\ AfterOperation(req'[m]) = "record" => EntryOf(m)' \in trail'
    BY <1>1 DEF Frame, RequestOK, TracesOK, EntryOf
  <2>3. \A e \in trail' : e.by = m /\ req'[m].route \in Changes =>
            \E d \in done' : d.by = m /\ d.tenant = e.tenant
    BY <1>1 DEF Frame, RequestOK, TracesOK
  <2>4. /\ req'[m].pc \in {"operate", "record", "ok"}
        /\ req'[m].tenant # Nothing /\ req'[m].run # Nothing
        => runs'[req'[m].run] # Nothing /\ runs'[req'[m].run].tenant = req'[m].tenant
    BY <1>1 DEF Frame, RequestOK, TracesOK, Request, MaybeRun
  <2> QED BY <2>1, <2>2, <2>3, <2>4 DEF TracesOK, AfterOperation
<1>5. HistoryOK(m)'
  <2>1. \A k \in req[m].before : k \in Requests \ {n} /\ req'[k] = req[k]
    BY <1>1 DEF Frame, RequestOK, HistoryOK, Request
  <2> QED BY <1>1, <2>1 DEF RequestOK, HistoryOK
<1> QED BY <1>2, <1>3, <1>4, <1>5, <1>6 DEF RequestOK

LEMMA BecomeAt ==
    ASSUME TypeOK, NEW n \in Requests, NEW r, Become(n, r)
    PROVE  req'[n] = r /\ \A m \in Requests \ {n} : req'[m] = req[m]
BY DEF TypeOK, Become

LEMMA NotRefused ==
    ASSUME NEW n \in Requests, req'[n].pc # "refused"
    PROVE  RefusalOK(n)'
BY DEF RefusalOK

(* A refusal changes nothing, and what it tells of is not of the store, or *)
(* is of the run that the request names.                                   *)
LEMMA Refused ==
    ASSUME TypeOK, NEW n \in Requests, RequestOK(n), req[n].pc \in {"unsent", "find"},
           NEW r \in Request, NEW code \in Refusal, NEW named \in MaybeTenant,
           Refuse(n, r, code, named), UNCHANGED <<runs, done, trail>>,
           r.shown = {}, r.entries = {}, r.before = {},
           r.route \in SweepingPosts => r.run = Nothing,
           code = "not ready" => r.run # Nothing /\ runs[r.run] # Nothing,
           named # Nothing =>
              /\ ~MayAccess(r.scope, named)
              /\ r.run = Nothing => named = r.tenant
              /\ r.run # Nothing => runs[r.run] # Nothing /\ named = runs[r.run].tenant
    PROVE  RequestOK(n)'
<1>1. req'[n] = [r EXCEPT !.pc = "refused", !.refusal = code, !.named = named]
  BY BecomeAt DEF Refuse
<1>2. \A e \in done \cup trail : e.by # n
  BY DEF RequestOK, EffectsOK
<1>3. /\ req'[n].pc = "refused" /\ req'[n].route = r.route /\ req'[n].run = r.run
      /\ req'[n].shown = {} /\ req'[n].entries = {} /\ req'[n].before = {}
      /\ req'[n].tenant = r.tenant /\ req'[n].scope = r.scope
      /\ req'[n].refusal = code /\ req'[n].named = named
  BY <1>1 DEF Request
<1>4. EffectsOK(n)'
  BY <1>2 DEF EffectsOK
<1>5. PlaceOK(n)'
  BY <1>3 DEF PlaceOK
<1>6. RefusalOK(n)'
  BY <1>3 DEF RefusalOK, MayAccess, Request, MaybeRun
<1>7. TracesOK(n)'
  BY <1>2, <1>3 DEF TracesOK
<1>8. HistoryOK(n)'
  BY <1>3 DEF HistoryOK
<1> QED BY <1>4, <1>5, <1>6, <1>7, <1>8 DEF RequestOK

LEMMA ReceiveOK ==
    ASSUME IInv, NEW n \in Requests, NEW route \in Sends[n], NEW credential \in MaybeTenant,
           NEW given \in MaybeTenant, NEW asked \in MaybeRun,
           Receive(n, route, credential, given, asked)
    PROVE  Frame(n) /\ RequestOK(n)'
<1> DEFINE scope == ScopeOf(credential)
           tenant == TenantOf(route, given, scope)
           first == [Unsent EXCEPT !.route = route, !.scope = scope, !.run = asked]
           next == [first EXCEPT !.before = OkNow]
           about == [first EXCEPT !.tenant = tenant]
           place == IF route = "schema" THEN IF tenant = Nothing THEN "ok" ELSE "record"
                    ELSE "operate"
<1>1. TypeOK /\ RequestOK(n) /\ req[n].pc = "unsent"
  BY DEF IInv, Receive
<1>2. \A e \in done \cup trail : e.by # n
  BY <1>1 DEF RequestOK, EffectsOK
<1>3. UNCHANGED <<runs, done, trail, faults>>
  BY DEF Receive
<1>4. WellFormed(route, credential, given, asked)
  BY DEF Receive
<1>5. n \notin OkNow
  BY <1>1 DEF OkNow
<1>6. Frame(n)
  <2>1. \A m \in Requests \ {n} : req'[m] = req[m]
    BY <1>1, BecomeAt DEF Receive, Refuse
  <2> QED BY <2>1, <1>1, <1>3 DEF Frame
<1>12. scope \in MaybeTenant /\ tenant \in MaybeTenant /\ route \in Routes
  BY HttpAssumption DEF ScopeOf, TenantOf, MaybeTenant
<1> HIDE DEF scope, tenant, place
<1>13. /\ first \in Request /\ first.run = asked /\ first.route = route /\ first.scope = scope
       /\ first.shown = {} /\ first.entries = {} /\ first.before = {}
  BY <1>12, UnsentTyped DEF Unsent, Request
<1>14. /\ about \in Request /\ about.run = asked /\ about.route = route /\ about.scope = scope
       /\ about.shown = {} /\ about.entries = {} /\ about.before = {} /\ about.tenant = tenant
  BY <1>12, <1>13 DEF Unsent, Request
<1>15. route \in SweepingPosts => asked = Nothing
  BY <1>4, Kinds DEF WellFormed
<1> HIDE DEF first, about
<1>7. CASE \/ \E code \in Refusal \ {"not ready"} : Refuse(n, first, code, Nothing)
           \/ /\ route \notin RunRoutes /\ tenant # Nothing /\ ~MayAccess(scope, tenant)
              /\ Refuse(n, about, "forbidden", tenant)
  <2>1. CASE \E code \in Refusal \ {"not ready"} : Refuse(n, first, code, Nothing)
    <3>1. PICK code \in Refusal \ {"not ready"} : Refuse(n, first, code, Nothing)
      BY <2>1
    <3>2. RequestOK(n)'
      BY <1>1, <1>3, <1>13, <1>15, <3>1, Refused DEF MaybeTenant
    <3> QED BY <1>6, <3>2
  <2>2. CASE /\ route \notin RunRoutes /\ tenant # Nothing /\ ~MayAccess(scope, tenant)
             /\ Refuse(n, about, "forbidden", tenant)
    <3>1. asked = Nothing
      BY <1>4, <2>2 DEF WellFormed
    <3>2. RequestOK(n)'
      BY <1>1, <1>3, <1>12, <1>14, <2>2, <3>1, Refused DEF Refusal
    <3> QED BY <1>6, <3>2
  <2> QED BY <1>7, <2>1, <2>2
<1>8. ASSUME NEW pc, NEW where, NEW whose,
             req'[n] = [pc |-> pc, route |-> route, scope |-> scope, tenant |-> whose,
                        run |-> where, refusal |-> Nothing, named |-> Nothing,
                        shown |-> {}, entries |-> {}, before |-> OkNow],
             pc \in {"find", "operate", "record", "ok"},
             pc = "find" => route \in RunRoutes /\ where # Nothing,
             pc # "find" => where = Nothing /\ route \notin RunRoutes,
             whose = Nothing \/ where = Nothing,
             pc \in {"operate", "record"} => MayAccess(scope, whose),
             pc = "record" => whose # Nothing,
             pc = "operate" /\ whose = Nothing => route \in Lists \cup SweepingPosts,
             pc \in {"record", "ok"} => route \notin Changes,
             pc = "ok" => whose = Nothing
      PROVE  RequestOK(n)'
  <2>1. EffectsOK(n)'
    BY <1>2, <1>3 DEF EffectsOK
  <2>2. PlaceOK(n)'
    BY <1>8, Kinds DEF PlaceOK
  <2>5. RefusalOK(n)'
    <3>1. req'[n].pc = pc /\ pc # "refused"
      BY <1>8
    <3> QED BY <3>1, NotRefused
  <2>3. TracesOK(n)'
    BY <1>2, <1>3, <1>8 DEF TracesOK, AfterOperation
  <2>4. HistoryOK(n)'
    <3>1. \A m \in OkNow : m \in Requests \ {n} /\ req'[m] = req[m] /\ req[m].pc = "ok"
      BY <1>5, <1>6 DEF OkNow, Frame
    <3> QED BY <3>1, <1>8, Kinds DEF HistoryOK
  <2> QED BY <2>1, <2>2, <2>3, <2>4, <2>5 DEF RequestOK
<1>9. CASE route \in PublicRoutes /\ Become(n, [next EXCEPT !.pc = "ok"])
  <2>1. req'[n] = [next EXCEPT !.pc = "ok"]
    BY <1>1, <1>9, BecomeAt
  <2>2. req'[n] = [pc |-> "ok", route |-> route, scope |-> scope, tenant |-> Nothing,
                   run |-> Nothing, refusal |-> Nothing, named |-> Nothing,
                   shown |-> {}, entries |-> {}, before |-> OkNow]
    BY <1>4, <1>9, <2>1, Kinds DEF Unsent, first, WellFormed
  <2>3. route \notin Changes \cup RunRoutes
    BY <1>9, Kinds
  <2>4. RequestOK(n)'
    BY <1>8, <2>2, <2>3
  <2> QED BY <1>6, <2>4
<1>10. CASE /\ route \in RunRoutes
            /\ Become(n, [next EXCEPT !.pc = "find"])
  <2>1. req'[n] = [next EXCEPT !.pc = "find"]
    BY <1>1, <1>10, BecomeAt
  <2>2. asked # Nothing
    BY <1>4, <1>10 DEF WellFormed
  <2>3. req'[n] = [pc |-> "find", route |-> route, scope |-> scope, tenant |-> Nothing,
                   run |-> asked, refusal |-> Nothing, named |-> Nothing,
                   shown |-> {}, entries |-> {}, before |-> OkNow]
    BY <2>1 DEF Unsent, first
  <2>4. RequestOK(n)'
    BY <1>8, <1>10, <2>2, <2>3
  <2> QED BY <1>6, <2>4
<1>11. CASE /\ route \notin RunRoutes \cup PublicRoutes
            /\ tenant = Nothing => ~NeedsTenant(route)
            /\ tenant # Nothing => MayAccess(scope, tenant)
            /\ Become(n, [next EXCEPT !.tenant = tenant, !.pc = place])
  <2>1. req'[n] = [next EXCEPT !.tenant = tenant, !.pc = place]
    BY <1>1, <1>11, BecomeAt
  <2>2. tenant = Nothing => scope = Nothing
    BY <1>4 DEF tenant, TenantOf, WellFormed
  <2>3. MayAccess(scope, tenant)
    BY <1>11, <2>2 DEF MayAccess
  <2>4. tenant = Nothing => route \in Lists \cup SweepingPosts \cup {"schema"}
    BY <1>11 DEF NeedsTenant
  <2>5. req'[n] = [pc |-> place, route |-> route, scope |-> scope, tenant |-> tenant,
                   run |-> Nothing, refusal |-> Nothing, named |-> Nothing,
                   shown |-> {}, entries |-> {}, before |-> OkNow]
    BY <1>4, <1>11, <2>1 DEF Unsent, first, WellFormed
  <2>6. /\ place \in {"operate", "record", "ok"}
        /\ place = "record" => tenant # Nothing
        /\ place = "operate" /\ tenant = Nothing => route \in Lists \cup SweepingPosts
        /\ place \in {"record", "ok"} => route \notin Changes
        /\ place = "ok" => tenant = Nothing
    BY <2>4, Kinds DEF place
  <2>7. RequestOK(n)'
    BY <1>8, <1>11, <2>3, <2>5, <2>6
  <2> QED BY <1>6, <2>7
<1> QED BY <1>6, <1>7, <1>9, <1>10, <1>11
        DEF Receive, scope, tenant, place, first, about, Refusal

(* A call that throws without an effect. *)
LEMMA Failed ==
    ASSUME TypeOK, NEW n \in Requests, RequestOK(n), req[n].pc \in {"find", "operate"},
           Goto(n, "error"), UNCHANGED <<done, trail>>
    PROVE  RequestOK(n)'
<1>1. req[n] \in Request /\ req'[n] = [req[n] EXCEPT !.pc = "error"]
  BY BecomeAt DEF TypeOK, Goto
<1>2. /\ req'[n].pc = "error" /\ req'[n].scope = req[n].scope /\ req'[n].shown = req[n].shown
      /\ req'[n].route = req[n].route /\ req'[n].run = req[n].run
      /\ req'[n].before = req[n].before
  BY <1>1 DEF Request
<1>3. \A e \in done \cup trail : e.by # n
  BY DEF RequestOK, EffectsOK
<1>4. EffectsOK(n)'
  BY <1>3 DEF EffectsOK
<1>5. PlaceOK(n)'
  BY <1>2 DEF RequestOK, PlaceOK
<1>8. RefusalOK(n)'
  BY <1>2 DEF RefusalOK
<1>6. TracesOK(n)'
  BY <1>2, <1>3 DEF TracesOK
<1>7. HistoryOK(n)'
  <2>1. \A m \in req[n].before : m \in Requests \ {n} /\ req[m].pc = "ok"
    BY <1>1 DEF RequestOK, HistoryOK, Request
  <2>2. \A m \in req[n].before : req'[m].pc = "ok"
    BY <2>1, BecomeAt DEF Goto
  <2> QED BY <1>2, <2>2 DEF HistoryOK
<1> QED BY <1>4, <1>5, <1>6, <1>7, <1>8 DEF RequestOK

(* What was answered before stays answered. *)
LEMMA BeforeStays ==
    ASSUME TypeOK, NEW n \in Requests, RequestOK(n), req[n].pc # "ok", NEW r, Become(n, r)
    PROVE  \A m \in req[n].before : /\ m \in Requests \ {n} /\ req'[m] = req[m]
                                    /\ req[m].pc = "ok"
<1>1. \A m \in req[n].before : m \in Requests \ {n} /\ req[m].pc = "ok"
  BY DEF RequestOK, HistoryOK, TypeOK, Request
<1> QED BY <1>1, BecomeAt

LEMMA FindOK ==
    ASSUME IInv, NEW n \in Requests, Find(n)
    PROVE  Frame(n) /\ RequestOK(n)'
<1> DEFINE r == req[n]
           found == runs[r.run]
           next == CASE r.route = "sentiment/analysis" -> "ok"
                     [] r.route \in RecordReads -> "record"
                     [] OTHER -> "operate"
<1>1. TypeOK /\ RequestOK(n) /\ r.pc = "find" /\ r \in Request
  BY DEF IInv, Find, TypeOK
<1>2. UNCHANGED <<runs, done, trail>> /\ (faults' = 0 => faults = 0)
  <2>1. UNCHANGED <<runs, done, trail>> /\ (UNCHANGED faults \/ Fault)
    BY Zenon DEF Find
  <2> QED BY <1>1, <2>1 DEF Fault, TypeOK
<1>3. Frame(n)
  <2>1. \A m \in Requests \ {n} : req'[m] = req[m]
    BY <1>1, BecomeAt DEF Find, Refuse, Goto
  <2> QED BY <2>1, <1>1, <1>2 DEF Frame
<1> DEFINE refused == [r EXCEPT !.before = {}]
<1>7. /\ r.route \in RunRoutes /\ r.run \in RunIds /\ r.run # Nothing /\ r.shown = {}
      /\ r.entries = {}
  BY <1>1 DEF RequestOK, PlaceOK, Request, MaybeRun
<1>8. /\ refused \in Request /\ refused.run = r.run /\ refused.route = r.route
      /\ refused.shown = {} /\ refused.entries = {} /\ refused.before = {}
      /\ refused.scope = r.scope
  BY <1>1, <1>7 DEF Request
<1> HIDE DEF refused
<1>4. CASE \/ \E code \in {"not found", "invalid"} : Refuse(n, refused, code, Nothing)
           \/ found # Nothing /\ Refuse(n, refused, "not ready", Nothing)
           \/ /\ found # Nothing /\ ~MayAccess(r.scope, found.tenant)
              /\ Refuse(n, refused, "forbidden", found.tenant)
  <2>1. r.route \notin SweepingPosts
    BY <1>7, Kinds
  <2>2. found # Nothing => found.tenant \in Tenants
    BY <1>1, <1>7 DEF TypeOK, Run
  <2>3. CASE \E code \in {"not found", "invalid"} : Refuse(n, refused, code, Nothing)
    <3>1. PICK code \in {"not found", "invalid"} : Refuse(n, refused, code, Nothing)
      BY <2>3
    <3>2. code \in Refusal /\ code # "not ready" /\ Nothing \in MaybeTenant
      BY DEF Refusal, MaybeTenant
    <3>3. RequestOK(n)'
      BY <1>1, <1>2, <1>8, <2>1, <3>1, <3>2, Refused
    <3> QED BY <1>3, <3>3
  <2>4. CASE found # Nothing /\ Refuse(n, refused, "not ready", Nothing)
    <3>1. "not ready" \in Refusal /\ Nothing \in MaybeTenant
      BY DEF Refusal, MaybeTenant
    <3>2. RequestOK(n)'
      BY <1>1, <1>2, <1>7, <1>8, <2>1, <2>4, <3>1, Refused
    <3> QED BY <1>3, <3>2
  <2>5. CASE /\ found # Nothing /\ ~MayAccess(r.scope, found.tenant)
             /\ Refuse(n, refused, "forbidden", found.tenant)
    <3>1. "forbidden" \in Refusal /\ found.tenant \in MaybeTenant
      BY <2>2, <2>5 DEF Refusal, MaybeTenant
    <3>2. RequestOK(n)'
      BY <1>1, <1>2, <1>7, <1>8, <2>1, <2>5, <3>1, Refused
    <3> QED BY <1>3, <3>2
  <2> QED BY <1>4, <2>3, <2>4, <2>5
<1>5. CASE Goto(n, "error")
  BY <1>1, <1>2, <1>3, <1>5, Failed
<1>6. CASE /\ Present(r, found) /\ MayAccess(r.scope, found.tenant)
           /\ Become(n, [r EXCEPT !.pc = next, !.tenant = found.tenant, !.shown = {found.tenant}])
  <2>1. req'[n] = [r EXCEPT !.pc = next, !.tenant = found.tenant, !.shown = {found.tenant}]
    BY <1>1, <1>6, BecomeAt
  <2>2. r.route \in RunRoutes /\ r.run \in RunIds
    BY <1>1 DEF RequestOK, PlaceOK, Request, MaybeRun
  <2>3. found # Nothing /\ found.tenant \in Tenants /\ MayAccess(r.scope, found.tenant)
    BY <1>1, <1>6, <2>2 DEF Present, TypeOK, Run
  <2>4. /\ next \in {"ok", "record", "operate"}
        /\ next = "ok" => r.route = "sentiment/analysis"
        /\ next = "record" => r.route \in RecordReads
    OBVIOUS
  <2> HIDE DEF next, found
  <2>5. /\ req'[n].pc = next /\ req'[n].tenant = found.tenant /\ req'[n].shown = {found.tenant}
        /\ req'[n].scope = r.scope /\ req'[n].route = r.route /\ req'[n].run = r.run
        /\ req'[n].before = r.before /\ req'[n].entries = r.entries
    BY <1>1, <2>1 DEF Request
  <2>6. EffectsOK(n)'
    BY <1>1, <1>2 DEF RequestOK, EffectsOK
  <2>7. PlaceOK(n)'
    BY <1>1, <2>2, <2>3, <2>4, <2>5, HttpAssumption DEF RequestOK, PlaceOK, MayAccess
  <2>10. RefusalOK(n)'
    BY <2>4, <2>5 DEF RefusalOK
  <2>8. TracesOK(n)'
    <3>1. next \in {"record", "ok"} => r.route \notin Changes
      BY <2>4, Kinds
    <3>2. next = "ok" => AfterOperation(req'[n]) = "ok"
      BY <2>4, <2>5, Kinds DEF AfterOperation
    <3>3. \A e \in trail' : e.by # n
      BY <1>1, <1>2 DEF RequestOK, EffectsOK
    <3>4. runs'[r.run] # Nothing /\ runs'[r.run].tenant = found.tenant
      BY <1>2, <2>3 DEF found
    <3> QED BY <2>5, <3>1, <3>2, <3>3, <3>4 DEF TracesOK, AfterOperation
  <2>9. HistoryOK(n)'
    <3>1. next \in {"record", "ok"} => r.route # "audit"
      BY <2>4, Kinds
    <3> QED BY <1>1, <1>6, <2>5, <3>1, BeforeStays DEF HistoryOK
  <2> QED BY <1>3, <2>6, <2>7, <2>8, <2>9, <2>10 DEF RequestOK
<1> QED BY <1>4, <1>5, <1>6 DEF Find, Missing, Present, refused

(* What was answered of a run before an audit read is in what it reads. *)
LEMMA EntriesAreComplete ==
    ASSUME IInv, NEW n \in Requests, req[n].pc = "operate", req[n].route = "audit",
           NEW m \in req[n].before, req[m].route \in Changes, req[m].run = req[n].run
    PROVE  \E e \in EntriesOf(req[n]) : e.by = m
<1>1. m \in Requests /\ RequestOK(m) /\ RequestOK(n) /\ req[m].pc = "ok"
  BY DEF IInv, RequestOK, HistoryOK, TypeOK, Request
<1>2. req[n].run # Nothing /\ req[n].tenant # Nothing
  BY <1>1 DEF RequestOK, PlaceOK
<1>3. req[m].tenant # Nothing
  BY <1>1, <1>2 DEF RequestOK, PlaceOK
<1>4. EntryOf(m) \in trail
  BY <1>1, <1>3, Kinds DEF RequestOK, TracesOK, AfterOperation
<1>5. req[m].tenant = req[n].tenant
  BY <1>1, <1>2, <1>3 DEF RequestOK, TracesOK
<1> QED BY <1>4, <1>5 DEF EntriesOf, EntryOf

LEMMA ReadOK ==
    ASSUME IInv, NEW n \in Requests, Read(n)
    PROVE  Frame(n) /\ RequestOK(n)'
<1> DEFINE r == req[n]
           shown == IF r.route \in Lists THEN {runs[x].tenant : x \in Visible(r.scope)}
                    ELSE {r.tenant}
           entries == IF r.route = "audit" THEN EntriesOf(r) ELSE {}
           next == AfterOperation(r)
<1>1. TypeOK /\ RequestOK(n) /\ r.pc = "operate" /\ r.route \notin Changes /\ r \in Request
  BY DEF IInv, Read, TypeOK
<1>2. UNCHANGED <<runs, done, trail>> /\ (faults' = 0 => faults = 0)
  BY <1>1 DEF Read, Fault, TypeOK
<1>3. Frame(n)
  <2>1. \A m \in Requests \ {n} : req'[m] = req[m]
    BY <1>1, BecomeAt DEF Read, Goto
  <2> QED BY <2>1, <1>1, <1>2 DEF Frame
<1>4. CASE Goto(n, "error")
  BY <1>1, <1>2, <1>3, <1>4, Failed
<1>5. CASE Become(n, [r EXCEPT !.pc = next, !.shown = shown, !.entries = entries])
  <2>1. next \in {"record", "ok"} /\ (next = "record" => r.tenant # Nothing)
    BY DEF AfterOperation
  <2>2. r.scope # Nothing => shown \subseteq {r.scope}
    BY <1>1 DEF RequestOK, PlaceOK, MayAccess, Visible
  <2>3. r.route = "audit" => \A m \in r.before :
            req[m].route \in Changes /\ req[m].run = r.run => \E e \in entries : e.by = m
    BY <1>1, EntriesAreComplete
  <2> HIDE DEF shown, entries
  <2>4. /\ req'[n].pc = next /\ req'[n].tenant = r.tenant /\ req'[n].shown = shown
        /\ req'[n].scope = r.scope /\ req'[n].route = r.route /\ req'[n].run = r.run
        /\ req'[n].before = r.before /\ req'[n].entries = entries
    <3>1. req'[n] = [r EXCEPT !.pc = next, !.shown = shown, !.entries = entries]
      BY <1>1, <1>5, BecomeAt
    <3> HIDE DEF next, r
    <3> QED BY <1>1, <3>1 DEF Request
  <2>5. EffectsOK(n)'
    BY <1>1, <1>2 DEF RequestOK, EffectsOK
  <2>6. PlaceOK(n)'
    BY <1>1, <2>1, <2>2, <2>4 DEF RequestOK, PlaceOK, MayAccess
  <2>7. TracesOK(n)'
    <3>1. AfterOperation(req'[n]) = next
      BY <2>4 DEF AfterOperation
    <3>2. \A e \in trail' : e.by # n
      BY <1>1, <1>2 DEF RequestOK, EffectsOK
    <3>3. r.tenant # Nothing /\ r.run # Nothing =>
              runs'[r.run] # Nothing /\ runs'[r.run].tenant = r.tenant
      BY <1>1, <1>2 DEF RequestOK, TracesOK
    <3> HIDE DEF next
    <3> QED BY <1>1, <2>1, <2>4, <3>1, <3>2, <3>3 DEF TracesOK, AfterOperation
  <2>8. HistoryOK(n)'
    BY <1>1, <1>5, <2>3, <2>4, BeforeStays DEF HistoryOK
  <2>9. RefusalOK(n)'
    BY <2>1, <2>4, NotRefused
  <2> QED BY <1>3, <2>5, <2>6, <2>7, <2>8, <2>9 DEF RequestOK
<1> QED BY <1>4, <1>5 DEF Read

LEMMA ActedOK ==
    ASSUME TypeOK, NEW n \in Requests, RequestOK(n), req[n].pc = "operate",
           req[n].route \in Changes, NEW asked \in MaybeRun,
           NEW r \in Request, r = [req[n] EXCEPT !.run = asked], Acted(n, r), UNCHANGED trail,
           r.route \in SweepingPosts => asked = Nothing,
           /\ asked # Nothing /\ r.tenant # Nothing /\ req'[n].pc # "error"
           => runs'[asked] # Nothing /\ runs'[asked].tenant = r.tenant
    PROVE  RequestOK(n)'
<1>1. /\ r.scope = req[n].scope /\ r.route = req[n].route /\ r.tenant = req[n].tenant
      /\ r.before = req[n].before /\ r.run = asked /\ r.shown = req[n].shown
  BY DEF TypeOK, Request
<1>2. \A e \in done \cup trail : e.by # n
  BY DEF RequestOK, EffectsOK
<1>3. MayAccess(r.scope, r.tenant)
  BY <1>1 DEF RequestOK, PlaceOK
<1>4. \A d \in EffectsOf(n, r) : d.by = n /\ d.tenant \in TenantsOf(r)
  BY DEF EffectsOf
<1>5. \A t \in TenantsOf(r) : MayAccess(r.scope, t)
  BY <1>3 DEF TenantsOf, MayAccess
<1>6. r.scope # Nothing => TenantsOf(r) \subseteq {r.scope}
  BY <1>5 DEF MayAccess
<1>7. r.tenant # Nothing => \E d \in EffectsOf(n, r) : d.by = n /\ d.tenant = r.tenant
  <2> SUFFICES ASSUME r.tenant # Nothing
               PROVE  [by |-> n, tenant |-> r.tenant, run |-> r.run] \in EffectsOf(n, r)
    OBVIOUS
  <2> QED BY DEF EffectsOf, TenantsOf
<1>8. HistoryOK(n)'
  <2>1. req'[n].before = r.before /\ req'[n].route = r.route
    <3>1. \/ req'[n] = [r EXCEPT !.pc = AfterOperation(r), !.shown = TenantsOf(r)]
          \/ req'[n] = [r EXCEPT !.pc = "error"]
      BY BecomeAt DEF Acted
    <3> QED BY <3>1 DEF Request
  <2>2. \A m \in req[n].before : req'[m].pc = "ok"
    BY BeforeStays DEF Acted
  <2>3. r.route # "audit"
    BY <1>1, Kinds
  <2> QED BY <1>1, <2>1, <2>2, <2>3 DEF HistoryOK
<1>9. CASE /\ Become(n, [r EXCEPT !.pc = AfterOperation(r), !.shown = TenantsOf(r)])
           /\ done' = done \cup EffectsOf(n, r)
           /\ UNCHANGED faults
  <2> DEFINE next == AfterOperation(r)
  <2>1. next \in {"record", "ok"} /\ (next = "record" => r.tenant # Nothing)
    BY DEF AfterOperation
  <2> HIDE DEF next
  <2>2. /\ req'[n].pc = next /\ req'[n].tenant = r.tenant /\ req'[n].shown = TenantsOf(r)
        /\ req'[n].scope = r.scope /\ req'[n].route = r.route /\ req'[n].run = asked
    <3>1. req'[n] = [r EXCEPT !.pc = next, !.shown = TenantsOf(r)]
      BY <1>9, BecomeAt DEF next
    <3> QED BY <1>1, <3>1 DEF Request
  <2>3. EffectsOK(n)'
    BY <1>2, <1>4, <1>5, <1>9, <2>1, <2>2 DEF EffectsOK, MayAccess
  <2>4. PlaceOK(n)'
    BY <1>1, <1>3, <1>6, <2>1, <2>2, Kinds DEF RequestOK, PlaceOK, MayAccess
  <2>5. TracesOK(n)'
    <3>1. AfterOperation(req'[n]) = next
      BY <2>2 DEF AfterOperation, next
    <3> QED BY <1>2, <1>7, <1>9, <2>1, <2>2, <3>1 DEF TracesOK, AfterOperation
  <2>6. RefusalOK(n)'
    BY <2>1, <2>2, NotRefused
  <2> QED BY <1>8, <2>3, <2>4, <2>5, <2>6 DEF RequestOK
<1>10. CASE /\ Become(n, [r EXCEPT !.pc = "error"]) /\ Fault
            /\ done' = done \cup EffectsOf(n, r) \/ UNCHANGED done
  <2>1. /\ req'[n].pc = "error" /\ req'[n].tenant = r.tenant /\ req'[n].shown = r.shown
        /\ req'[n].scope = r.scope /\ req'[n].route = r.route /\ req'[n].run = asked
    <3>1. req'[n] = [r EXCEPT !.pc = "error"]
      BY <1>10, BecomeAt
    <3> QED BY <1>1, <3>1 DEF Request
  <2>2. faults' # 0
    BY <1>10 DEF Fault, TypeOK
  <2>3. EffectsOK(n)'
    BY <1>2, <1>4, <1>5, <1>10, <2>1, <2>2 DEF EffectsOK, MayAccess
  <2>4. PlaceOK(n)'
    BY <1>1, <2>1 DEF RequestOK, PlaceOK
  <2>5. TracesOK(n)'
    BY <1>2, <2>1 DEF TracesOK
  <2>6. RefusalOK(n)'
    BY <2>1, NotRefused
  <2> QED BY <1>8, <2>3, <2>4, <2>5, <2>6 DEF RequestOK
<1> QED BY <1>9, <1>10 DEF Acted

LEMMA ActedFrame ==
    ASSUME TypeOK, NEW n \in Requests, req[n].pc = "operate", NEW r, Acted(n, r),
           UNCHANGED trail,
           \A x \in RunIds : runs[x] # Nothing =>
               runs'[x] # Nothing /\ runs'[x].tenant = runs[x].tenant
    PROVE  Frame(n)
<1>1. \A m \in Requests \ {n} : req'[m] = req[m]
  BY BecomeAt DEF Acted
<1>2. faults' = 0 => faults = 0
  BY DEF Acted, Fault, TypeOK
<1>3. done \subseteq done' /\ \A e \in done' \ done : e.by = n
  BY DEF Acted, EffectsOf
<1> QED BY <1>1, <1>2, <1>3 DEF Frame

LEMMA SubmitOK ==
    ASSUME IInv, NEW n \in Requests, Submit(n)
    PROVE  Frame(n) /\ RequestOK(n)'
<1>1. /\ TypeOK /\ RequestOK(n) /\ req[n].pc = "operate" /\ req[n].route = "submit"
      /\ UNCHANGED trail
  BY DEF IInv, Submit
<1>2. PICK id \in RunIds :
         /\ runs[id] = Nothing
         /\ Acts(n, [req[n] EXCEPT !.run = id],
                 [runs EXCEPT ![id] = [tenant |-> req[n].tenant, status |-> "QUEUED"]])
  BY DEF Submit
<1> DEFINE r == [req[n] EXCEPT !.run = id]
<1>3. r \in Request /\ id \in MaybeRun /\ r.tenant = req[n].tenant /\ r.route = "submit"
  BY <1>1 DEF TypeOK, Request, MaybeRun
<1>4. Acted(n, r)
  BY <1>2 DEF Acts, Acted
<1>5. req[n].tenant \in Tenants
  <2>1. req[n].route \in Changes \ SweepingPosts
    BY <1>1, Kinds
  <2>2. req[n].tenant # Nothing
    BY <1>1, <2>1 DEF RequestOK, PlaceOK
  <2> QED BY <1>1, <2>2 DEF TypeOK, Request, MaybeTenant
<1> DEFINE created == [tenant |-> req[n].tenant, status |-> "QUEUED"]
<1>6. created # Nothing
  BY <1>5, HttpAssumption DEF Run
<1>7. \A x \in RunIds : runs[x] # Nothing => runs'[x] = runs[x]
  BY <1>1, <1>2 DEF Acts, TypeOK
<1>8. Frame(n)
  BY <1>1, <1>4, <1>7, ActedFrame
<1>9. req'[n].pc # "error" => runs'[id] = created
  <2>1. CASE Become(n, [r EXCEPT !.pc = "error"])
    <3>1. req'[n] = [r EXCEPT !.pc = "error"]
      BY <1>1, <2>1, BecomeAt
    <3> QED BY <1>3, <3>1 DEF Request
  <2>2. CASE runs' = [runs EXCEPT ![id] = created]
    BY <1>1, <2>2 DEF TypeOK
  <2> QED BY <1>2, <2>1, <2>2 DEF Acts
<1>10. r.route \notin SweepingPosts /\ req[n].route \in Changes
  BY <1>1, <1>3, Kinds
<1>11. /\ id # Nothing /\ r.tenant # Nothing /\ req'[n].pc # "error"
       => runs'[id] # Nothing /\ runs'[id].tenant = r.tenant
  BY <1>3, <1>6, <1>9
<1>12. RequestOK(n)'
  <2> HIDE DEF created
  <2> QED BY <1>1, <1>3, <1>4, <1>10, <1>11, ActedOK
<1> QED BY <1>8, <1>12

LEMMA ChangeOK ==
    ASSUME IInv, NEW n \in Requests, Change(n)
    PROVE  Frame(n) /\ RequestOK(n)'
<1> DEFINE r == req[n]
<1>1. /\ TypeOK /\ RequestOK(n) /\ r.pc = "operate" /\ r.route \in Changes
      /\ UNCHANGED trail /\ r \in Request
  BY DEF IInv, Change, TypeOK
<1>2. CASE Acts(n, r, runs)
  <2>1. Acted(n, r) /\ UNCHANGED runs
    BY <1>2 DEF Acts, Acted
  <2>2. Frame(n)
    BY <1>1, <2>1, ActedFrame
  <2>3. r = [r EXCEPT !.run = r.run] /\ r.run \in MaybeRun
    BY <1>1 DEF Request
  <2>4. r.route \in SweepingPosts => r.run = Nothing
    BY <1>1 DEF RequestOK, PlaceOK
  <2>5. r.run # Nothing /\ r.tenant # Nothing =>
            runs'[r.run] # Nothing /\ runs'[r.run].tenant = r.tenant
    BY <1>1, <2>1 DEF RequestOK, TracesOK
  <2>6. RequestOK(n)'
    BY <1>1, <2>1, <2>3, <2>4, <2>5, ActedOK
  <2> QED BY <2>2, <2>6
<1>3. CASE Goto(n, "error") /\ UNCHANGED <<runs, done, faults>>
  <2>1. \A m \in Requests \ {n} : req'[m] = req[m]
    BY <1>1, <1>3, BecomeAt DEF Goto
  <2>2. Frame(n)
    BY <1>1, <1>3, <2>1 DEF Frame
  <2> QED BY <1>1, <1>3, <2>2, Failed
<1> QED BY <1>2, <1>3 DEF Change

LEMMA RecordOK ==
    ASSUME IInv, NEW n \in Requests, Record(n)
    PROVE  Frame(n) /\ RequestOK(n)'
<1> DEFINE r == req[n]
<1>1. TypeOK /\ RequestOK(n) /\ r.pc = "record" /\ r \in Request /\ UNCHANGED <<runs, done>>
  BY DEF IInv, Record, TypeOK
<1>2. PICK pc \in {"ok", "error"} :
         /\ Goto(n, pc) /\ trail' \in {trail, trail \cup {EntryOf(n)}}
         /\ pc = "ok" => EntryOf(n) \in trail'
         /\ pc = "error" => faults' # 0
         /\ faults' = 0 => faults = 0
  BY <1>1 DEF Record, Fault, TypeOK
<1>3. req'[n] = [r EXCEPT !.pc = pc] /\ \A m \in Requests \ {n} : req'[m] = req[m]
  BY <1>1, <1>2, BecomeAt DEF Goto
<1>4. /\ req'[n].pc = pc /\ req'[n].tenant = r.tenant /\ req'[n].shown = r.shown
      /\ req'[n].scope = r.scope /\ req'[n].route = r.route /\ req'[n].run = r.run
      /\ req'[n].before = r.before /\ req'[n].entries = r.entries
  BY <1>1, <1>3 DEF Request
<1>5. EntryOf(n).by = n /\ EntryOf(n).tenant = r.tenant /\ EntryOf(n)' = EntryOf(n)
  BY <1>4 DEF EntryOf
<1>6. r.tenant # Nothing /\ MayAccess(r.scope, r.tenant)
  BY <1>1 DEF RequestOK, PlaceOK
<1>7. Frame(n)
  BY <1>1, <1>2, <1>3, <1>5 DEF Frame
<1>8. EffectsOK(n)'
  <2>1. \A e \in done' \cup trail' : e.by = n => MayAccess(r.scope, e.tenant)
    BY <1>1, <1>2, <1>5, <1>6 DEF RequestOK, EffectsOK
  <2> QED BY <1>2, <1>4, <2>1 DEF EffectsOK, MayAccess
<1>9. PlaceOK(n)'
  BY <1>1, <1>4 DEF RequestOK, PlaceOK
<1>10. TracesOK(n)'
  <2>1. r.route \in Changes => \E d \in done : d.by = n /\ d.tenant = r.tenant
    BY <1>1, <1>6 DEF RequestOK, TracesOK
  <2>2. \A e \in trail' : e.by = n /\ r.route \in Changes =>
            \E d \in done : d.by = n /\ d.tenant = e.tenant
    BY <1>1, <1>2, <1>5, <2>1 DEF RequestOK, TracesOK
  <2>3. r.tenant # Nothing /\ r.run # Nothing =>
            runs'[r.run] # Nothing /\ runs'[r.run].tenant = r.tenant
    BY <1>1 DEF RequestOK, TracesOK
  <2> QED BY <1>1, <1>2, <1>4, <1>5, <2>1, <2>2, <2>3 DEF TracesOK, AfterOperation
<1>11. HistoryOK(n)'
  <2>1. \A m \in r.before : m \in Requests \ {n} /\ req'[m] = req[m] /\ req[m].pc = "ok"
    BY <1>1, <1>2, BeforeStays DEF Goto
  <2>2. r.route = "audit" => \A m \in r.before :
            req[m].route \in Changes /\ req[m].run = r.run => \E e \in r.entries : e.by = m
    BY <1>1 DEF RequestOK, HistoryOK
  <2> QED BY <1>4, <2>1, <2>2 DEF HistoryOK
<1>12. RefusalOK(n)'
  BY <1>2, <1>4, NotRefused
<1> QED BY <1>7, <1>8, <1>9, <1>10, <1>11, <1>12 DEF RequestOK

(* The loop ends runs and does not change whose they are. *)
LEMMA EndRunOK ==
    ASSUME IInv, NEW id \in RunIds, EndRun(id), NEW n \in Requests
    PROVE  RequestOK(n)'
<1>1. TypeOK /\ RequestOK(n) /\ UNCHANGED <<req, done, trail, faults>>
  BY DEF IInv, EndRun
<1>2. \A x \in RunIds : runs[x] # Nothing => runs'[x] # Nothing /\ runs'[x].tenant = runs[x].tenant
  <2>1. PICK status \in {"COMPLETED", "FAILED"} : runs' = [runs EXCEPT ![id].status = status]
    BY DEF EndRun
  <2>2. runs[id] \in Run
    BY <1>1 DEF EndRun, TypeOK
  <2>3. [runs[id] EXCEPT !.status = status] \in Run
    BY <2>2 DEF Run
  <2> QED BY <1>1, <2>1, <2>2, <2>3, HttpAssumption DEF TypeOK, Run
<1>3. req[n].run \in RunIds \cup {Nothing}
  BY <1>1 DEF TypeOK, Request, MaybeRun
<1>4. RefusalOK(n)'
  BY <1>1, <1>2, <1>3 DEF RequestOK, RefusalOK, MayAccess
<1> QED BY <1>1, <1>2, <1>3, <1>4
        DEF RequestOK, EffectsOK, PlaceOK, TracesOK, HistoryOK, AfterOperation, EntryOf, MayAccess

LEMMA DieOK ==
    ASSUME IInv, Die, NEW n \in Requests
    PROVE  RequestOK(n)'
<1>1. /\ TypeOK /\ RequestOK(n) /\ UNCHANGED <<runs, done, trail>> /\ req[n] \in Request
  BY DEF IInv, Die, TypeOK
<1>2. faults' # 0
  BY <1>1 DEF Die, Fault, TypeOK
<1>3. CASE req[n].pc \in InService
  <2>1. /\ req'[n].pc = "lost" /\ req'[n].tenant = req[n].tenant
        /\ req'[n].scope = req[n].scope /\ req'[n].route = req[n].route
        /\ req'[n].run = req[n].run /\ req'[n].shown = req[n].shown
        /\ req'[n].before = req[n].before
    BY <1>1, <1>3 DEF Die, Request
  <2>2. \A m \in req[n].before : req'[m].pc = "ok"
    BY <1>1 DEF RequestOK, HistoryOK, Die, InService, Request
  <2>3. EffectsOK(n)'
    BY <1>1, <1>2, <2>1 DEF RequestOK, EffectsOK, MayAccess
  <2>4. PlaceOK(n)'
    BY <1>1, <2>1 DEF RequestOK, PlaceOK
  <2>5. TracesOK(n)'
    BY <1>1, <2>1 DEF RequestOK, TracesOK
  <2>6. HistoryOK(n)'
    BY <2>1, <2>2 DEF HistoryOK
  <2>7. RefusalOK(n)'
    BY <2>1, NotRefused
  <2> QED BY <2>3, <2>4, <2>5, <2>6, <2>7 DEF RequestOK
<1>4. CASE req[n].pc \notin InService
  <2>1. req'[n] = req[n]
    BY <1>4 DEF Die
  <2>2. \A m \in req[n].before : req'[m] = req[m]
    BY <1>1 DEF RequestOK, HistoryOK, Die, InService, Request
  <2>3. EffectsOK(n)'
    BY <1>1, <1>2, <2>1 DEF RequestOK, EffectsOK, MayAccess
  <2>4. PlaceOK(n)'
    BY <1>1, <2>1 DEF RequestOK, PlaceOK, MayAccess
  <2>5. TracesOK(n)'
    BY <1>1, <2>1 DEF RequestOK, TracesOK, AfterOperation, EntryOf
  <2>6. HistoryOK(n)'
    BY <1>1, <2>1, <2>2 DEF RequestOK, HistoryOK
  <2>7. RefusalOK(n)'
    BY <1>1, <2>1 DEF RequestOK, RefusalOK, MayAccess
  <2> QED BY <2>3, <2>4, <2>5, <2>6, <2>7 DEF RequestOK
<1> QED BY <1>3, <1>4
-----------------------------------------------------------------------------
LEMMA InitOK == Init => IInv
<1> SUFFICES ASSUME Init, NEW n \in Requests PROVE RequestOK(n)
  BY InitTypes DEF IInv
<1>1. /\ req[n].pc = "unsent" /\ req[n].route = "healthz" /\ req[n].tenant = Nothing
      /\ req[n].run = Nothing /\ req[n].shown = {} /\ req[n].before = {}
      /\ done = {} /\ trail = {}
  BY DEF Init, Unsent
<1> QED BY <1>1 DEF RequestOK, EffectsOK, PlaceOK, RefusalOK, TracesOK, HistoryOK

LEMMA StepOK == IInv /\ [Next]_vars => IInv'
<1> SUFFICES ASSUME IInv, [Next]_vars PROVE \A m \in Requests : RequestOK(m)'
  BY TypeStep DEF IInv
<1>1. TypeOK /\ \A m \in Requests : RequestOK(m)
  BY DEF IInv
<1>2. ASSUME NEW n \in Requests, Frame(n) /\ RequestOK(n)'
      PROVE  \A m \in Requests : RequestOK(m)'
  BY <1>1, <1>2, Others
<1>3. CASE \E n \in Requests : \E route \in Sends[n], credential \in MaybeTenant,
              given \in MaybeTenant, asked \in MaybeRun : Receive(n, route, credential, given, asked)
  BY <1>2, <1>3, ReceiveOK
<1>4. CASE \E n \in Requests : Find(n)
  BY <1>2, <1>4, FindOK
<1>5. CASE \E n \in Requests : Read(n)
  BY <1>2, <1>5, ReadOK
<1>6. CASE \E n \in Requests : Submit(n)
  BY <1>2, <1>6, SubmitOK
<1>7. CASE \E n \in Requests : Change(n)
  BY <1>2, <1>7, ChangeOK
<1>8. CASE \E n \in Requests : Record(n)
  BY <1>2, <1>8, RecordOK
<1>9. CASE \E id \in RunIds : EndRun(id)
  BY <1>9, EndRunOK
<1>10. CASE Die
  BY <1>10, DieOK
<1>11. CASE UNCHANGED vars
  <2>1. UNCHANGED vars
    BY <1>11
  <2>2. ASSUME NEW m \in Requests PROVE RequestOK(m)'
    <3>1. EffectsOK(m)' /\ PlaceOK(m)' /\ TracesOK(m)' /\ HistoryOK(m)'
      BY <1>1, <2>1 DEF vars, RequestOK, EffectsOK, PlaceOK, TracesOK, HistoryOK, AfterOperation,
                        EntryOf, MayAccess
    <3>2. RefusalOK(m)'
      BY <1>1, <2>1 DEF vars, RequestOK, RefusalOK, MayAccess
    <3> QED BY <3>1, <3>2 DEF RequestOK
  <2> QED BY <2>2
<1> QED BY <1>3, <1>4, <1>5, <1>6, <1>7, <1>8, <1>9, <1>10, <1>11 DEF Next

(* The inductive invariant holds of every reachable state of the server.   *)
THEOREM RequestsAreInOrder == Spec => []IInv
BY InitOK, StepOK, PTL DEF Spec

(* Whichever way the tenant of a request was found, its principal changes  *)
(* data, is answered with data and leaves audit events of that tenant only;*)
(* a refusal carries no data and names no tenant but the one the client    *)
(* gave or the owner of the run it named.                                  *)
THEOREM TenantsAreApart == Spec => []TenantsStayApart
<1>1. IInv => TenantsStayApart
  <2> SUFFICES ASSUME IInv PROVE TenantsStayApart
    OBVIOUS
  <2>1. \A e \in done \cup trail : e.by \in Requests
    BY DEF IInv, TypeOK, Entry
  <2>2. \A n \in Requests : req[n].scope # Nothing => req[n].shown \subseteq {req[n].scope}
    BY DEF IInv, RequestOK, PlaceOK
  <2>3. \A e \in done \cup trail : MayAccess(req[e.by].scope, e.tenant)
    BY <2>1 DEF IInv, RequestOK, EffectsOK
  <2>4. \A n \in Requests : RefusalOK(n)
    BY DEF IInv, RequestOK
  <2> QED BY <2>2, <2>3, <2>4 DEF RefusalOK, TenantsStayApart
<1> QED BY <1>1, RequestsAreInOrder, PTL

(* What was answered is in the audit events, nothing that was refused has  *)
(* changed anything, and who asks for the audit events of a run is told of *)
(* every change that was answered before.                                  *)
THEOREM AuditTrailIsComplete == Spec => []AuditTrailTells
<1>1. IInv => ChangesAreAudited
  <2> SUFFICES ASSUME IInv PROVE ChangesAreAudited
    OBVIOUS
  <2>1. \A e \in done \cup trail : e.by \in Requests
    BY DEF IInv, TypeOK, Entry
  <2>2. ASSUME NEW n \in OkNow, AfterOperation(req[n]) = "record"
        PROVE  \E e \in trail : e.by = n /\ e.tenant = req[n].tenant
    <3>1. EntryOf(n) \in trail
      BY <2>2 DEF OkNow, IInv, RequestOK, TracesOK
    <3> QED BY <3>1 DEF EntryOf
  <2>3. ASSUME NEW e \in trail, req[e.by].route \in Changes
        PROVE  \E d \in done : d.by = e.by /\ d.tenant = e.tenant
    BY <2>1, <2>3 DEF IInv, RequestOK, TracesOK
  <2>4. ASSUME NEW d \in done
        PROVE  /\ req[d.by].pc \notin {"unsent", "refused"}
               /\ faults = 0 => req[d.by].pc \in {"record", "ok"}
    BY <2>1, <2>4 DEF IInv, RequestOK, EffectsOK
  <2> QED BY <2>2, <2>3, <2>4 DEF ChangesAreAudited
<1>2. IInv => TrailIsUpToDate
  BY DEF IInv, RequestOK, HistoryOK, TrailIsUpToDate, OkNow
<1>3. IInv => AuditTrailTells
  BY <1>1, <1>2 DEF AuditTrailTells
<1> QED BY <1>3, RequestsAreInOrder, PTL
-----------------------------------------------------------------------------
(* The exports and the monitoring.                                         *)

(* Steps of a refresh: before it has taken its records, while it carries   *)
(* them, and once its snapshot is stored.                                  *)
Carrying == {"openLatest", "writeLatest", "renameLatest", "snapshot"}
Storing == {"openManifest", "writeManifest", "renameManifest", "prune"}
Refreshing == {"export"} \cup Carrying \cup Storing
TaskNames == {"refresh", "applyAll", "validate", "apply"}
CallFields == {"pc", "plan", "force", "number", "started", "decided", "export", "seen",
               "base", "ask", "runs", "found", "dataset", "todo"}
ExportRecord == [decisions : Nat, updatedAt : Nat, label : Nat \cup {None}]

(* A call that refreshes nothing.                                          *)
Elsewhere(x) ==
    /\ DOMAIN x = CallFields
    /\ x.number = 0 /\ x.pc \notin Refreshing
    /\ x.seen \subseteq Nat /\ IsFiniteSet(x.seen)
    /\ x.plan \in Seq(TaskNames)

ShapeInv ==
    /\ DOMAIN call = Processes /\ DOMAIN writer = Processes
    /\ \A p \in Processes : DOMAIN call[p] = CallFields /\ call[p].plan \in Seq(TaskNames)
    /\ DOMAIN file = {"latest", "manifest", "config"}
    /\ \A name \in DOMAIN file : DOMAIN file[name] = {"now", "tmp"}
RunsInv ==
    /\ run \in [Runs -> RunRecord] /\ clock \in Nat
    /\ \A r \in Runs : Timely(run[r])

(* Whom a process that is about to write has opened its file for.          *)
Opened(p, name) == DOMAIN writer[p] = {"name", "place", "data"} /\ writer[p].name = name
WriterOK(p) ==
    /\ call[p].pc = "writeLatest" => Opened(p, "latest") /\ writer[p].data = call[p].export
    /\ call[p].pc = "writeManifest" => Opened(p, "manifest")
    /\ call[p].pc \in {"writeConfig", "put"} => Opened(p, "config")
WriterInv == \A p \in Processes : WriterOK(p)

(* Refreshes have numbers, in the order in which they started, which is    *)
(* the order of the decisions they found.                                  *)
NumbersInv ==
    /\ IsFiniteSet(DOMAIN snapshots) /\ DOMAIN snapshots \subseteq Nat \ {0}
    /\ \A p \in Processes :
          /\ call[p].number \in Nat
          /\ call[p].seen \subseteq Nat /\ IsFiniteSet(call[p].seen)
          /\ call[p].number # 0 <=> call[p].pc \in Refreshing
    /\ \A p, q \in Processes : call[p].number = call[q].number /\ p # q => call[p].number = 0
FoundInv ==
    \A p \in Processes : call[p].number # 0 =>
        /\ call[p].started \in Nat /\ call[p].started <= clock
        /\ clock - call[p].started <= RetentionTime
        /\ \A r \in Runs : /\ call[p].decided[r] \in Nat
                           /\ call[p].decided[r] <= run[r].decisions
                           /\ call[p].decided[r] > 0 => Exported(r)
OrderInv ==
    \A p, q \in Processes : call[p].number # 0 /\ call[p].number <= call[q].number =>
        /\ call[p].started <= call[q].started
        /\ \A r \in Runs : call[p].decided[r] <= call[q].decided[r]

(* What is exported has what was found, and so have the snapshots of this  *)
(* and of later refreshes.                                                 *)
Has(records, r, n) == r \in DOMAIN records /\ records[r].decisions >= n
TakenInv ==
    \A p \in Processes : call[p].pc \in Carrying =>
        \A r \in Runs : call[p].decided[r] > 0 => Has(call[p].export, r, call[p].decided[r])
SnapshotsInv ==
    /\ \A i \in DOMAIN snapshots : snapshots[i].at \in Nat
    /\ \A p \in Processes, i \in DOMAIN snapshots : call[p].number # 0 /\ call[p].number <= i =>
          /\ call[p].started <= snapshots[i].at
          /\ \A r \in Runs : call[p].decided[r] > 0 =>
                Has(snapshots[i].records, r, call[p].decided[r])
StoredInv ==
    \A p \in Processes : call[p].pc \in Storing =>
        \E i \in DOMAIN snapshots : call[p].number <= i

(* From some snapshot on, all have what was promised, and refreshes that   *)
(* started then have found it.                                             *)
HeldFrom(b, r, n) ==
    /\ \A i \in DOMAIN snapshots : b <= i => Has(snapshots[i].records, r, n)
    /\ \A p \in Processes : b <= call[p].number => call[p].decided[r] >= n
PromisesInv ==
    /\ DOMAIN promised = Runs
    /\ \A r \in Runs : /\ promised[r] \in Nat
                       /\ promised[r] > 0 => Exported(r)
                       /\ promised[r] > 0 =>
                             \E b \in DOMAIN snapshots : HeldFrom(b, r, promised[r])

(* The records that a reader may find, now or later, are each the run's    *)
(* own or an earlier one, and are stamped in the order of its decisions.   *)
Held == {snapshots[i].records : i \in DOMAIN snapshots}
        \cup {call[p].export : p \in {q \in Processes : call[q].pc \in Carrying}}
        \cup {c \in {file.latest.now, file.latest.tmp} : Readable(c)}
Fits(records) ==
    /\ DOMAIN records \subseteq Runs
    /\ \A r \in DOMAIN records :
          /\ records[r] \in ExportRecord
          /\ \/ records[r] = RecordOf(r)
             \/ /\ records[r].decisions < run[r].decisions
                /\ reviewedRecordTimestamp(records[r]) <= reviewedRecordTimestamp(RecordOf(r))
Agree(f, g) ==
    \A r \in DOMAIN f \cap DOMAIN g :
        f[r].decisions <= g[r].decisions =>
            reviewedRecordTimestamp(f[r]) <= reviewedRecordTimestamp(g[r])
HeldInv == /\ \A f \in Held : Fits(f)
           /\ \A f, g \in Held : Agree(f, g)

RefreshInv == NumbersInv /\ FoundInv /\ OrderInv /\ TakenInv /\ SnapshotsInv /\ StoredInv
              /\ PromisesInv /\ HeldInv
ExportsInv == ShapeInv /\ RunsInv /\ WriterInv /\ RefreshInv
-----------------------------------------------------------------------------
(* The invariant is enough: of the records a reader finds of a run the     *)
(* last stamped is the newest.                                             *)
LEMMA BestSource ==
  ASSUME NEW S, IsFiniteSet(S), S # {}, S \subseteq Nat, NEW F, \A i \in S : F[i] \in Int
  PROVE  \E i \in S : \A j \in S : F[i] > F[j] \/ (F[i] = F[j] /\ i >= j)
  <1> DEFINE T == {F[i] : i \in S}
  <1>1. IsFiniteSet(T) /\ T # {} /\ T \subseteq Int
    BY ImageFinite
  <1> HIDE DEF T
  <1>2. Max(T) \in T /\ \A t \in T : t <= Max(T)
    BY <1>1, Extremes
  <1> DEFINE M == {i \in S : F[i] = Max(T)}
  <1>3. M \in SUBSET S /\ M # {}
    BY <1>2 DEF T
  <1> HIDE DEF M
  <1>4. IsFiniteSet(M) /\ M \subseteq Int
    <2>1. IsFiniteSet(M)
      BY <1>3, FS_Subset
    <2>2. M \subseteq S
      BY <1>3
    <2>3. QED
      BY <2>1, <2>2
  <1>5. Max(M) \in M /\ \A i \in M : i <= Max(M)
    BY <1>3, <1>4, Extremes
  <1>6. PICK b \in S : b = Max(M) /\ F[b] = Max(T)
    BY <1>5 DEF M
  <1>7. ASSUME NEW j \in S PROVE F[b] > F[j] \/ (F[b] = F[j] /\ b >= j)
    <2>1. F[j] <= F[b]
      BY <1>2, <1>6 DEF T
    <2>2. F[j] = F[b] => j <= b
      BY <1>5, <1>6 DEF M
    <2>3. QED
      BY <2>1, <2>2
  <1>8. QED
    BY <1>7

LEMMA StampType ==
  ASSUME NEW x \in ExportRecord
  PROVE  reviewedRecordTimestamp(x) \in Nat
  BY DEF ExportRecord, reviewedRecordTimestamp

LEMMA RecordType ==
  ASSUME RunsInv, NEW r \in Runs
  PROVE  /\ RecordOf(r) \in ExportRecord /\ RecordOf(r).decisions = run[r].decisions
         /\ run[r] \in RunRecord
         /\ reviewedRecordTimestamp(RecordOf(r)) <= clock
  BY DEF RunsInv, RunRecord, RecordOf, ExportRecord, Timely, reviewedRecordTimestamp

LEMMA InvariantReads ==
  ASSUME ExportsInv
  PROVE  ExportsAreRead
  <1> DEFINE sources == resolveReviewedDatasetFiles
             loaded == loadReviewedExportRecords(sources)
  <1> SUFFICES ASSUME ~LoadThrows(sources), NEW r \in Runs, promised[r] > 0
               PROVE  r \in DOMAIN loaded /\ loaded[r].decisions >= promised[r]
    BY DEF ExportsAreRead
  <1> DEFINE n == promised[r]
             having == {i \in sources : r \in DOMAIN RecordsIn(i)}
             Stamp(i) == reviewedRecordTimestamp(RecordsIn(i)[r])
             stamp == [i \in having |-> Stamp(i)]
             Best(i) == \A j \in having : Stamp(i) > Stamp(j) \/ (Stamp(i) = Stamp(j) /\ i >= j)
  <1>1. PICK b \in DOMAIN snapshots : \A i \in DOMAIN snapshots : b <= i => Has(snapshots[i].records, r, n)
    BY DEF ExportsInv, RefreshInv, PromisesInv, HeldFrom
  <1>2. DOMAIN snapshots \subseteq Nat \ {0} /\ IsFiniteSet(DOMAIN snapshots) /\ n \in Nat
    BY DEF ExportsInv, RefreshInv, NumbersInv, PromisesInv
  <1>3. /\ IsFiniteSet(sources) /\ sources \subseteq Nat
        /\ DOMAIN snapshots \subseteq sources /\ sources \subseteq {0} \cup DOMAIN snapshots
        /\ 0 \in sources => file.latest.now \notin {None, Torn}
    <2>1. sources \in SUBSET (DOMAIN snapshots \cup {0})
      BY DEF resolveReviewedDatasetFiles
    <2>2. IsFiniteSet(sources)
      BY <1>2, <2>1, FS_AddElement, FS_Subset
    <2>3. 0 \in sources => file.latest.now \notin {None, Torn}
      BY <1>2 DEF LoadThrows, resolveReviewedDatasetFiles
    <2>4. QED
      BY <1>2, <2>1, <2>2, <2>3 DEF resolveReviewedDatasetFiles
  <1> HIDE DEF sources
  <1>4. \A i \in DOMAIN snapshots : RecordsIn(i) = snapshots[i].records
    BY <1>2 DEF RecordsIn
  <1>5. \A i \in having : RecordsIn(i) \in Held
    <2>1. ASSUME NEW i \in having PROVE RecordsIn(i) \in Held
      <3>1. CASE i \in DOMAIN snapshots
        BY <1>4, <3>1 DEF Held
      <3>2. CASE i = 0
        <4>1. Readable(file.latest.now) /\ RecordsIn(i) = file.latest.now
          BY <1>3, <3>2 DEF RecordsIn, Readable
        <4>2. QED
          BY <4>1 DEF Held
      <3>3. QED
        BY <1>3, <3>1, <3>2
    <2>2. QED
      BY <2>1
  <1>6. \A i \in having : r \in DOMAIN RecordsIn(i) /\ RecordsIn(i)[r] \in ExportRecord /\ stamp[i] \in Nat
    BY <1>5, StampType DEF ExportsInv, RefreshInv, HeldInv, Fits
  <1>7. b \in having /\ RecordsIn(b)[r].decisions >= n
    BY <1>1, <1>2, <1>3, <1>4 DEF Has
  <1>8. having \in SUBSET sources /\ having # {}
    BY <1>7
  <1>9. IsFiniteSet(having) /\ having \subseteq Nat
    BY <1>3, <1>8, FS_Subset
  <1> HIDE DEF having
  <1>10. \E i \in having : Best(i)
    <2>1. \A i \in having : stamp[i] \in Int /\ stamp[i] = Stamp(i)
      BY <1>6
    <2> HIDE DEF stamp
    <2>2. \E i \in having : \A j \in having :
             stamp[i] > stamp[j] \/ (stamp[i] = stamp[j] /\ i >= j)
      BY <1>8, <1>9, <2>1, BestSource
    <2>3. QED
      BY <2>1, <2>2
  <1> DEFINE c == CHOOSE i \in having : Best(i)
  <1>11. c \in having /\ Best(c)
    BY <1>10
  <1>12. r \in DOMAIN loaded /\ loaded[r] = Merged(sources, r)
    BY <1>7, <1>8 DEF loadReviewedExportRecords, having
  <1>13. Merged(sources, r) = RecordsIn(c)[r]
    BY Zenon DEF Merged, having
  <1> HIDE DEF c
  <1>14. RecordsIn(c)[r].decisions >= n
    <2>1. CASE c >= b
      <3>1. c \in DOMAIN snapshots
        BY <1>2, <1>3, <1>8, <1>11, <2>1
      <3>2. QED
        BY <1>1, <1>4, <2>1, <3>1 DEF Has
    <2>2. CASE ~(c >= b)
      <3>1. stamp[c] > stamp[b] /\ stamp[c] = Stamp(c) /\ stamp[b] = Stamp(b)
        BY <1>7, <1>9, <1>11, <2>2
      <3>2. /\ RecordsIn(b) \in Held /\ RecordsIn(c) \in Held
            /\ r \in DOMAIN RecordsIn(c) \cap DOMAIN RecordsIn(b)
            /\ RecordsIn(b)[r].decisions \in Nat /\ RecordsIn(c)[r].decisions \in Nat
            /\ stamp[b] \in Nat /\ stamp[c] \in Nat
        BY <1>5, <1>6, <1>7, <1>11 DEF ExportRecord
      <3>3. RecordsIn(c)[r].decisions <= RecordsIn(b)[r].decisions => stamp[c] <= stamp[b]
        BY <1>7, <1>11, <3>2 DEF ExportsInv, RefreshInv, HeldInv, Agree
      <3> HIDE DEF stamp
      <3>4. RecordsIn(c)[r].decisions > RecordsIn(b)[r].decisions
        BY <3>1, <3>2, <3>3
      <3>5. QED
        BY <1>2, <1>7, <3>2, <3>4
    <2>3. QED
      BY <2>1, <2>2
  <1>15. QED
    BY <1>12, <1>13, <1>14
-----------------------------------------------------------------------------
(* A step that leaves runs, time and snapshots alone.                      *)
SameRefresh(p) ==
    /\ call'[p].number = call[p].number /\ call'[p].started = call[p].started
    /\ call'[p].decided = call[p].decided /\ call'[p].export = call[p].export
    /\ call'[p].seen = call[p].seen
    /\ \/ call'[p].pc = call[p].pc
       \/ {call[p].pc, call'[p].pc} \subseteq Carrying
       \/ {call[p].pc, call'[p].pc} \subseteq Storing
Onward == \A p \in Processes : Elsewhere(call'[p]) \/ SameRefresh(p)
LatestHeld == \A c \in {file'.latest.now, file'.latest.tmp} : Readable(c) => c \in Held

LEMMA Onwards ==
  ASSUME RefreshInv, Onward
  PROVE  \A p \in Processes :
            /\ call'[p].number \in Nat /\ call'[p].seen \subseteq Nat /\ IsFiniteSet(call'[p].seen)
            /\ call'[p].number # 0 <=> call'[p].pc \in Refreshing
            /\ call'[p].number # 0 => SameRefresh(p)
            /\ call'[p].pc \in Carrying => call[p].pc \in Carrying /\ SameRefresh(p)
            /\ call'[p].pc \in Storing => call[p].pc \in Storing /\ SameRefresh(p)
  <1> SUFFICES ASSUME NEW p \in Processes
               PROVE  /\ call'[p].number \in Nat /\ call'[p].seen \subseteq Nat
                      /\ IsFiniteSet(call'[p].seen)
                      /\ call'[p].number # 0 <=> call'[p].pc \in Refreshing
                      /\ call'[p].number # 0 => SameRefresh(p)
                      /\ call'[p].pc \in Carrying => call[p].pc \in Carrying /\ SameRefresh(p)
                      /\ call'[p].pc \in Storing => call[p].pc \in Storing /\ SameRefresh(p)
    OBVIOUS
  <1>1. CASE Elsewhere(call'[p])
    BY <1>1 DEF Elsewhere, Refreshing
  <1>2. CASE SameRefresh(p)
    BY <1>2 DEF SameRefresh, RefreshInv, NumbersInv, Refreshing, Carrying, Storing
  <1>3. QED
    BY <1>1, <1>2 DEF Onward

LEMMA Unmoved ==
  ASSUME RunsInv, RefreshInv, Onward, LatestHeld,
         run' = run, clock' = clock, snapshots' = snapshots, promised' = promised
  PROVE  RefreshInv'
  <1>0. \A p \in Processes :
            /\ call'[p].number # 0 => call[p].number # 0 /\ SameRefresh(p)
            /\ call'[p].pc \in Carrying => call[p].pc \in Carrying /\ SameRefresh(p)
            /\ call'[p].pc \in Storing => call[p].pc \in Storing /\ SameRefresh(p)
    BY Onwards DEF SameRefresh
  <1>1. NumbersInv'
    <2>1. ASSUME NEW p \in Processes, NEW q \in Processes, call'[p].number = call'[q].number,
                 p # q, call'[p].number # 0
          PROVE  FALSE
      <3>1. call[p].number = call[q].number /\ call[p].number # 0
        BY <1>0, <2>1 DEF SameRefresh
      <3>2. QED
        BY <2>1, <3>1 DEF RefreshInv, NumbersInv
    <2>2. QED
      BY <2>1, Onwards DEF RefreshInv, NumbersInv
  <1>2. FoundInv'
    <2> SUFFICES ASSUME NEW p \in Processes, call'[p].number # 0
                 PROVE  /\ call'[p].started \in Nat /\ call'[p].started <= clock
                        /\ clock - call'[p].started <= RetentionTime
                        /\ \A r \in Runs : /\ call'[p].decided[r] \in Nat
                                           /\ call'[p].decided[r] <= run[r].decisions
                                           /\ call'[p].decided[r] > 0 => Exported(r)
      BY DEF FoundInv, Exported, Reviewed
    <2>1. QED
      BY <1>0 DEF RefreshInv, FoundInv, SameRefresh
  <1>3. OrderInv'
    <2> SUFFICES ASSUME NEW p \in Processes, NEW q \in Processes, call'[p].number # 0,
                        call'[p].number <= call'[q].number
                 PROVE  /\ call'[p].started <= call'[q].started
                        /\ \A r \in Runs : call'[p].decided[r] <= call'[q].decided[r]
      BY DEF OrderInv
    <2>1. call'[q].number # 0
      BY Onwards
    <2>2. QED
      BY <1>0, <2>1 DEF RefreshInv, OrderInv, SameRefresh
  <1>4. TakenInv'
    BY <1>0 DEF RefreshInv, TakenInv, SameRefresh, Has
  <1>5. SnapshotsInv'
    <2> SUFFICES ASSUME NEW p \in Processes, NEW i \in DOMAIN snapshots, call'[p].number # 0,
                        call'[p].number <= i
                 PROVE  /\ call'[p].started <= snapshots[i].at
                        /\ \A r \in Runs : call'[p].decided[r] > 0 =>
                              Has(snapshots[i].records, r, call'[p].decided[r])
      BY DEF RefreshInv, SnapshotsInv, Has
    <2>1. QED
      BY <1>0 DEF RefreshInv, SnapshotsInv, SameRefresh
  <1>6. StoredInv'
    BY <1>0 DEF RefreshInv, StoredInv, SameRefresh
  <1>7. PromisesInv'
    <2> SUFFICES ASSUME NEW r \in Runs, promised[r] > 0
                 PROVE  \E b \in DOMAIN snapshots : HeldFrom(b, r, promised[r])'
      BY DEF RefreshInv, PromisesInv, Exported, Reviewed
    <2>1. PICK b \in DOMAIN snapshots : HeldFrom(b, r, promised[r])
      BY DEF RefreshInv, PromisesInv
    <2>2. \A p \in Processes : b <= call'[p].number => call'[p].decided[r] >= promised[r]
      <3>1. ASSUME NEW p \in Processes, b <= call'[p].number PROVE call'[p].number # 0
        BY <3>1, Onwards DEF RefreshInv, NumbersInv
      <3>2. QED
        BY <1>0, <2>1, <3>1 DEF HeldFrom, SameRefresh
    <2>3. HeldFrom(b, r, promised[r])'
      BY <2>1, <2>2 DEF HeldFrom, Has
    <2>4. QED
      BY <2>3
  <1>8. HeldInv'
    <2>1. Held' \subseteq Held
      <3>1. ASSUME NEW p \in Processes, call'[p].pc \in Carrying PROVE call'[p].export \in Held
        <4>1. call[p].pc \in Carrying /\ call'[p].export = call[p].export
          BY <1>0, <3>1 DEF SameRefresh
        <4>2. QED
          BY <4>1 DEF Held
      <3>2. \A i \in DOMAIN snapshots : snapshots[i].records \in Held
        BY DEF Held
      <3>3. QED
        BY <3>1, <3>2 DEF Held, LatestHeld, Readable
    <2>2. \A f \in Held : Fits(f)'
      BY DEF RefreshInv, HeldInv, Fits, RecordOf
    <2>3. QED
      BY <2>1, <2>2 DEF RefreshInv, HeldInv, Agree
  <1>9. QED
    BY <1>1, <1>2, <1>3, <1>4, <1>5, <1>6, <1>7, <1>8 DEF RefreshInv
-----------------------------------------------------------------------------
(* A step of one call that leaves runs, time and snapshots alone.          *)
FilesStay == /\ DOMAIN file' = {"latest", "manifest", "config"}
             /\ \A name \in DOMAIN file' : DOMAIN file'[name] = {"now", "tmp"}
WritersStay(p) ==
    /\ DOMAIN writer' = Processes
    /\ \A q \in Processes \ {p} : \A name :
          Opened(q, name) => Opened(q, name)' /\ writer'[q].data = writer[q].data

LEMMA CallStep ==
  ASSUME ExportsInv, NEW p \in Processes, NEW x, Proceed(p, x),
         DOMAIN x = CallFields, x.plan \in Seq(TaskNames), Elsewhere(x) \/ SameRefresh(p),
         LatestHeld, FilesStay, WritersStay(p), WriterOK(p)',
         run' = run, clock' = clock, snapshots' = snapshots, promised' = promised
  PROVE  ExportsInv'
  <1>1. /\ DOMAIN call = Processes /\ DOMAIN call' = Processes /\ call'[p] = x
        /\ \A q \in Processes \ {p} : call'[q] = call[q]
    BY DEF Proceed, ExportsInv, ShapeInv
  <1>2. Onward
    BY <1>1 DEF Onward, SameRefresh
  <1>3. RefreshInv'
    BY <1>2, Unmoved DEF ExportsInv
  <1>4. ShapeInv'
    BY <1>1 DEF ExportsInv, ShapeInv, FilesStay, WritersStay
  <1>5. RunsInv'
    BY DEF ExportsInv, RunsInv, Timely
  <1>6. WriterInv'
    <2> SUFFICES ASSUME NEW q \in Processes, q # p PROVE WriterOK(q)'
      BY DEF WriterInv
    <2>1. WriterOK(q) /\ call'[q] = call[q]
      BY <1>1 DEF ExportsInv, WriterInv
    <2>2. \A name : Opened(q, name) => Opened(q, name)' /\ writer'[q].data = writer[q].data
      BY DEF WritersStay
    <2>3. QED
      BY <2>1, <2>2 DEF WriterOK
  <1>7. QED
    BY <1>3, <1>4, <1>5, <1>6 DEF ExportsInv

LEMMA IdleRests ==
  /\ DOMAIN Idle = CallFields /\ Idle.plan \in Seq(TaskNames) /\ Elsewhere(Idle)
  /\ Idle.pc = "idle"
  <1>1. IsFiniteSet({}) /\ << >> \in Seq(TaskNames)
    BY FS_EmptySet
  <1>2. DOMAIN Idle = CallFields
    BY DEF Idle, CallFields
  <1>3. QED
    BY <1>1, <1>2 DEF Idle, Elsewhere, Refreshing, Carrying, Storing

(* What a call is about to do when it has ended a task.                    *)
Resting(x) ==
    /\ DOMAIN x = CallFields /\ x.plan \in Seq(TaskNames) /\ Elsewhere(x)
    /\ x.pc \in {"idle"} \cup TaskNames

LEMMA NextTaskRests ==
  ASSUME ShapeInv, NEW p \in Processes
  PROVE  Resting(NextTask(p))
  <1> DEFINE plan == call[p].plan
  <1>1. plan \in Seq(TaskNames)
    BY DEF ShapeInv
  <1>2. CASE Len(plan) <= 1
    BY <1>2, IdleRests DEF NextTask, Resting
  <1>3. CASE ~(Len(plan) <= 1)
    <2>1. Tail(plan) \in Seq(TaskNames) /\ Tail(plan) # << >>
      BY <1>1, <1>3
    <2>2. Head(Tail(plan)) \in TaskNames
      BY <2>1
    <2>3. PICK x : x = [Idle EXCEPT !.plan = Tail(plan), !.force = call[p].force,
                                   !.pc = Head(Tail(plan))]
      OBVIOUS
    <2>4. /\ DOMAIN x = CallFields /\ x.plan = Tail(plan) /\ x.pc = Head(Tail(plan))
          /\ x.number = Idle.number /\ x.seen = Idle.seen
      BY <2>3, IdleRests DEF CallFields
    <2>5. Resting(x)
      BY <2>1, <2>2, <2>4, IdleRests DEF Resting, Elsewhere, TaskNames, Refreshing, Carrying, Storing
    <2>6. QED
      BY <1>3, <2>3, <2>5 DEF NextTask
  <1>4. QED
    BY <1>2, <1>3

LEMMA SameFiles ==
  ASSUME ExportsInv, file' = file
  PROVE  FilesStay /\ LatestHeld
  BY DEF ExportsInv, ShapeInv, FilesStay, LatestHeld, Held

LEMMA SameWriters ==
  ASSUME ExportsInv, NEW p, writer' = writer
  PROVE  WritersStay(p)
  BY DEF ExportsInv, ShapeInv, WritersStay, Opened

(* The call goes on with nothing open.                                     *)
LEMMA RestStep ==
  ASSUME ExportsInv, NEW p \in Processes, NEW x, Proceed(p, x), Resting(x),
         LatestHeld, FilesStay, WritersStay(p),
         run' = run, clock' = clock, snapshots' = snapshots, promised' = promised
  PROVE  ExportsInv'
  <1>1. call'[p] = x
    BY DEF Proceed, ExportsInv, ShapeInv
  <1>2. WriterOK(p)'
    BY <1>1 DEF WriterOK, Resting, TaskNames
  <1>3. QED
    BY <1>2, CallStep DEF Resting

LEMMA ExitStep ==
  ASSUME ExportsInv, Exit, file' = file, run' = run, clock' = clock, snapshots' = snapshots,
         promised' = promised
  PROVE  ExportsInv'
  <1>1. /\ DOMAIN call' = Processes /\ DOMAIN writer' = Processes
        /\ \A q \in Processes : call'[q] = Idle
    BY DEF Exit
  <1>2. Onward
    BY <1>1, IdleRests DEF Onward
  <1>3. RefreshInv'
    BY <1>2, Unmoved, SameFiles DEF ExportsInv
  <1>4. ShapeInv'
    BY <1>1, IdleRests DEF ExportsInv, ShapeInv
  <1>5. RunsInv'
    BY DEF ExportsInv, RunsInv, Timely
  <1>6. WriterInv'
    BY <1>1, IdleRests DEF WriterInv, WriterOK
  <1>7. QED
    BY <1>3, <1>4, <1>5, <1>6 DEF ExportsInv

LEMMA ThrowStep ==
  ASSUME ExportsInv, NEW p \in Processes, Throw(p), file' = file, run' = run, clock' = clock,
         snapshots' = snapshots, promised' = promised
  PROVE  ExportsInv'
  <1>1. CASE p = Worker
    BY <1>1, ExitStep DEF Throw
  <1>2. CASE p # Worker
    <2>1. Proceed(p, Idle) /\ writer' = [writer EXCEPT ![p] = None]
      BY <1>2 DEF Throw
    <2>2. WritersStay(p)
      BY <2>1 DEF WritersStay, Opened, ExportsInv, ShapeInv
    <2>3. Resting(Idle)
      BY IdleRests DEF Resting
    <2>4. QED
      BY <2>1, <2>2, <2>3, RestStep, SameFiles
  <1>3. QED
    BY <1>1, <1>2

(* Whoever leaves a task leaves nothing behind.                            *)
LEMMA LeaveStep ==
  ASSUME ExportsInv, NEW p \in Processes, Proceed(p, NextTask(p)), writer' = writer, file' = file,
         run' = run, clock' = clock, snapshots' = snapshots, promised' = promised
  PROVE  ExportsInv'
  BY RestStep, NextTaskRests, SameFiles, SameWriters DEF ExportsInv

(* A step that opens nothing, of a call that refreshes nothing.            *)
LEMMA LocalStep ==
  ASSUME ExportsInv, NEW p \in Processes, NEW x, Proceed(p, x), Elsewhere(x),
         x.pc \notin {"writeConfig", "put"}, writer' = writer, file' = file,
         run' = run, clock' = clock, snapshots' = snapshots, promised' = promised
  PROVE  ExportsInv'
  <1>1. call'[p] = x
    BY DEF Proceed, ExportsInv, ShapeInv
  <1>2. WriterOK(p)'
    BY <1>1 DEF WriterOK, Elsewhere, Refreshing, Carrying, Storing
  <1>3. FilesStay /\ LatestHeld /\ WritersStay(p)
    BY SameFiles, SameWriters
  <1>4. QED
    BY <1>2, <1>3, CallStep DEF Elsewhere
-----------------------------------------------------------------------------
(* Files.                                                                  *)
LEMMA OpensFile ==
  ASSUME ExportsInv, NEW p \in Processes, NEW name \in {"latest", "manifest", "config"},
         NEW place \in {"now", "tmp"}, NEW data, Open(p, name, place, data)
  PROVE  /\ FilesStay /\ LatestHeld /\ WritersStay(p)
         /\ Opened(p, name)' /\ writer'[p].data = data
  <1>1. DOMAIN file = {"latest", "manifest", "config"} /\ DOMAIN writer = Processes
    BY DEF ExportsInv, ShapeInv
  <1>2. FilesStay
    BY <1>1 DEF Open, FilesStay, ExportsInv, ShapeInv
  <1>3. LatestHeld
    <2>1. /\ file'.latest.now \in {file.latest.now, Empty}
          /\ file'.latest.tmp \in {file.latest.tmp, Empty}
      BY <1>1 DEF Open, ExportsInv, ShapeInv
    <2>2. QED
      BY <2>1 DEF LatestHeld, Held, Readable
  <1>4. WritersStay(p)
    BY <1>1 DEF Open, WritersStay, Opened
  <1>5. writer'[p] = [name |-> name, place |-> place, data |-> data]
    BY <1>1 DEF Open
  <1>6. QED
    BY <1>2, <1>3, <1>4, <1>5 DEF Opened

LEMMA WritesFile ==
  ASSUME ExportsInv, NEW p \in Processes, Write(p),
         NEW name \in {"latest", "manifest", "config"}, Opened(p, name),
         name = "latest" => writer[p].data \in Held
  PROVE  FilesStay /\ LatestHeld /\ WritersStay(p)
  <1>1. DOMAIN file = {"latest", "manifest", "config"} /\ DOMAIN writer = Processes
        /\ writer' = [writer EXCEPT ![p] = None] /\ writer[p].name = name
    BY DEF ExportsInv, ShapeInv, Write, Opened
  <1>2. WritersStay(p)
    BY <1>1 DEF WritersStay, Opened
  <1>3. CASE file' = file
    BY <1>2, <1>3, SameFiles
  <1>4. CASE file' # file
    <2>1. PICK content \in {writer[p].data, Torn} :
             file' = [file EXCEPT ![name][writer[p].place] = content]
      BY <1>1, <1>4 DEF Write, Overwritten
    <2>2. FilesStay
      BY <1>1, <2>1 DEF FilesStay, ExportsInv, ShapeInv
    <2>3. /\ file'.latest.now \in {file.latest.now, content}
          /\ file'.latest.tmp \in {file.latest.tmp, content}
          /\ name # "latest" => file'.latest = file.latest
      BY <1>1, <2>1 DEF ExportsInv, ShapeInv
    <2>4. Readable(content) /\ name = "latest" => content \in Held
      BY <2>1 DEF Readable
    <2>5. LatestHeld
      BY <2>3, <2>4 DEF LatestHeld, Held
    <2>6. QED
      BY <1>2, <2>2, <2>5
  <1>5. QED
    BY <1>3, <1>4

LEMMA RenamesFile ==
  ASSUME ExportsInv, NEW p \in Processes, NEW name \in {"latest", "manifest"}, Rename(name)
  PROVE  FilesStay /\ LatestHeld /\ WritersStay(p)
  <1>1. DOMAIN file = {"latest", "manifest", "config"} /\ DOMAIN writer = Processes
    BY DEF ExportsInv, ShapeInv
  <1>2. FilesStay
    BY <1>1 DEF Rename, FilesStay, ExportsInv, ShapeInv
  <1>3. file'.latest \in {file.latest, [now |-> file.latest.tmp, tmp |-> None]}
    BY <1>1 DEF Rename
  <1>4. LatestHeld
    BY <1>3 DEF LatestHeld, Held, Readable
  <1>5. ASSUME NEW q \in Processes, NEW n, Opened(q, n)
        PROVE  Opened(q, n)' /\ writer'[q].data = writer[q].data
    <2>1. writer'[q] = Moved(writer[q], name)
      BY DEF Rename
    <2>2. DOMAIN writer[q] = {"name", "place", "data"} /\ writer[q].name = n
      BY <1>5 DEF Opened
    <2>3. /\ DOMAIN Moved(writer[q], name) = {"name", "place", "data"}
          /\ Moved(writer[q], name).name = n /\ Moved(writer[q], name).data = writer[q].data
      BY <2>2 DEF Moved
    <2>4. QED
      BY <2>1, <2>3 DEF Opened
  <1>6. DOMAIN writer' = Processes
    BY DEF Rename
  <1>7. QED
    BY <1>2, <1>4, <1>5, <1>6 DEF WritersStay
-----------------------------------------------------------------------------
(* Steps of a refresh that no other call sees but through its files.       *)
LEMMA CarriesOn ==
  ASSUME ExportsInv, NEW p \in Processes, NEW next, NEW class \in {Carrying, Storing},
         {call[p].pc, next} \subseteq class, Proceed(p, [call[p] EXCEPT !.pc = next]),
         LatestHeld, FilesStay, WritersStay(p),
         next = "writeLatest" => Opened(p, "latest")' /\ writer'[p].data = call[p].export,
         next = "writeManifest" => Opened(p, "manifest")',
         run' = run, clock' = clock, snapshots' = snapshots, promised' = promised
  PROVE  ExportsInv'
  <1>1. PICK x : x = [call[p] EXCEPT !.pc = next]
    OBVIOUS
  <1>2. DOMAIN call[p] = CallFields /\ call[p].plan \in Seq(TaskNames)
    BY DEF ExportsInv, ShapeInv
  <1>3. /\ DOMAIN x = CallFields /\ x.plan \in Seq(TaskNames) /\ x.pc = next
        /\ x.number = call[p].number /\ x.started = call[p].started /\ x.decided = call[p].decided
        /\ x.export = call[p].export /\ x.seen = call[p].seen
    BY <1>1, <1>2 DEF CallFields
  <1>4. call'[p] = x
    BY <1>1 DEF Proceed, ExportsInv, ShapeInv
  <1>5. SameRefresh(p)
    BY <1>3, <1>4 DEF SameRefresh
  <1>6. WriterOK(p)'
    BY <1>3, <1>4 DEF WriterOK, Carrying, Storing
  <1>7. Proceed(p, x)
    BY <1>1
  <1>8. QED
    BY <1>3, <1>5, <1>6, <1>7, CallStep

LEMMA RefreshFiles ==
  ASSUME ExportsInv, NEW p \in Processes,
         \/ OpenTemporary(p, "latest", "openLatest", "writeLatest", call[p].export)
         \/ WriteTemporary(p, "writeLatest", "renameLatest")
         \/ RenameTemporary(p, "latest", "renameLatest", "snapshot")
         \/ OpenTemporary(p, "manifest", "openManifest", "writeManifest", buildManifest(p))
         \/ WriteTemporary(p, "writeManifest", "renameManifest")
         \/ RenameTemporary(p, "manifest", "renameManifest", "prune")
  PROVE  ExportsInv'
  <1>1. CASE OpenTemporary(p, "latest", "openLatest", "writeLatest", call[p].export)
    <2>1. /\ call[p].pc = "openLatest" /\ Open(p, "latest", "tmp", call[p].export)
          /\ Proceed(p, [call[p] EXCEPT !.pc = "writeLatest"])
          /\ run' = run /\ clock' = clock /\ snapshots' = snapshots /\ promised' = promised
      BY <1>1 DEF OpenTemporary
    <2>2. {call[p].pc, "writeLatest"} \subseteq Carrying
      BY <2>1 DEF Carrying
    <2>3. /\ FilesStay /\ LatestHeld /\ WritersStay(p)
          /\ Opened(p, "latest")' /\ writer'[p].data = call[p].export
      BY <2>1, OpensFile
    <2>4. QED
      BY <2>1, <2>2, <2>3, CarriesOn
  <1>2. CASE WriteTemporary(p, "writeLatest", "renameLatest")
    <2>1. /\ call[p].pc = "writeLatest" /\ Write(p)
          /\ Proceed(p, [call[p] EXCEPT !.pc = "renameLatest"])
          /\ run' = run /\ clock' = clock /\ snapshots' = snapshots /\ promised' = promised
      BY <1>2 DEF WriteTemporary
    <2>2. {call[p].pc, "renameLatest"} \subseteq Carrying
      BY <2>1 DEF Carrying
    <2>3. Opened(p, "latest") /\ writer[p].data \in Held
      BY <2>1 DEF ExportsInv, WriterInv, WriterOK, Held, Carrying
    <2>4. FilesStay /\ LatestHeld /\ WritersStay(p)
      BY <2>1, <2>3, WritesFile
    <2>5. QED
      BY <2>1, <2>2, <2>4, CarriesOn
  <1>3. CASE RenameTemporary(p, "latest", "renameLatest", "snapshot")
    <2>1. /\ call[p].pc = "renameLatest"
          /\ run' = run /\ clock' = clock /\ snapshots' = snapshots /\ promised' = promised
      BY <1>3 DEF RenameTemporary
    <2>2. CASE Throw(p) /\ file' = file
      BY <2>1, <2>2, ThrowStep
    <2>3. CASE Rename("latest") /\ Proceed(p, [call[p] EXCEPT !.pc = "snapshot"])
      <3>1. {call[p].pc, "snapshot"} \subseteq Carrying
        BY <2>1 DEF Carrying
      <3>2. QED
        BY <2>1, <2>3, <3>1, RenamesFile, CarriesOn
    <2>4. QED
      BY <1>3, <2>2, <2>3 DEF RenameTemporary
  <1>4. CASE OpenTemporary(p, "manifest", "openManifest", "writeManifest", buildManifest(p))
    <2>1. /\ call[p].pc = "openManifest" /\ Open(p, "manifest", "tmp", buildManifest(p))
          /\ Proceed(p, [call[p] EXCEPT !.pc = "writeManifest"])
          /\ run' = run /\ clock' = clock /\ snapshots' = snapshots /\ promised' = promised
      BY <1>4 DEF OpenTemporary
    <2>2. {call[p].pc, "writeManifest"} \subseteq Storing
      BY <2>1 DEF Storing
    <2>3. FilesStay /\ LatestHeld /\ WritersStay(p) /\ Opened(p, "manifest")'
      BY <2>1, OpensFile
    <2>4. QED
      BY <2>1, <2>2, <2>3, CarriesOn
  <1>5. CASE WriteTemporary(p, "writeManifest", "renameManifest")
    <2>1. /\ call[p].pc = "writeManifest" /\ Write(p)
          /\ Proceed(p, [call[p] EXCEPT !.pc = "renameManifest"])
          /\ run' = run /\ clock' = clock /\ snapshots' = snapshots /\ promised' = promised
      BY <1>5 DEF WriteTemporary
    <2>2. {call[p].pc, "renameManifest"} \subseteq Storing
      BY <2>1 DEF Storing
    <2>3. Opened(p, "manifest")
      BY <2>1 DEF ExportsInv, WriterInv, WriterOK
    <2>4. FilesStay /\ LatestHeld /\ WritersStay(p)
      BY <2>1, <2>3, WritesFile
    <2>5. QED
      BY <2>1, <2>2, <2>4, CarriesOn
  <1>6. CASE RenameTemporary(p, "manifest", "renameManifest", "prune")
    <2>1. /\ call[p].pc = "renameManifest"
          /\ run' = run /\ clock' = clock /\ snapshots' = snapshots /\ promised' = promised
      BY <1>6 DEF RenameTemporary
    <2>2. CASE Throw(p) /\ file' = file
      BY <2>1, <2>2, ThrowStep
    <2>3. CASE Rename("manifest") /\ Proceed(p, [call[p] EXCEPT !.pc = "prune"])
      <3>1. {call[p].pc, "prune"} \subseteq Storing
        BY <2>1 DEF Storing
      <3>2. QED
        BY <2>1, <2>3, <3>1, RenamesFile, CarriesOn
    <2>4. QED
      BY <1>6, <2>2, <2>3 DEF RenameTemporary
  <1>7. QED
    BY <1>1, <1>2, <1>3, <1>4, <1>5, <1>6
-----------------------------------------------------------------------------
(* A refresh starts: closing the gaps keeps the order of the numbers.      *)
LEMMA NumbersKeepOrder ==
  ASSUME NumbersInv, IsFiniteSet(Processes)
  PROVE  /\ NumbersInUse \subseteq Nat /\ Newest \in Nat \ {0}
         /\ \A i \in NumbersInUse : /\ Renumbered(i) \in Nat /\ Renumbered(i) < Newest
                                    /\ Renumbered(i) = 0 <=> i = 0
         /\ \A i, j \in NumbersInUse : i <= j <=> Renumbered(i) <= Renumbered(j)
  <1> DEFINE S == NumbersInUse \ {0}
             Below(i) == {j \in S : j <= i}
  <1>1. IsFiniteSet(NumbersInUse) /\ NumbersInUse \subseteq Nat
    <2> DEFINE numbers == [p \in Processes |-> call[p].number]
               lists == [p \in Processes |-> call[p].seen]
               A == {numbers[p] : p \in Processes}
               B == {lists[p] : p \in Processes}
    <2>1. IsFiniteSet(A) /\ A = {call[p].number : p \in Processes}
      <3>1. IsFiniteSet({numbers[p] : p \in Processes})
        BY ImageFinite
      <3>2. QED
        BY <3>1
    <2>2. IsFiniteSet(B) /\ B = {call[p].seen : p \in Processes}
      <3>1. IsFiniteSet({lists[p] : p \in Processes})
        BY ImageFinite
      <3>2. QED
        BY <3>1
    <2>3. \A T \in B : IsFiniteSet(T) /\ T \subseteq Nat
      BY DEF NumbersInv
    <2> HIDE DEF B, A
    <2>4. IsFiniteSet(UNION B)
      BY <2>2, <2>3, FS_UNION
    <2>5. NumbersInUse = DOMAIN snapshots \cup A \cup UNION B
      BY <2>1, <2>2 DEF NumbersInUse
    <2>6. A \subseteq Nat /\ UNION B \subseteq Nat /\ DOMAIN snapshots \subseteq Nat
      BY <2>1, <2>3 DEF NumbersInv
    <2>7. IsFiniteSet(DOMAIN snapshots \cup A \cup UNION B)
      BY <2>1, <2>4, FS_Union DEF NumbersInv
    <2>8. QED
      BY <2>5, <2>6, <2>7
  <1>2. IsFiniteSet(S) /\ \A k \in S : k \in Nat /\ 0 < k
    BY <1>1, FS_RemoveElement
  <1> HIDE DEF S
  <1>3. Cardinality(S) \in Nat /\ Newest = Cardinality(S) + 1
    BY <1>2, FS_CardinalityType DEF Newest, S
  <1>4. \A i : Renumbered(i) = Cardinality(Below(i))
    BY DEF Renumbered, S
  <1>5. \A i : /\ Below(i) \in SUBSET S /\ IsFiniteSet(Below(i))
               /\ Cardinality(Below(i)) \in Nat /\ Cardinality(Below(i)) <= Cardinality(S)
    BY <1>2, FS_Subset, FS_CardinalityType
  <1>6. ASSUME NEW i \in Nat, NEW j \in S, i < j
        PROVE  Cardinality(Below(i)) < Cardinality(Below(j))
    <2>1. Below(i) \in SUBSET Below(j) /\ j \in Below(j) /\ j \notin Below(i)
      <3>1. j \in Nat /\ j <= j /\ ~(j <= i)
        BY <1>2, <1>6
      <3>2. \A k \in S : k <= i => k <= j
        BY <1>2, <1>6, <3>1
      <3>3. QED
        BY <3>1, <3>2
    <2>2. Cardinality(Below(i)) <= Cardinality(Below(j))
          /\ (Cardinality(Below(j)) = Cardinality(Below(i)) => Below(j) = Below(i))
      BY <1>5, <2>1, FS_Subset
    <2>3. QED
      BY <1>5, <2>1, <2>2
  <1>7. Cardinality(Below(0)) = 0
    <2>1. Below(0) = {}
      <3>1. \A k \in S : ~(k <= 0)
        BY <1>2
      <3>2. QED
        BY <3>1
    <2>2. QED
      BY <2>1, FS_EmptySet
  <1> HIDE DEF Below
  <1>8. ASSUME NEW i \in NumbersInUse
        PROVE  /\ Renumbered(i) \in Nat /\ Renumbered(i) < Newest
               /\ Renumbered(i) = 0 <=> i = 0
    <2>1. Renumbered(i) \in Nat /\ Renumbered(i) < Newest
      BY <1>3, <1>4, <1>5
    <2>2. CASE i = 0
      BY <1>4, <1>7, <2>1, <2>2
    <2>3. CASE i # 0
      <3>1. i \in S /\ i \in Nat /\ 0 < i
        BY <1>1, <2>3 DEF S
      <3>2. Cardinality(Below(0)) < Cardinality(Below(i))
        BY <1>6, <3>1
      <3>3. QED
        BY <1>4, <1>7, <2>1, <2>3, <3>2
    <2>4. QED
      BY <2>2, <2>3
  <1>9. ASSUME NEW i \in NumbersInUse, NEW j \in NumbersInUse
        PROVE  i <= j <=> Renumbered(i) <= Renumbered(j)
    <2>1. i \in Nat /\ j \in Nat /\ Renumbered(i) \in Nat /\ Renumbered(j) \in Nat
      BY <1>1, <1>8
    <2>2. i < j => Renumbered(i) < Renumbered(j)
      BY <1>4, <1>6, <2>1 DEF S
    <2>3. j < i => Renumbered(j) < Renumbered(i)
      BY <1>4, <1>6, <2>1 DEF S
    <2>4. QED
      BY <2>1, <2>2, <2>3
  <1>10. QED
    BY <1>1, <1>3, <1>8, <1>9

LEMMA RenumberedIsOne ==
  ASSUME NumbersInv, IsFiniteSet(Processes), NEW i \in DOMAIN snapshots,
         NEW k \in DOMAIN snapshots, Renumbered(k) = Renumbered(i)
  PROVE  k = i
  <1>1. k \in NumbersInUse /\ i \in NumbersInUse
    BY DEF NumbersInUse
  <1>2. /\ NumbersInUse \subseteq Nat
        /\ Renumbered(i) \in Nat
        /\ k <= i <=> Renumbered(k) <= Renumbered(i)
        /\ i <= k <=> Renumbered(i) <= Renumbered(k)
    BY <1>1, NumbersKeepOrder
  <1>3. k \in Nat /\ i \in Nat /\ k <= i /\ i <= k
    BY <1>1, <1>2
  <1>4. QED
    BY <1>3

(* What the start of a refresh makes of calls and snapshots.               *)
Starts(p) ==
    /\ call[p].pc = "refresh"
    /\ \A q \in Processes : DOMAIN call'[q] = CallFields /\ call'[q].plan = call[q].plan
    /\ \A q \in Processes \ {p} :
          /\ call'[q].pc = call[q].pc /\ call'[q].number = Renumbered(call[q].number)
          /\ call'[q].seen = {Renumbered(i) : i \in call[q].seen}
          /\ call'[q].started = call[q].started /\ call'[q].decided = call[q].decided
          /\ call'[q].export = call[q].export
    /\ call'[p].pc = "export" /\ call'[p].number = Newest /\ call'[p].started = clock
    /\ call'[p].seen = call[p].seen
    /\ call'[p].decided = [r \in Runs |-> IF Exported(r) THEN run[r].decisions ELSE 0]
    /\ DOMAIN snapshots' = {Renumbered(i) : i \in DOMAIN snapshots}
    /\ \A i \in DOMAIN snapshots : snapshots'[Renumbered(i)] = snapshots[i]

LEMMA WhatStarts ==
  ASSUME ExportsInv, IsFiniteSet(Processes), NEW p \in Processes, call[p].pc = "refresh",
         call' = [q \in Processes |->
                     IF q = p THEN [call[p] EXCEPT !.pc = "export", !.number = Newest,
                                      !.started = clock,
                                      !.decided = [r \in Runs |->
                                          IF Exported(r) THEN run[r].decisions ELSE 0]]
                     ELSE [call[q] EXCEPT
                              !.number = Renumbered(call[q].number),
                              !.seen = {Renumbered(i) : i \in call[q].seen}]],
         snapshots' = [j \in {Renumbered(i) : i \in DOMAIN snapshots} |->
                          snapshots[CHOOSE i \in DOMAIN snapshots : Renumbered(i) = j]]
  PROVE  Starts(p)
  <1>1. \A q \in Processes : DOMAIN call[q] = CallFields
    BY DEF ExportsInv, ShapeInv
  <1>2. ASSUME NEW q \in Processes, q # p
        PROVE  /\ DOMAIN call'[q] = CallFields /\ call'[q].plan = call[q].plan
               /\ call'[q].pc = call[q].pc /\ call'[q].number = Renumbered(call[q].number)
               /\ call'[q].seen = {Renumbered(i) : i \in call[q].seen}
               /\ call'[q].started = call[q].started /\ call'[q].decided = call[q].decided
               /\ call'[q].export = call[q].export
    <2>1. PICK n, s : n = Renumbered(call[q].number) /\ s = {Renumbered(i) : i \in call[q].seen}
      OBVIOUS
    <2>2. call'[q] = [call[q] EXCEPT !.number = n, !.seen = s]
      BY <1>2, <2>1
    <2>3. DOMAIN call[q] = CallFields
      BY <1>1
    <2>4. QED
      BY <2>1, <2>2, <2>3 DEF CallFields
  <1>3. /\ DOMAIN call'[p] = CallFields /\ call'[p].plan = call[p].plan
        /\ call'[p].pc = "export" /\ call'[p].number = Newest /\ call'[p].started = clock
        /\ call'[p].seen = call[p].seen
        /\ call'[p].decided = [r \in Runs |-> IF Exported(r) THEN run[r].decisions ELSE 0]
    <2>1. PICK d : d = [r \in Runs |-> IF Exported(r) THEN run[r].decisions ELSE 0]
      OBVIOUS
    <2>2. call'[p] = [call[p] EXCEPT !.pc = "export", !.number = Newest,
                                     !.started = clock, !.decided = d]
      BY <2>1
    <2>3. DOMAIN call[p] = CallFields
      BY <1>1
    <2>4. QED
      BY <2>1, <2>2, <2>3 DEF CallFields
  <1>4. ASSUME NEW i \in DOMAIN snapshots PROVE snapshots'[Renumbered(i)] = snapshots[i]
    <2> DEFINE k == CHOOSE j \in DOMAIN snapshots : Renumbered(j) = Renumbered(i)
    <2>1. k \in DOMAIN snapshots /\ Renumbered(k) = Renumbered(i)
      OBVIOUS
    <2>2. snapshots'[Renumbered(i)] = snapshots[k]
      OBVIOUS
    <2> HIDE DEF k
    <2>3. NumbersInv
      BY DEF ExportsInv, RefreshInv
    <2>4. k = i
      BY Zenon, <2>1, <2>3, RenumberedIsOne
    <2>5. QED
      BY Zenon, <2>2, <2>4
  <1>5. DOMAIN snapshots' = {Renumbered(i) : i \in DOMAIN snapshots}
    OBVIOUS
  <1>6. QED
    BY Zenon, <1>2, <1>3, <1>4, <1>5 DEF Starts

LEMMA RefreshStarts ==
  ASSUME ExportsInv, IsFiniteSet(Processes), NEW p \in Processes, Starts(p),
         DOMAIN call' = Processes, writer' = writer, file' = file, run' = run, clock' = clock,
         promised' = promised, RetentionTime \in Nat
  PROVE  ExportsInv'
  <1>0. NumbersInv /\ call[p].number = 0
    BY DEF ExportsInv, RefreshInv, NumbersInv, Starts, Refreshing, Carrying, Storing
  <1>1. /\ \A q \in Processes : call[q].number \in NumbersInUse /\ call[q].seen \subseteq NumbersInUse
        /\ DOMAIN snapshots \subseteq NumbersInUse
    BY DEF NumbersInUse
  <1>2. /\ NumbersInUse \subseteq Nat /\ Newest \in Nat \ {0}
        /\ \A i \in NumbersInUse : /\ Renumbered(i) \in Nat /\ Renumbered(i) < Newest
                                   /\ Renumbered(i) = 0 <=> i = 0
        /\ \A i, j \in NumbersInUse : i <= j <=> Renumbered(i) <= Renumbered(j)
    BY <1>0, NumbersKeepOrder
  <1>3. \A q \in Processes \ {p} :
           /\ call'[q].pc = call[q].pc /\ call'[q].number = Renumbered(call[q].number)
           /\ call'[q].seen = {Renumbered(i) : i \in call[q].seen}
           /\ call'[q].started = call[q].started /\ call'[q].decided = call[q].decided
           /\ call'[q].export = call[q].export
    BY DEF Starts
  <1>4. /\ call'[p].pc = "export" /\ call'[p].number = Newest /\ call'[p].started = clock
        /\ \A r \in Runs : call'[p].decided[r] = IF Exported(r) THEN run[r].decisions ELSE 0
    BY DEF Starts
  <1>5. \A i \in DOMAIN snapshots : Renumbered(i) \in DOMAIN snapshots'
                                    /\ snapshots'[Renumbered(i)] = snapshots[i]
    BY DEF Starts
  <1>6. \A j \in DOMAIN snapshots' : \E i \in DOMAIN snapshots :
           j = Renumbered(i) /\ snapshots'[j] = snapshots[i]
    BY DEF Starts
  <1>7. \A q, u \in Processes \ {p} :
           /\ call'[q].number \in Nat /\ call'[q].number < Newest
           /\ call'[q].number = 0 <=> call[q].number = 0
           /\ call'[q].number <= call'[u].number <=> call[q].number <= call[u].number
    <2>1. ASSUME NEW q \in Processes, q # p, NEW u \in Processes, u # p
          PROVE  /\ call'[q].number \in Nat /\ call'[q].number < Newest
                 /\ call'[q].number = 0 <=> call[q].number = 0
                 /\ call'[q].number <= call'[u].number <=> call[q].number <= call[u].number
      <3>1. PICK i \in NumbersInUse, j \in NumbersInUse : i = call[q].number /\ j = call[u].number
        BY <1>1
      <3>2. call'[q].number = Renumbered(i) /\ call'[u].number = Renumbered(j)
        BY <1>3, <2>1, <3>1
      <3>3. /\ Renumbered(i) \in Nat /\ Renumbered(i) < Newest
            /\ Renumbered(i) = 0 <=> i = 0
            /\ i <= j <=> Renumbered(i) <= Renumbered(j)
        BY <1>2
      <3>4. QED
        BY <3>1, <3>2, <3>3
    <2>2. QED
      BY <2>1
  <1>8. \A q \in Processes \ {p} : \A i \in DOMAIN snapshots :
           call'[q].number <= Renumbered(i) <=> call[q].number <= i
    <2>1. ASSUME NEW q \in Processes, q # p, NEW i \in DOMAIN snapshots
          PROVE  call'[q].number <= Renumbered(i) <=> call[q].number <= i
      <3>1. i \in NumbersInUse
        BY <1>1
      <3>2. PICK j \in NumbersInUse : j = call[q].number
        BY <1>1
      <3>3. call'[q].number = Renumbered(j)
        BY <1>3, <2>1, <3>2
      <3>4. j <= i <=> Renumbered(j) <= Renumbered(i)
        BY <1>2, <3>1
      <3>5. QED
        BY <3>2, <3>3, <3>4
    <2>2. QED
      BY <2>1
  <1>9. \A r \in Runs : run[r] \in RunRecord /\ run[r].decisions \in Nat
    BY DEF ExportsInv, RunsInv, RunRecord
  <1>10. NumbersInv'
    <2>1. IsFiniteSet(DOMAIN snapshots') /\ DOMAIN snapshots' \subseteq Nat \ {0}
      <3> DEFINE F == [i \in DOMAIN snapshots |-> Renumbered(i)]
      <3>0. IsFiniteSet(DOMAIN snapshots) /\ DOMAIN snapshots \subseteq Nat \ {0}
        BY <1>0 DEF NumbersInv
      <3>2. DOMAIN snapshots' = {F[i] : i \in DOMAIN snapshots}
        BY DEF Starts
      <3>3. \A i \in DOMAIN snapshots : Renumbered(i) \in Nat \ {0}
        BY <1>1, <1>2, <3>0
      <3> HIDE DEF F
      <3>1. IsFiniteSet({F[i] : i \in DOMAIN snapshots})
        BY <3>0, ImageFinite
      <3>4. QED
        BY <1>6, <3>1, <3>2, <3>3
    <2>2. ASSUME NEW q \in Processes
          PROVE  /\ call'[q].number \in Nat
                 /\ call'[q].seen \subseteq Nat /\ IsFiniteSet(call'[q].seen)
                 /\ call'[q].number # 0 <=> call'[q].pc \in Refreshing
      <3>1. CASE q = p
        BY <1>0, <1>2, <1>4, <3>1 DEF NumbersInv, Starts, Refreshing
      <3>2. CASE q # p
        <4> DEFINE F == [i \in call[q].seen |-> Renumbered(i)]
        <4>0. IsFiniteSet(call[q].seen) /\ (call[q].number # 0 <=> call[q].pc \in Refreshing)
          BY <1>0 DEF NumbersInv
        <4>2. call'[q].seen = {F[i] : i \in call[q].seen}
          <5>1. call'[q].seen = {Renumbered(i) : i \in call[q].seen}
            BY <1>3, <3>2
          <5>2. \A i \in call[q].seen : F[i] = Renumbered(i)
            OBVIOUS
          <5> HIDE DEF F
          <5>3. QED
            BY <5>1, <5>2
        <4>3. call'[q].seen \subseteq Nat
          <5>1. \A i \in call[q].seen : F[i] \in Nat
            BY <1>1, <1>2
          <5>2. QED
            BY <4>2, <5>1
        <4> HIDE DEF F
        <4>1. IsFiniteSet(call'[q].seen)
          BY <4>0, <4>2, ImageFinite
        <4>4. /\ call'[q].number \in Nat /\ call'[q].pc = call[q].pc
              /\ call'[q].number = 0 <=> call[q].number = 0
          BY <1>3, <1>7, <3>2
        <4>5. QED
          BY <4>0, <4>1, <4>3, <4>4
      <3>3. QED
        BY <3>1, <3>2
    <2>3. ASSUME NEW q \in Processes, NEW u \in Processes, q # u,
                 call'[q].number = call'[u].number, call'[q].number # 0
          PROVE  FALSE
      <3>1. q # p /\ u # p
        BY <1>2, <1>4, <1>7, <2>3
      <3>2. call[q].number \in Nat /\ call[u].number \in Nat
            /\ call[q].number <= call[u].number /\ call[u].number <= call[q].number
        BY <1>0, <1>7, <2>3, <3>1 DEF NumbersInv
      <3>3. call[q].number = call[u].number /\ call[q].number # 0
        BY <1>7, <2>3, <3>1, <3>2
      <3>4. QED
        BY <1>0, <2>3, <3>3 DEF NumbersInv
    <2>4. QED
      BY <2>1, <2>2, <2>3 DEF NumbersInv
  <1>11. FoundInv'
    <2> SUFFICES ASSUME NEW q \in Processes, call'[q].number # 0
                 PROVE  /\ call'[q].started \in Nat /\ call'[q].started <= clock
                        /\ clock - call'[q].started <= RetentionTime
                        /\ \A r \in Runs : /\ call'[q].decided[r] \in Nat
                                           /\ call'[q].decided[r] <= run[r].decisions
                                           /\ call'[q].decided[r] > 0 => Exported(r)
      BY DEF FoundInv, Exported, Reviewed
    <2>1. CASE q = p
      BY <1>4, <1>9, <2>1 DEF ExportsInv, RunsInv
    <2>2. CASE q # p
      BY <1>3, <1>7, <2>2 DEF ExportsInv, RefreshInv, FoundInv
    <2>3. QED
      BY <2>1, <2>2
  <1>12. OrderInv'
    <2> SUFFICES ASSUME NEW q \in Processes, NEW u \in Processes, call'[q].number # 0,
                        call'[q].number <= call'[u].number
                 PROVE  /\ call'[q].started <= call'[u].started
                        /\ \A r \in Runs : call'[q].decided[r] <= call'[u].decided[r]
      BY DEF OrderInv
    <2>1. CASE q = p
      <3>1. u = p
        BY <1>2, <1>4, <1>7, <2>1
      <3>2. QED
        BY <1>4, <1>9, <2>1, <3>1 DEF ExportsInv, RunsInv
    <2>2. CASE q # p /\ u = p
      <3>1. call[q].number # 0 /\ call'[q].started = call[q].started
            /\ call'[q].decided = call[q].decided
        BY <1>3, <1>7, <2>2
      <3>2. FoundInv
        BY DEF ExportsInv, RefreshInv
      <3>3. call[q].started <= clock
        BY <3>1, <3>2 DEF FoundInv
      <3>4. ASSUME NEW r \in Runs PROVE call'[q].decided[r] <= call'[p].decided[r]
        <4>1. /\ call[q].decided[r] \in Nat /\ call[q].decided[r] <= run[r].decisions
              /\ call[q].decided[r] > 0 => Exported(r)
          BY <3>1, <3>2 DEF FoundInv
        <4>2. QED
          BY <1>4, <1>9, <3>1, <4>1
      <3>5. QED
        BY <1>4, <2>2, <3>1, <3>3, <3>4
    <2>3. CASE q # p /\ u # p
      BY <1>3, <1>7, <2>3 DEF ExportsInv, RefreshInv, OrderInv
    <2>4. QED
      BY <2>1, <2>2, <2>3
  <1>13. TakenInv'
    <2> SUFFICES ASSUME NEW q \in Processes, call'[q].pc \in Carrying, NEW r \in Runs,
                        call'[q].decided[r] > 0
                 PROVE  Has(call'[q].export, r, call'[q].decided[r])
      BY DEF TakenInv, Has
    <2>1. q # p
      BY <1>4 DEF Carrying
    <2>2. QED
      BY <1>3, <2>1 DEF ExportsInv, RefreshInv, TakenInv
  <1>14. SnapshotsInv'
    <2>1. ASSUME NEW j \in DOMAIN snapshots' PROVE snapshots'[j].at \in Nat
      BY <1>6 DEF ExportsInv, RefreshInv, SnapshotsInv
    <2>2. ASSUME NEW q \in Processes, NEW j \in DOMAIN snapshots', call'[q].number # 0,
                 call'[q].number <= j
          PROVE  /\ call'[q].started <= snapshots'[j].at
                 /\ \A r \in Runs : call'[q].decided[r] > 0 =>
                       Has(snapshots'[j].records, r, call'[q].decided[r])
      <3>1. PICK i \in DOMAIN snapshots : j = Renumbered(i) /\ snapshots'[j] = snapshots[i]
        BY <1>6
      <3>2. q # p
        <4>1. Renumbered(i) \in Nat /\ Renumbered(i) < Newest /\ Newest \in Nat
          BY <1>1, <1>2
        <4>2. ~(Newest <= Renumbered(i))
          BY <4>1
        <4>3. QED
          BY <1>4, <2>2, <3>1, <4>2
      <3>3. call[q].number # 0 /\ call[q].number <= i
        BY <1>7, <1>8, <2>2, <3>1, <3>2
      <3>4. QED
        BY <1>3, <3>1, <3>2, <3>3 DEF ExportsInv, RefreshInv, SnapshotsInv
    <2>3. QED
      BY <2>1, <2>2 DEF SnapshotsInv, Has
  <1>15. StoredInv'
    <2> SUFFICES ASSUME NEW q \in Processes, call'[q].pc \in Storing
                 PROVE  \E j \in DOMAIN snapshots' : call'[q].number <= j
      BY DEF StoredInv
    <2>1. q # p
      BY <1>4 DEF Storing
    <2>2. PICK i \in DOMAIN snapshots : call[q].number <= i
      BY <1>3, <2>1 DEF ExportsInv, RefreshInv, StoredInv
    <2>3. QED
      BY <1>5, <1>8, <2>1, <2>2
  <1>16. PromisesInv'
    <2> SUFFICES ASSUME NEW r \in Runs, promised[r] > 0
                 PROVE  \E b \in DOMAIN snapshots' : HeldFrom(b, r, promised[r])'
      BY DEF ExportsInv, RefreshInv, PromisesInv, Exported, Reviewed
    <2>1. PICK b \in DOMAIN snapshots : HeldFrom(b, r, promised[r])
      BY DEF ExportsInv, RefreshInv, PromisesInv
    <2>2. ASSUME NEW j \in DOMAIN snapshots', Renumbered(b) <= j
          PROVE  Has(snapshots'[j].records, r, promised[r])
      <3>1. PICK i \in DOMAIN snapshots : j = Renumbered(i) /\ snapshots'[j] = snapshots[i]
        BY <1>6
      <3>2. b <= i
        BY <1>1, <1>2, <2>2, <3>1
      <3>3. QED
        BY <2>1, <3>1, <3>2 DEF HeldFrom
    <2>3. ASSUME NEW q \in Processes, Renumbered(b) <= call'[q].number
          PROVE  call'[q].decided[r] >= promised[r]
      <3>1. CASE q # p
        <4>1. b <= call[q].number
          BY <1>1, <1>2, <1>3, <2>3, <3>1, ZenonT(60)
        <4>2. QED
          BY <1>3, <2>1, <3>1, <4>1 DEF HeldFrom
      <3>2. CASE q = p
        <4>1. Has(snapshots[b].records, r, promised[r])
          <5>1. b \in Nat
            BY <1>1, <1>2
          <5>2. b <= b
            BY <5>1
          <5>3. QED
            BY <2>1, <5>2 DEF HeldFrom
        <4>2. Fits(snapshots[b].records)
          BY DEF ExportsInv, RefreshInv, HeldInv, Held
        <4>3. promised[r] \in Nat /\ promised[r] <= run[r].decisions
          <5>1. snapshots[b].records[r].decisions >= promised[r]
                /\ snapshots[b].records[r].decisions <= run[r].decisions
                /\ snapshots[b].records[r].decisions \in Nat
            <6>1. /\ r \in DOMAIN snapshots[b].records
                  /\ snapshots[b].records[r].decisions >= promised[r]
              BY <4>1 DEF Has
            <6>2. snapshots[b].records[r].decisions \in Nat
              BY <4>2, <6>1 DEF Fits, ExportRecord
            <6>3. CASE snapshots[b].records[r] = RecordOf(r)
              BY <1>9, <6>1, <6>2, <6>3 DEF RecordOf
            <6>4. CASE snapshots[b].records[r] # RecordOf(r)
              <7>1. snapshots[b].records[r].decisions < run[r].decisions
                BY <4>2, <6>1, <6>4 DEF Fits
              <7>2. QED
                BY <1>9, <6>1, <6>2, <7>1
            <6>5. QED
              BY <6>3, <6>4
          <5>2. promised[r] \in Nat
            BY DEF ExportsInv, RefreshInv, PromisesInv
          <5>3. QED
            BY <1>9, <5>1, <5>2
        <4>4. Exported(r)
          BY DEF ExportsInv, RefreshInv, PromisesInv
        <4>5. call'[q].decided[r] = run[r].decisions
          BY <1>4, <3>2, <4>4
        <4>6. PICK a \in Nat, d \in Nat : a = promised[r] /\ d = run[r].decisions /\ a <= d
          BY <1>9, <4>3
        <4>7. QED
          BY <4>5, <4>6
      <3>3. QED
        BY <3>1, <3>2
    <2>4. PICK d : d = Renumbered(b)
      OBVIOUS
    <2>5. HeldFrom(d, r, promised[r])'
      BY <2>2, <2>3, <2>4 DEF HeldFrom, Has
    <2>6. QED
      BY <1>5, <2>1, <2>4, <2>5
  <1>17. HeldInv'
    <2>1. Held' \subseteq Held
      <3>1. ASSUME NEW q \in Processes, call'[q].pc \in Carrying PROVE call'[q].export \in Held
        <4>1. q # p
          BY <1>4, <3>1 DEF Carrying
        <4>2. QED
          BY <1>3, <3>1, <4>1 DEF Held
      <3>2. ASSUME NEW j \in DOMAIN snapshots' PROVE snapshots'[j].records \in Held
        BY <1>6 DEF Held
      <3>3. QED
        BY <3>1, <3>2 DEF Held, Readable
    <2>2. \A f \in Held : Fits(f)'
      BY DEF ExportsInv, RefreshInv, HeldInv, Fits, RecordOf
    <2>3. QED
      BY <2>1, <2>2 DEF ExportsInv, RefreshInv, HeldInv, Agree
  <1>18. ShapeInv'
    BY DEF ExportsInv, ShapeInv, Starts
  <1>19. RunsInv'
    BY DEF ExportsInv, RunsInv, Timely
  <1>20. WriterInv'
    <2> SUFFICES ASSUME NEW q \in Processes PROVE WriterOK(q)'
      BY DEF WriterInv
    <2>1. CASE q = p
      BY <1>4, <2>1 DEF WriterOK
    <2>2. CASE q # p
      BY <1>3, <2>2 DEF ExportsInv, WriterInv, WriterOK, Opened
    <2>3. QED
      BY <2>1, <2>2
  <1>21. QED
    BY <1>10, <1>11, <1>12, <1>13, <1>14, <1>15, <1>16, <1>17, <1>18, <1>19, <1>20
       DEF ExportsInv, RefreshInv
-----------------------------------------------------------------------------
(* What the steps of a refresh do to the numbers and to what was found.    *)
SameFound(q) ==
    /\ call'[q].number = call[q].number /\ call'[q].started = call[q].started
    /\ call'[q].decided = call[q].decided /\ call'[q].seen = call[q].seen
    /\ call'[q].pc \in Refreshing <=> call[q].pc \in Refreshing

LEMMA NumbersFound ==
  ASSUME RunsInv, RefreshInv, \A q \in Processes : SameFound(q), run' = run, clock' = clock,
         IsFiniteSet(DOMAIN snapshots'), DOMAIN snapshots' \subseteq Nat \ {0}
  PROVE  NumbersInv' /\ FoundInv' /\ OrderInv'
  <1>1. NumbersInv'
    BY DEF RefreshInv, NumbersInv, SameFound
  <1>2. FoundInv'
    BY DEF RefreshInv, FoundInv, SameFound, Exported, Reviewed
  <1>3. OrderInv'
    BY DEF RefreshInv, OrderInv, SameFound
  <1>4. QED
    BY <1>1, <1>2, <1>3

(* What is exported now agrees with what was exported before.              *)
LEMMA RecordsAgree ==
  ASSUME RunsInv, NEW f, Fits(f), NEW e, DOMAIN e \subseteq Runs,
         \A r \in DOMAIN e : e[r] = RecordOf(r)
  PROVE  Agree(f, e) /\ Agree(e, f)
  <1>1. ASSUME NEW r \in DOMAIN e, r \in DOMAIN f
        PROVE  \/ f[r] = e[r] /\ reviewedRecordTimestamp(f[r]) \in Nat
               \/ /\ f[r].decisions \in Nat /\ e[r].decisions \in Nat
                  /\ f[r].decisions < e[r].decisions
                  /\ reviewedRecordTimestamp(f[r]) <= reviewedRecordTimestamp(e[r])
    <2>1. e[r] = RecordOf(r) /\ RecordOf(r) \in ExportRecord /\ RecordOf(r).decisions = run[r].decisions
          /\ f[r] \in ExportRecord
      BY <1>1, RecordType DEF Fits
    <2>2. f[r].decisions \in Nat /\ e[r].decisions \in Nat
      BY <2>1 DEF ExportRecord
    <2>3. QED
      BY <1>1, <2>1, <2>2, StampType DEF Fits
  <1>2. QED
    BY <1>1 DEF Agree

LEMMA ExportRunsStep ==
  ASSUME ExportsInv, NEW p \in Processes, ExportRuns(p)
  PROVE  ExportsInv'
  <1> DEFINE exported == {r \in Runs : Exported(r)}
  <1>0. /\ call[p].pc = "export" /\ file' = file /\ run' = run /\ clock' = clock
        /\ snapshots' = snapshots /\ promised' = promised
    BY DEF ExportRuns
  <1>1. CASE \E r \in exported : Unexportable(r)
    <2>1. Throw(p)
      BY <1>1 DEF ExportRuns
    <2>2. QED
      BY <1>0, <2>1, ThrowStep
  <1>2. CASE ~\E r \in exported : Unexportable(r)
    <2>1. PICK e : e = [r \in exported |-> RecordOf(r)]
      OBVIOUS
    <2>2. Proceed(p, [call[p] EXCEPT !.pc = "openLatest", !.export = e]) /\ writer' = writer
      BY <1>2, <2>1 DEF ExportRuns
    <2>3. DOMAIN call = Processes /\ DOMAIN call[p] = CallFields /\ call[p].plan \in Seq(TaskNames)
      BY DEF ExportsInv, ShapeInv
    <2>4. /\ call' = [call EXCEPT ![p] = [call[p] EXCEPT !.pc = "openLatest", !.export = e]]
          /\ \A q \in Processes \ {p} : call'[q] = call[q]
      BY <2>2, <2>3 DEF Proceed
    <2>5. /\ DOMAIN call'[p] = CallFields /\ call'[p].plan = call[p].plan
          /\ call'[p].pc = "openLatest" /\ call'[p].export = e
          /\ call'[p].number = call[p].number /\ call'[p].started = call[p].started
          /\ call'[p].decided = call[p].decided /\ call'[p].seen = call[p].seen
      BY <2>3, <2>4 DEF CallFields
    <2>6. \A q \in Processes : SameFound(q)
      BY <1>0, <2>4, <2>5 DEF SameFound, Refreshing, Carrying
    <2>7. NumbersInv' /\ FoundInv' /\ OrderInv'
      BY <1>0, <2>6, NumbersFound DEF ExportsInv, RefreshInv, NumbersInv
    <2>8. ASSUME NEW r \in Runs, call[p].decided[r] > 0
          PROVE  Has(e, r, call[p].decided[r])
      <3>1. call[p].number # 0
        BY <1>0 DEF ExportsInv, RefreshInv, NumbersInv, Refreshing
      <3>2. Exported(r) /\ call[p].decided[r] <= run[r].decisions
        BY <2>8, <3>1 DEF ExportsInv, RefreshInv, FoundInv
      <3>3. RecordOf(r).decisions = run[r].decisions
        BY DEF RecordOf
      <3>4. r \in DOMAIN e /\ e[r] = RecordOf(r)
        BY <2>1, <3>2
      <3>5. QED
        BY <3>2, <3>3, <3>4 DEF Has
    <2>9. TakenInv'
      <3> SUFFICES ASSUME NEW q \in Processes, call'[q].pc \in Carrying, NEW r \in Runs,
                          call'[q].decided[r] > 0
                   PROVE  Has(call'[q].export, r, call'[q].decided[r])
        BY DEF TakenInv, Has
      <3>1. CASE q = p
        BY <2>5, <2>8, <3>1
      <3>2. CASE q # p
        BY <2>4, <3>2 DEF ExportsInv, RefreshInv, TakenInv
      <3>3. QED
        BY <3>1, <3>2
    <2>10. SnapshotsInv'
      BY <1>0, <2>6 DEF ExportsInv, RefreshInv, SnapshotsInv, SameFound, Has
    <2>11. StoredInv'
      BY <1>0, <2>4, <2>5 DEF ExportsInv, RefreshInv, StoredInv, Storing
    <2>12. PromisesInv'
      BY <1>0, <2>6 DEF ExportsInv, RefreshInv, PromisesInv, HeldFrom, SameFound, Has, Exported, Reviewed
    <2>13. HeldInv'
      <3>1. Held' \subseteq Held \cup {e}
        <4>1. ASSUME NEW q \in Processes, call'[q].pc \in Carrying
              PROVE  call'[q].export \in Held \cup {e}
          BY <2>4, <2>5, <4>1 DEF Held
        <4>2. \A i \in DOMAIN snapshots : snapshots[i].records \in Held
          BY DEF Held
        <4>3. \A c \in {file.latest.now, file.latest.tmp} : Readable(c) => c \in Held
          BY DEF Held
        <4>4. QED
          BY <1>0, <4>1, <4>2, <4>3 DEF Held, Readable
      <3>2. RunsInv /\ \A f \in Held : Fits(f)
        BY DEF ExportsInv, RefreshInv, HeldInv
      <3>3. DOMAIN e \subseteq Runs /\ \A r \in DOMAIN e : e[r] = RecordOf(r)
        BY <2>1
      <3>4. Fits(e)
        BY <3>2, <3>3, RecordType DEF Fits
      <3>5. \A f \in Held \cup {e} : Fits(f)' /\ Agree(f, e) /\ Agree(e, f)
        <4>1. ASSUME NEW f \in Held \cup {e} PROVE Agree(f, e) /\ Agree(e, f)
          BY <3>2, <3>3, <3>4, RecordsAgree
        <4>2. \A f \in Held \cup {e} : Fits(f)'
          BY <1>0, <3>2, <3>4 DEF Fits, RecordOf
        <4>3. QED
          BY <4>1, <4>2
      <3>6. \A f, g \in Held : Agree(f, g)
        BY DEF ExportsInv, RefreshInv, HeldInv
      <3>7. QED
        BY <3>1, <3>5, <3>6 DEF HeldInv, Agree
    <2>14. ShapeInv'
      BY <1>0, <2>2, <2>4, <2>5 DEF ExportsInv, ShapeInv
    <2>15. RunsInv'
      BY <1>0 DEF ExportsInv, RunsInv, Timely
    <2>16. WriterInv'
      <3> SUFFICES ASSUME NEW q \in Processes PROVE WriterOK(q)'
        BY DEF WriterInv
      <3>1. CASE q = p
        BY <2>5, <3>1 DEF WriterOK
      <3>2. CASE q # p
        BY <2>2, <2>4, <3>2 DEF ExportsInv, WriterInv, WriterOK, Opened
      <3>3. QED
        BY <3>1, <3>2
    <2>17. QED
      BY <2>7, <2>9, <2>10, <2>11, <2>12, <2>13, <2>14, <2>15, <2>16 DEF ExportsInv, RefreshInv
  <1>3. QED
    BY <1>1, <1>2

LEMMA StartRefreshStep ==
  ASSUME ExportsInv, NEW p \in Processes, StartRefresh(p)
  PROVE  ExportsInv'
  <1>0. /\ call[p].pc = "refresh" /\ file' = file /\ run' = run /\ clock' = clock
        /\ promised' = promised
    BY DEF StartRefresh
  <1> DEFINE starts == file.config.now # None /\ (GetConfig.enabled \/ call[p].force)
  <1>1. CASE ListThrows
    BY <1>0, <1>1, ThrowStep DEF StartRefresh
  <1>2. CASE ~ListThrows /\ ~starts
    <2>1. Proceed(p, NextTask(p)) /\ writer' = writer /\ snapshots' = snapshots
      BY <1>2 DEF StartRefresh
    <2>2. QED
      BY <1>0, <2>1, LeaveStep
  <1>3. CASE ~ListThrows /\ starts
    <2>1. IsFiniteSet(Processes) /\ RetentionTime \in Nat
      BY ExportAssumption, FS_AddElement DEF Processes
    <2>2. /\ writer' = writer
          /\ call' = [q \in Processes |->
                     IF q = p THEN [call[p] EXCEPT !.pc = "export", !.number = Newest,
                                      !.started = clock,
                                      !.decided = [r \in Runs |->
                                          IF Exported(r) THEN run[r].decisions ELSE 0]]
                     ELSE [call[q] EXCEPT
                              !.number = Renumbered(call[q].number),
                              !.seen = {Renumbered(i) : i \in call[q].seen}]]
          /\ snapshots' = [j \in {Renumbered(i) : i \in DOMAIN snapshots} |->
                          snapshots[CHOOSE i \in DOMAIN snapshots : Renumbered(i) = j]]
      BY <1>3 DEF StartRefresh
    <2>3. Starts(p)
      BY <1>0, <2>1, <2>2, WhatStarts
    <2>4. DOMAIN call' = Processes
      BY <2>2
    <2>5. QED
      BY <1>0, <2>1, <2>2, <2>3, <2>4, RefreshStarts
  <1>4. QED
    BY <1>1, <1>2, <1>3

(* The snapshot of a refresh has what it found, and so what was promised.  *)
LEMMA WriteSnapshotStep ==
  ASSUME ExportsInv, NEW p \in Processes, WriteSnapshot(p)
  PROVE  ExportsInv'
  <1> DEFINE n == call[p].number
             e == call[p].export
  <1>0. /\ call[p].pc = "snapshot" /\ file' = file /\ run' = run /\ clock' = clock
        /\ promised' = promised /\ writer' = writer
    BY DEF WriteSnapshot
  <1>1. DOMAIN call = Processes /\ DOMAIN call[p] = CallFields /\ call[p].plan \in Seq(TaskNames)
    BY DEF ExportsInv, ShapeInv
  <1>2. /\ call' = [call EXCEPT ![p] = [call[p] EXCEPT !.pc = "openManifest"]]
        /\ \A q \in Processes \ {p} : call'[q] = call[q]
    BY <1>1 DEF WriteSnapshot, Proceed
  <1>3. /\ DOMAIN call'[p] = CallFields /\ call'[p].plan = call[p].plan
        /\ call'[p].pc = "openManifest" /\ call'[p].export = e
        /\ call'[p].number = n /\ call'[p].started = call[p].started
        /\ call'[p].decided = call[p].decided /\ call'[p].seen = call[p].seen
    BY <1>1, <1>2 DEF CallFields
  <1>4. \A q \in Processes : SameFound(q)
    BY <1>0, <1>2, <1>3 DEF SameFound, Refreshing, Carrying, Storing
  <1>5. /\ call[p].pc \in Carrying /\ n \in Nat \ {0}
        /\ IsFiniteSet(DOMAIN snapshots) /\ DOMAIN snapshots \subseteq Nat \ {0}
    BY <1>0 DEF ExportsInv, RefreshInv, NumbersInv, Carrying, Refreshing
  <1>6. /\ DOMAIN snapshots' = DOMAIN snapshots \cup {n}
        /\ snapshots'[n] = [at |-> call[p].started, records |-> e]
        /\ \A i \in DOMAIN snapshots : i # n => snapshots'[i] = snapshots[i]
    <2>1. PICK x : x = [at |-> call[p].started, records |-> e]
      OBVIOUS
    <2>2. snapshots' = [i \in DOMAIN snapshots \cup {n} |-> IF i # n THEN snapshots[i] ELSE x]
      BY <2>1 DEF WriteSnapshot
    <2>3. QED
      BY <2>1, <2>2
  <1>7. IsFiniteSet(DOMAIN snapshots') /\ DOMAIN snapshots' \subseteq Nat \ {0}
    BY <1>5, <1>6, FS_AddElement
  <1>8. NumbersInv' /\ FoundInv' /\ OrderInv'
    BY <1>0, <1>4, <1>7, NumbersFound DEF ExportsInv
  <1>9. TakenInv'
    BY <1>2, <1>3 DEF ExportsInv, RefreshInv, TakenInv, Carrying
  <1>10. \A r \in Runs : call[p].decided[r] \in Nat
                          /\ (call[p].decided[r] > 0 => Has(e, r, call[p].decided[r]))
    BY <1>5 DEF ExportsInv, RefreshInv, TakenInv, FoundInv
  <1>11. \A r \in DOMAIN e : e[r].decisions \in Nat
    BY <1>5 DEF ExportsInv, RefreshInv, HeldInv, Held, Fits, ExportRecord
  <1>12. SnapshotsInv'
    <2>1. ASSUME NEW i \in DOMAIN snapshots' PROVE snapshots'[i].at \in Nat
      BY <1>5, <1>6 DEF ExportsInv, RefreshInv, SnapshotsInv, FoundInv
    <2>2. ASSUME NEW q \in Processes, NEW i \in DOMAIN snapshots', call'[q].number # 0,
                 call'[q].number <= i
          PROVE  /\ call'[q].started <= snapshots'[i].at
                 /\ \A r \in Runs : call'[q].decided[r] > 0 =>
                       Has(snapshots'[i].records, r, call'[q].decided[r])
      <3>1. /\ call'[q].number = call[q].number /\ call'[q].started = call[q].started
            /\ call'[q].decided = call[q].decided
        BY <1>4 DEF SameFound
      <3>2. CASE i # n
        BY <1>6, <2>2, <3>1, <3>2 DEF ExportsInv, RefreshInv, SnapshotsInv
      <3>3. CASE i = n
        <4>1. /\ call[q].started <= call[p].started
              /\ \A r \in Runs : call[q].decided[r] <= call[p].decided[r]
          BY <2>2, <3>1, <3>3 DEF ExportsInv, RefreshInv, OrderInv
        <4>2. ASSUME NEW r \in Runs, call[q].decided[r] > 0
              PROVE  Has(e, r, call[q].decided[r])
          <5>1. call[q].decided[r] \in Nat
            BY <2>2, <3>1 DEF ExportsInv, RefreshInv, FoundInv
          <5>2. call[p].decided[r] \in Nat /\ call[p].decided[r] > 0
            BY <1>10, <4>1, <4>2, <5>1
          <5>3. r \in DOMAIN e /\ e[r].decisions >= call[p].decided[r] /\ e[r].decisions \in Nat
            BY <1>10, <1>11, <5>2 DEF Has
          <5>4. QED
            BY <4>1, <5>1, <5>2, <5>3 DEF Has
        <4>3. QED
          BY <1>6, <3>1, <3>3, <4>1, <4>2
      <3>4. QED
        BY <3>2, <3>3
    <2>3. QED
      BY <2>1, <2>2 DEF SnapshotsInv, Has
  <1>13. StoredInv'
    <2> SUFFICES ASSUME NEW q \in Processes, call'[q].pc \in Storing
                 PROVE  \E i \in DOMAIN snapshots' : call'[q].number <= i
      BY DEF StoredInv
    <2>1. CASE q = p
      BY <1>3, <1>5, <1>6, <2>1
    <2>2. CASE q # p
      BY <1>2, <1>6, <2>2 DEF ExportsInv, RefreshInv, StoredInv
    <2>3. QED
      BY <2>1, <2>2
  <1>14. PromisesInv'
    <2> SUFFICES ASSUME NEW r \in Runs, promised[r] > 0
                 PROVE  \E b \in DOMAIN snapshots' : HeldFrom(b, r, promised[r])'
      BY <1>0 DEF ExportsInv, RefreshInv, PromisesInv, Exported, Reviewed
    <2>1. PICK b \in DOMAIN snapshots : HeldFrom(b, r, promised[r])
      BY DEF ExportsInv, RefreshInv, PromisesInv
    <2>2. ASSUME NEW i \in DOMAIN snapshots', b <= i
          PROVE  Has(snapshots'[i].records, r, promised[r])
      <3>1. CASE i # n
        BY <1>6, <2>1, <2>2, <3>1 DEF HeldFrom
      <3>2. CASE i = n
        <4>1. call[p].decided[r] >= promised[r] /\ promised[r] \in Nat
          BY <2>1, <2>2, <3>2 DEF HeldFrom, ExportsInv, RefreshInv, PromisesInv
        <4>2. call[p].decided[r] \in Nat /\ call[p].decided[r] > 0
          BY <1>10, <4>1
        <4>3. r \in DOMAIN e /\ e[r].decisions >= call[p].decided[r] /\ e[r].decisions \in Nat
          BY <1>10, <1>11, <4>2 DEF Has
        <4>4. Has(e, r, promised[r])
          BY <4>1, <4>2, <4>3 DEF Has
        <4>5. QED
          BY <1>6, <3>2, <4>4
      <3>3. QED
        BY <3>1, <3>2
    <2>3. \A q \in Processes : b <= call'[q].number => call'[q].decided[r] >= promised[r]
      BY <1>4, <2>1 DEF HeldFrom, SameFound
    <2>4. HeldFrom(b, r, promised[r])'
      BY <1>0, <2>2, <2>3 DEF HeldFrom, Has
    <2>5. QED
      BY <1>6, <2>4
  <1>15. HeldInv'
    <2>1. Held' \subseteq Held
      <3>1. ASSUME NEW q \in Processes, call'[q].pc \in Carrying PROVE call'[q].export \in Held
        <4>1. q # p
          BY <1>3, <3>1 DEF Carrying
        <4>2. QED
          BY <1>2, <3>1, <4>1 DEF Held
      <3>2. ASSUME NEW i \in DOMAIN snapshots' PROVE snapshots'[i].records \in Held
        <4>1. CASE i # n
          BY <1>6, <4>1 DEF Held
        <4>2. CASE i = n
          BY <1>5, <1>6, <4>2 DEF Held
        <4>3. QED
          BY <4>1, <4>2
      <3>3. QED
        BY <1>0, <3>1, <3>2 DEF Held, Readable
    <2>2. \A f \in Held : Fits(f)'
      BY <1>0 DEF ExportsInv, RefreshInv, HeldInv, Fits, RecordOf
    <2>3. QED
      BY <2>1, <2>2 DEF ExportsInv, RefreshInv, HeldInv, Agree
  <1>16. ShapeInv'
    BY <1>0, <1>2, <1>3 DEF ExportsInv, ShapeInv
  <1>17. RunsInv'
    BY <1>0 DEF ExportsInv, RunsInv, Timely
  <1>18. WriterInv'
    <2> SUFFICES ASSUME NEW q \in Processes PROVE WriterOK(q)'
      BY DEF WriterInv
    <2>1. CASE q = p
      BY <1>3, <2>1 DEF WriterOK
    <2>2. CASE q # p
      BY <1>0, <1>2, <2>2 DEF ExportsInv, WriterInv, WriterOK, Opened
    <2>3. QED
      BY <2>1, <2>2
  <1>19. QED
    BY <1>8, <1>9, <1>12, <1>13, <1>14, <1>15, <1>16, <1>17, <1>18 DEF ExportsInv, RefreshInv

(* The newest snapshot is kept.                                            *)
LEMMA NewestIsKept ==
  ASSUME ExportsInv, NEW p \in Processes, call[p].pc \in Storing
  PROVE  \E m \in KeptSnapshots : call[p].number <= m /\ \A i \in DOMAIN snapshots : i <= m
  <1>1. PICK i \in DOMAIN snapshots : call[p].number <= i
    BY DEF ExportsInv, RefreshInv, StoredInv
  <1>2. /\ IsFiniteSet(DOMAIN snapshots) /\ DOMAIN snapshots \subseteq Nat \ {0}
        /\ call[p].number \in Nat \ {0}
    BY DEF ExportsInv, RefreshInv, NumbersInv, Refreshing
  <1> DEFINE m == Max(DOMAIN snapshots)
  <1>3. m \in DOMAIN snapshots /\ \A j \in DOMAIN snapshots : j <= m
    BY <1>1, <1>2, Extremes
  <1> HIDE DEF m
  <1>4. m \in Nat /\ i \in Nat /\ call[p].number <= m
    BY <1>1, <1>2, <1>3
  <1>5. snapshots[m].at \in Nat /\ call[p].started <= snapshots[m].at
    BY <1>2, <1>3, <1>4 DEF ExportsInv, RefreshInv, SnapshotsInv
  <1>6. call[p].started \in Nat /\ clock \in Nat /\ clock - call[p].started <= RetentionTime
    BY <1>2 DEF ExportsInv, RefreshInv, FoundInv, RunsInv
  <1>7. RetentionTime \in Nat /\ MaximumSnapshots \in Nat \ {0}
    BY ExportAssumption
  <1>8. clock - snapshots[m].at <= RetentionTime
    BY <1>5, <1>6, <1>7
  <1>9. {j \in DOMAIN snapshots : j > m} = {}
    BY <1>2, <1>3, <1>4
  <1>10. Cardinality({j \in DOMAIN snapshots : j > m}) = 0
    BY <1>9, FS_EmptySet
  <1>11. m \in KeptSnapshots
    BY <1>3, <1>7, <1>8, <1>10 DEF KeptSnapshots
  <1>12. QED
    BY <1>3, <1>4, <1>11

LEMMA PruneStep ==
  ASSUME ExportsInv, NEW p \in Processes, pruneSnapshots(p)
  PROVE  ExportsInv'
  <1>0. /\ call[p].pc = "prune" /\ file' = file /\ run' = run /\ clock' = clock
        /\ writer' = writer /\ Proceed(p, NextTask(p))
        /\ snapshots' = [i \in KeptSnapshots |-> snapshots[i]]
    BY DEF pruneSnapshots
  <1>1. DOMAIN call = Processes /\ DOMAIN call' = Processes /\ call'[p] = NextTask(p)
        /\ \A q \in Processes \ {p} : call'[q] = call[q]
    BY <1>0 DEF Proceed, ExportsInv, ShapeInv
  <1>2. Resting(call'[p]) /\ call'[p].number = 0
    BY <1>1, NextTaskRests DEF ExportsInv, Resting, Elsewhere
  <1>3. /\ KeptSnapshots \subseteq DOMAIN snapshots /\ DOMAIN snapshots' = KeptSnapshots
        /\ \A i \in KeptSnapshots : snapshots'[i] = snapshots[i]
    BY <1>0 DEF KeptSnapshots
  <1>4. call[p].pc \in Storing /\ call[p].number # 0
    BY <1>0 DEF ExportsInv, RefreshInv, NumbersInv, Storing, Refreshing
  <1>5. PICK m \in KeptSnapshots : call[p].number <= m /\ \A i \in DOMAIN snapshots : i <= m
    BY <1>4, NewestIsKept
  <1>6. /\ \A q \in Processes : call[q].number \in Nat
        /\ IsFiniteSet(DOMAIN snapshots) /\ DOMAIN snapshots \subseteq Nat \ {0}
        /\ m \in Nat
    BY <1>3, <1>5 DEF ExportsInv, RefreshInv, NumbersInv
  <1>7. IsFiniteSet(KeptSnapshots)
    BY <1>3, <1>6, FS_Subset
  <1>8. NumbersInv'
    <2>1. ASSUME NEW q \in Processes
          PROVE  /\ call'[q].number \in Nat
                 /\ call'[q].seen \subseteq Nat /\ IsFiniteSet(call'[q].seen)
                 /\ call'[q].number # 0 <=> call'[q].pc \in Refreshing
      <3>1. CASE q = p
        BY <1>2, <3>1 DEF Resting, Elsewhere
      <3>2. CASE q # p
        BY <1>1, <3>2 DEF ExportsInv, RefreshInv, NumbersInv
      <3>3. QED
        BY <3>1, <3>2
    <2>2. ASSUME NEW q \in Processes, NEW u \in Processes, q # u,
                 call'[q].number = call'[u].number, call'[q].number # 0
          PROVE  FALSE
      BY <1>1, <1>2, <2>2 DEF ExportsInv, RefreshInv, NumbersInv
    <2>3. QED
      BY <1>3, <1>6, <1>7, <2>1, <2>2 DEF NumbersInv
  <1>9. FoundInv'
    BY <1>0, <1>1, <1>2 DEF ExportsInv, RefreshInv, FoundInv, Exported, Reviewed
  <1>10. OrderInv'
    <2> SUFFICES ASSUME NEW q \in Processes, NEW u \in Processes, call'[q].number # 0,
                        call'[q].number <= call'[u].number
                 PROVE  /\ call'[q].started <= call'[u].started
                        /\ \A r \in Runs : call'[q].decided[r] <= call'[u].decided[r]
      BY DEF OrderInv
    <2>1. q # p
      BY <1>2
    <2>2. call'[q] = call[q] /\ call[q].number \in Nat \ {0}
      BY <1>1, <1>6, <2>1
    <2>3. u # p
      BY <1>2, <2>2
    <2>4. call'[u] = call[u]
      BY <1>1, <2>3
    <2>5. QED
      BY <2>2, <2>4 DEF ExportsInv, RefreshInv, OrderInv
  <1>11. TakenInv'
    BY <1>1, <1>2 DEF ExportsInv, RefreshInv, TakenInv, Resting, TaskNames, Carrying
  <1>12. SnapshotsInv'
    <2>1. \A q \in Processes : call'[q].number # 0 => call'[q] = call[q]
      BY <1>1, <1>2
    <2>2. \A i \in DOMAIN snapshots' : i \in DOMAIN snapshots /\ snapshots'[i] = snapshots[i]
      BY <1>3
    <2>3. QED
      BY <2>1, <2>2 DEF ExportsInv, RefreshInv, SnapshotsInv, Has
  <1>13. StoredInv'
    <2> SUFFICES ASSUME NEW q \in Processes, call'[q].pc \in Storing
                 PROVE  call'[q].number <= m
      BY <1>3, <1>5 DEF StoredInv
    <2>1. q # p
      BY <1>2 DEF Resting, Elsewhere, Refreshing
    <2>2. PICK i \in DOMAIN snapshots : call[q].number <= i
      BY <1>1, <2>1 DEF ExportsInv, RefreshInv, StoredInv
    <2>3. i <= m /\ i \in Nat /\ call'[q] = call[q] /\ call[q].number \in Nat
      BY <1>1, <1>5, <1>6, <2>1, <2>2
    <2>4. QED
      BY <1>6, <2>2, <2>3
  <1>14. \A r \in Runs : promised[r] \in Nat /\ call[p].decided[r] \in Nat
    BY <1>4 DEF ExportsInv, RefreshInv, PromisesInv, FoundInv
  <1>15. DOMAIN promised' = Runs /\ \A r \in Runs : promised'[r] \in {promised[r], call[p].decided[r]}
    <2>1. promised' = [r \in Runs |-> IF r \notin DOMAIN call[p].export THEN promised[r]
                                      ELSE Max({promised[r], call[p].decided[r]})]
      BY DEF pruneSnapshots
    <2>2. ASSUME NEW r \in Runs
          PROVE  Max({promised[r], call[p].decided[r]}) \in {promised[r], call[p].decided[r]}
      <3>0. PICK a \in Int, b \in Int : a = promised[r] /\ b = call[p].decided[r]
        BY <1>14
      <3>1. IsFiniteSet({a, b}) /\ {a, b} \subseteq Int /\ {a, b} # {}
        <4>1. IsFiniteSet({a}) /\ {a, b} = {a} \cup {b}
          BY FS_Singleton
        <4>2. QED
          BY <4>1, FS_AddElement
      <3>2. Max({a, b}) \in {a, b}
        BY <3>1, Extremes
      <3>3. QED
        BY <3>0, <3>2
    <2>3. QED
      BY <2>1, <2>2
  <1>16. PromisesInv'
    <2> SUFFICES ASSUME NEW r \in Runs
                 PROVE  /\ promised'[r] \in Nat
                        /\ promised'[r] > 0 => Exported(r)
                        /\ promised'[r] > 0 => HeldFrom(m, r, promised[r])'
      BY <1>0, <1>3, <1>15 DEF PromisesInv, Exported, Reviewed
    <2>1. CASE promised'[r] = promised[r]
      <3>1. promised[r] \in Nat /\ (promised[r] > 0 => Exported(r))
        BY DEF ExportsInv, RefreshInv, PromisesInv
      <3>2. ASSUME promised[r] > 0 PROVE HeldFrom(m, r, promised[r])'
        <4>1. PICK b \in DOMAIN snapshots : HeldFrom(b, r, promised[r])
          BY <3>2 DEF ExportsInv, RefreshInv, PromisesInv
        <4>2. b \in Nat /\ b <= m
          BY <1>5, <1>6, <4>1
        <4>3. ASSUME NEW i \in KeptSnapshots, m <= i PROVE Has(snapshots[i].records, r, promised[r])
          <5>1. i \in DOMAIN snapshots /\ i \in Nat
            BY <1>3, <1>6
          <5>2. b <= i
            BY <1>6, <4>2, <4>3, <5>1
          <5>3. QED
            BY <4>1, <5>1, <5>2 DEF HeldFrom
        <4>4. ASSUME NEW q \in Processes, m <= call'[q].number PROVE call'[q].decided[r] >= promised[r]
          <5>1. q # p
            BY <1>2, <1>3, <1>5, <1>6, <4>4
          <5>2. call'[q] = call[q] /\ call[q].number \in Nat
            BY <1>1, <1>6, <5>1
          <5>3. b <= call[q].number
            BY <1>6, <4>2, <4>4, <5>2
          <5>4. QED
            BY <4>1, <5>2, <5>3 DEF HeldFrom
        <4>5. QED
          BY <1>3, <2>1, <4>3, <4>4 DEF HeldFrom, Has
      <3>3. QED
        BY <2>1, <3>1, <3>2
    <2>2. CASE promised'[r] = call[p].decided[r]
      <3>1. call[p].decided[r] \in Nat /\ (call[p].decided[r] > 0 => Exported(r))
        BY <1>4 DEF ExportsInv, RefreshInv, FoundInv
      <3>2. ASSUME call[p].decided[r] > 0 PROVE HeldFrom(m, r, promised[r])'
        <4>1. ASSUME NEW i \in KeptSnapshots, m <= i
              PROVE  Has(snapshots[i].records, r, call[p].decided[r])
          <5>1. i \in DOMAIN snapshots /\ i \in Nat /\ call[p].number \in Nat
            BY <1>3, <1>6
          <5>2. call[p].number <= i
            BY <1>5, <1>6, <4>1, <5>1
          <5>3. QED
            BY <1>4, <3>2, <5>1, <5>2 DEF ExportsInv, RefreshInv, SnapshotsInv
        <4>2. ASSUME NEW q \in Processes, m <= call'[q].number
              PROVE  call'[q].decided[r] >= call[p].decided[r]
          <5>1. q # p
            BY <1>2, <1>3, <1>5, <1>6, <4>2
          <5>2. call'[q] = call[q] /\ call[q].number \in Nat /\ call[p].number \in Nat
            BY <1>1, <1>6, <5>1
          <5>3. call[p].number <= call[q].number /\ call[q].number # 0
            BY <1>4, <1>5, <1>6, <4>2, <5>2
          <5>4. call[p].decided[r] <= call[q].decided[r]
            BY <1>4, <5>3 DEF ExportsInv, RefreshInv, OrderInv
          <5>5. call[q].decided[r] \in Nat
            BY <5>3 DEF ExportsInv, RefreshInv, FoundInv
          <5>6. QED
            BY <3>1, <5>2, <5>4, <5>5
        <4>3. QED
          BY <1>3, <2>2, <4>1, <4>2 DEF HeldFrom, Has
      <3>3. QED
        BY <2>2, <3>1, <3>2
    <2>3. QED
      BY <1>15, <2>1, <2>2
  <1>17. HeldInv'
    <2>1. Held' \subseteq Held
      <3>1. ASSUME NEW q \in Processes, call'[q].pc \in Carrying PROVE call'[q].export \in Held
        <4>1. q # p
          BY <1>2, <3>1 DEF Resting, Elsewhere, Refreshing
        <4>2. QED
          BY <1>1, <3>1, <4>1 DEF Held
      <3>2. ASSUME NEW i \in DOMAIN snapshots' PROVE snapshots'[i].records \in Held
        BY <1>3 DEF Held
      <3>3. QED
        BY <1>0, <3>1, <3>2 DEF Held, Readable
    <2>2. \A f \in Held : Fits(f)'
      BY <1>0 DEF ExportsInv, RefreshInv, HeldInv, Fits, RecordOf
    <2>3. QED
      BY <2>1, <2>2 DEF ExportsInv, RefreshInv, HeldInv, Agree
  <1>18. ShapeInv'
    BY <1>0, <1>1, <1>2 DEF ExportsInv, ShapeInv, Resting
  <1>19. RunsInv'
    BY <1>0 DEF ExportsInv, RunsInv, Timely
  <1>20. WriterInv'
    <2> SUFFICES ASSUME NEW q \in Processes PROVE WriterOK(q)'
      BY DEF WriterInv
    <2>1. CASE q = p
      BY <1>2, <2>1 DEF WriterOK, Resting, TaskNames
    <2>2. CASE q # p
      BY <1>0, <1>1, <2>2 DEF ExportsInv, WriterInv, WriterOK, Opened
    <2>3. QED
      BY <2>1, <2>2
  <1>21. QED
    BY <1>8, <1>9, <1>10, <1>11, <1>12, <1>13, <1>16, <1>17, <1>18, <1>19, <1>20
       DEF ExportsInv, RefreshInv

LEMMA RefreshSteps ==
  ASSUME ExportsInv, NEW p \in Processes, RefreshStep(p)
  PROVE  ExportsInv'
  BY StartRefreshStep, ExportRunsStep, RefreshFiles, WriteSnapshotStep, PruneStep DEF RefreshStep
-----------------------------------------------------------------------------
(* A decision and the clock: records are older, and stamped earlier, than  *)
(* what a run becomes.                                                     *)
Decided(x, n, state, now, label) ==
    [x EXCEPT !.decisions = n, !.review = state, !.updatedAt = now, !.label = label]

LEMMA DecidedRecord ==
  ASSUME NEW x \in RunRecord, NEW n \in Nat, NEW state \in STRING, NEW now \in Nat,
         NEW label \in Nat \cup {None}
  PROVE  LET y == Decided(x, n, state, now, label)
         IN  /\ y \in RunRecord /\ y.decisions = n /\ y.updatedAt = now
             /\ y.status = x.status /\ y.label = label
  BY DEF RunRecord, Decided

LEMMA DecideStep ==
  ASSUME ExportsInv, NEW r \in Runs, NEW state \in Outcomes, NEW labels \in BOOLEAN,
         Decide(r, state, labels)
  PROVE  ExportsInv'
  <1>0. /\ file' = file /\ call' = call /\ clock' = clock /\ snapshots' = snapshots
        /\ promised' = promised /\ writer' = writer /\ run[r].status = "COMPLETED"
    BY DEF Decide
  <1>1. run \in [Runs -> RunRecord] /\ clock \in Nat /\ state \in STRING
        /\ \A q \in Runs : Timely(run[q])
    BY MonitoringAssumption DEF ExportsInv, RunsInv
  <1>2. run[r] \in RunRecord
    BY <1>1
  <1>3. PICK n \in Nat, label \in Nat \cup {None} :
           n = run[r].decisions + 1 /\ label = IF labels THEN clock ELSE run[r].label
    <2>1. run[r].decisions + 1 \in Nat /\ run[r].label \in Nat \cup {None}
      BY <1>2 DEF RunRecord
    <2>2. QED
      BY <1>1, <2>1
  <1>4. PICK x : x = Decided(run[r], n, state, clock, label)
    OBVIOUS
  <1>5. run' = [run EXCEPT ![r] = x]
    BY <1>1, <1>3, <1>4 DEF Decide, Decided
  <1>6. /\ x \in RunRecord /\ x.decisions = run[r].decisions + 1 /\ x.updatedAt = clock
        /\ x.status = run[r].status /\ x.label = IF labels THEN clock ELSE run[r].label
    <2>1. clock \in Nat /\ state \in STRING
      BY <1>1
    <2>2. /\ x \in RunRecord /\ x.decisions = n /\ x.updatedAt = clock
          /\ x.status = run[r].status /\ x.label = label
      BY <1>2, <1>4, <2>1, DecidedRecord, SMTT(60)
    <2>3. QED
      BY <1>3, <2>2
  <1>7. run'[r] = x /\ \A q \in Runs \ {r} : run'[q] = run[q]
    BY <1>1, <1>5
  <1>8. RunsInv'
    <2>1. run' \in [Runs -> RunRecord]
      BY <1>1, <1>5, <1>6
    <2>2. clock' \in Nat
      BY <1>0, <1>1
    <2>3. Timely(x)
      BY <1>0, <1>1, <1>2, <1>6 DEF Timely, RunRecord
    <2>4. \A q \in Runs : Timely(run'[q])
      BY <1>1, <1>7, <2>3
    <2>5. QED
      BY <1>0, <2>1, <2>2, <2>4 DEF RunsInv, Timely
  <1>9. ASSUME NEW q \in Runs
        PROVE  /\ run[q].decisions \in Nat /\ run'[q].decisions \in Nat
               /\ run[q].decisions <= run'[q].decisions
    <2>1. run[q] \in RunRecord
      BY <1>1
    <2>2. CASE q = r
      BY <1>6, <1>7, <2>1, <2>2 DEF RunRecord
    <2>3. CASE q # r
      BY <1>7, <2>1, <2>3 DEF RunRecord
    <2>4. QED
      BY <2>2, <2>3
  <1>10. ASSUME NEW q \in Runs, Exported(q) PROVE Exported(q)'
    <2>1. CASE q = r
      <3>1. clock # None
        BY <1>1, SampleAssumption
      <3>2. run[r].decisions \in Nat
        BY <1>9
      <3>3. QED
        BY <1>0, <1>6, <1>7, <1>10, <2>1, <3>1, <3>2 DEF Exported, Reviewed
    <2>2. CASE q # r
      BY <1>7, <1>10, <2>2 DEF Exported, Reviewed
    <2>3. QED
      BY <2>1, <2>2
  <1>11. NumbersInv' /\ OrderInv' /\ TakenInv' /\ SnapshotsInv' /\ StoredInv'
    BY <1>0 DEF ExportsInv, RefreshInv, NumbersInv, OrderInv, TakenInv, SnapshotsInv, StoredInv, Has
  <1>12. FoundInv'
    <2> SUFFICES ASSUME NEW p \in Processes, call[p].number # 0
                 PROVE  /\ call[p].started \in Nat /\ call[p].started <= clock
                        /\ clock - call[p].started <= RetentionTime
                        /\ \A q \in Runs : /\ call[p].decided[q] \in Nat
                                           /\ call[p].decided[q] <= run'[q].decisions
                                           /\ call[p].decided[q] > 0 => Exported(q)'
      BY <1>0 DEF FoundInv
    <2>1. /\ call[p].started \in Nat /\ call[p].started <= clock
          /\ clock - call[p].started <= RetentionTime
          /\ \A q \in Runs : /\ call[p].decided[q] \in Nat
                             /\ call[p].decided[q] <= run[q].decisions
                             /\ call[p].decided[q] > 0 => Exported(q)
      BY DEF ExportsInv, RefreshInv, FoundInv
    <2>2. ASSUME NEW q \in Runs
          PROVE  /\ call[p].decided[q] <= run'[q].decisions
                 /\ call[p].decided[q] > 0 => Exported(q)'
      <3>1. PICK a \in Int, b \in Int, d \in Int :
               a = run[q].decisions /\ b = run'[q].decisions /\ d = call[p].decided[q]
               /\ a <= b /\ d <= a
        BY <1>9, <2>1
      <3>2. d <= b
        BY <3>1
      <3>3. QED
        BY <1>10, <2>1, <3>1, <3>2
    <2>3. QED
      BY <2>1, <2>2
  <1>13. PromisesInv'
    <2> SUFFICES ASSUME NEW q \in Runs, promised[q] > 0
                 PROVE  /\ Exported(q)'
                        /\ \E b \in DOMAIN snapshots' : HeldFrom(b, q, promised[q])'
      BY <1>0 DEF ExportsInv, RefreshInv, PromisesInv
    <2>1. Exported(q)'
      BY <1>10 DEF ExportsInv, RefreshInv, PromisesInv
    <2>2. PICK b \in DOMAIN snapshots : HeldFrom(b, q, promised[q])
      BY DEF ExportsInv, RefreshInv, PromisesInv
    <2>3. HeldFrom(b, q, promised[q])'
      BY <1>0, <2>2 DEF HeldFrom, Has
    <2>4. QED
      BY <1>0, <2>1, <2>2, <2>3
  <1>14. HeldInv'
    <2>1. Held' = Held
      BY <1>0 DEF Held, Readable
    <2>2. ASSUME NEW f \in Held PROVE Fits(f)'
      <3>1. Fits(f)
        BY DEF ExportsInv, RefreshInv, HeldInv
      <3> SUFFICES ASSUME NEW q \in DOMAIN f
                   PROVE  /\ f[q] \in ExportRecord
                          /\ \/ f[q] = RecordOf(q)'
                             \/ /\ f[q].decisions < run'[q].decisions
                                /\ reviewedRecordTimestamp(f[q]) <= reviewedRecordTimestamp(RecordOf(q)')
        BY <3>1 DEF Fits, reviewedRecordTimestamp
      <3>2. q \in Runs /\ f[q] \in ExportRecord
        BY <3>1 DEF Fits
      <3>3. CASE q # r
        BY <1>7, <3>1, <3>2, <3>3 DEF Fits, RecordOf
      <3>4. CASE q = r
        <4>1. /\ RecordOf(r) \in ExportRecord /\ RecordOf(r).decisions = run[r].decisions
              /\ reviewedRecordTimestamp(RecordOf(r)) <= clock
          BY RecordType DEF ExportsInv
        <4>2. /\ f[r].decisions \in Nat /\ f[r].decisions <= run[r].decisions
              /\ reviewedRecordTimestamp(f[r]) <= reviewedRecordTimestamp(RecordOf(r))
          <5>1. CASE f[r] = RecordOf(r)
            <6>1. f[r].decisions = run[r].decisions
              BY <4>1, <5>1
            <6>2. reviewedRecordTimestamp(RecordOf(r)) \in Nat
              BY <4>1, StampType
            <6>3. QED
              BY <1>9, <5>1, <6>1, <6>2
          <5>2. CASE f[r] # RecordOf(r)
            <6>1. /\ f[r].decisions < run[r].decisions
                  /\ reviewedRecordTimestamp(f[r]) <= reviewedRecordTimestamp(RecordOf(r))
              BY <3>1, <3>4, <5>2 DEF Fits
            <6>2. f[r].decisions \in Nat
              BY <3>2, <3>4 DEF ExportRecord
            <6>3. QED
              BY <1>9, <6>1, <6>2
          <5>3. QED
            BY <5>1, <5>2
        <4>3. RecordOf(r)' = [decisions |-> x.decisions, updatedAt |-> x.updatedAt, label |-> x.label]
          BY <1>7 DEF RecordOf
        <4>4. RecordOf(r) = [decisions |-> run[r].decisions, updatedAt |-> run[r].updatedAt,
                             label |-> run[r].label]
          BY DEF RecordOf
        <4>5. clock # None
          BY <1>1, SampleAssumption
        <4>6. /\ run[r].label # None => run[r].label \in Nat /\ run[r].label <= run[r].updatedAt
              /\ run[r].updatedAt \in Nat /\ run[r].updatedAt <= clock
          BY <1>1, <1>2 DEF RunRecord, Timely
        <4>7. reviewedRecordTimestamp(RecordOf(r)) <= reviewedRecordTimestamp(RecordOf(r)')
              /\ reviewedRecordTimestamp(RecordOf(r)') \in Nat
          BY <1>1, <1>6, <4>3, <4>4, <4>5, <4>6 DEF reviewedRecordTimestamp
        <4>8. reviewedRecordTimestamp(f[r]) \in Nat /\ reviewedRecordTimestamp(RecordOf(r)) \in Nat
          BY <3>2, <3>4, <4>1, StampType
        <4>9. f[r].decisions < run'[r].decisions
          <5>1. run'[r].decisions = run[r].decisions + 1 /\ run[r].decisions \in Nat
            BY <1>6, <1>7, <1>9
          <5>2. QED
            BY <4>2, <5>1
        <4>10. QED
          BY <3>2, <3>4, <4>2, <4>7, <4>8, <4>9
      <3>5. QED
        BY <3>3, <3>4
    <2>3. QED
      BY <2>1, <2>2 DEF ExportsInv, RefreshInv, HeldInv, Agree
  <1>15. ShapeInv' /\ WriterInv'
    BY <1>0 DEF ExportsInv, ShapeInv, WriterInv, WriterOK, Opened
  <1>16. QED
    BY <1>8, <1>11, <1>12, <1>13, <1>14, <1>15 DEF ExportsInv, RefreshInv

LEMMA HourStep ==
  ASSUME ExportsInv, Hour
  PROVE  ExportsInv'
  <1>0. /\ file' = file /\ call' = call /\ snapshots' = snapshots /\ run' = run
        /\ promised' = promised /\ writer' = writer /\ clock' = clock + 1 /\ clock \in Nat
        /\ \A p \in Processes : call[p].number # 0 => clock' - call[p].started <= RetentionTime
    BY DEF Hour, ExportsInv, RunsInv
  <1>1. RunsInv'
    <2>1. \A r \in Runs : Timely(run[r]) /\ run[r] \in RunRecord
      BY DEF ExportsInv, RunsInv
    <2>2. \A r \in Runs : Timely(run[r])'
      BY <1>0, <2>1 DEF Timely, RunRecord
    <2>3. QED
      BY <1>0, <2>2 DEF ExportsInv, RunsInv
  <1>2. NumbersInv' /\ OrderInv' /\ TakenInv' /\ SnapshotsInv' /\ StoredInv'
    BY <1>0 DEF ExportsInv, RefreshInv, NumbersInv, OrderInv, TakenInv, SnapshotsInv, StoredInv, Has
  <1>3. FoundInv'
    BY <1>0 DEF ExportsInv, RefreshInv, FoundInv, Exported, Reviewed
  <1>4. PromisesInv'
    BY <1>0 DEF ExportsInv, RefreshInv, PromisesInv, HeldFrom, Has, Exported, Reviewed
  <1>5. HeldInv'
    <2>1. Held' = Held
      BY <1>0 DEF Held, Readable
    <2>2. \A f \in Held : Fits(f)'
      BY <1>0 DEF ExportsInv, RefreshInv, HeldInv, Fits, RecordOf
    <2>3. QED
      BY <2>1, <2>2 DEF ExportsInv, RefreshInv, HeldInv, Agree
  <1>6. ShapeInv' /\ WriterInv'
    BY <1>0 DEF ExportsInv, ShapeInv, WriterInv, WriterOK, Opened
  <1>7. QED
    BY <1>1, <1>2, <1>3, <1>4, <1>5, <1>6 DEF ExportsInv, RefreshInv

LEMMA UnchangedExports ==
  ASSUME ExportsInv, UNCHANGED exportVars
  PROVE  ExportsInv'
  <1>0. /\ file' = file /\ call' = call /\ snapshots' = snapshots /\ run' = run
        /\ promised' = promised /\ writer' = writer /\ clock' = clock
    BY DEF exportVars
  <1>1. RefreshInv'
    <2>1. Onward
      BY <1>0 DEF Onward, SameRefresh
    <2>2. LatestHeld
      BY <1>0, SameFiles
    <2>3. QED
      BY <1>0, <2>1, <2>2, Unmoved DEF ExportsInv
  <1>2. ShapeInv' /\ WriterInv' /\ RunsInv'
    BY <1>0 DEF ExportsInv, ShapeInv, WriterInv, WriterOK, Opened, RunsInv, Timely
  <1>3. QED
    BY <1>1, <1>2 DEF ExportsInv
-----------------------------------------------------------------------------
(* Everyone else.                                                          *)
LEMMA NotRefreshing ==
  ASSUME ExportsInv, NEW p \in Processes, call[p].pc \notin Refreshing
  PROVE  /\ DOMAIN call[p] = CallFields /\ call[p].plan \in Seq(TaskNames)
         /\ call[p].number = 0 /\ call[p].seen \subseteq Nat /\ IsFiniteSet(call[p].seen)
  BY DEF ExportsInv, ShapeInv, RefreshInv, NumbersInv

LEMMA ListedFiles ==
  ASSUME ExportsInv
  PROVE  resolveReviewedDatasetFiles \subseteq Nat /\ IsFiniteSet(resolveReviewedDatasetFiles)
  <1>1. IsFiniteSet(DOMAIN snapshots) /\ DOMAIN snapshots \subseteq Nat \ {0}
    BY DEF ExportsInv, RefreshInv, NumbersInv
  <1>2. IsFiniteSet({0}) /\ IsFiniteSet(DOMAIN snapshots \cup {0})
    BY <1>1, FS_Singleton, FS_AddElement
  <1>3. resolveReviewedDatasetFiles \in SUBSET (DOMAIN snapshots \cup {0})
    BY DEF resolveReviewedDatasetFiles
  <1>4. IsFiniteSet(resolveReviewedDatasetFiles)
    BY <1>2, <1>3, FS_Subset
  <1>5. QED
    BY <1>1, <1>3, <1>4

(* What a call does next, with other locals, is none of a refresh.         *)
LEMMA GoesOn ==
  ASSUME ExportsInv, NEW p \in Processes, call[p].pc \notin Refreshing, NEW x,
         DOMAIN x = DOMAIN call[p], x.plan = call[p].plan, x.number = call[p].number,
         x.seen \subseteq Nat, IsFiniteSet(x.seen), x.pc \notin Refreshing \cup {"writeConfig", "put"},
         Proceed(p, x), writer' = writer, file' = file,
         run' = run, clock' = clock, snapshots' = snapshots, promised' = promised
  PROVE  ExportsInv'
  <1>1. Elsewhere(x)
    BY NotRefreshing DEF Elsewhere
  <1>2. QED
    BY <1>1, LocalStep

LEMMA ApplySteps ==
  ASSUME ExportsInv, NEW p \in Processes,
         StartApplyAll(p) \/ applyRecommendedThresholds(p) \/ recommendThresholds(p)
         \/ LoadRecommendation(p) \/ Measure(p)
  PROVE  ExportsInv'
  <1> DEFINE c == call[p]
  <1>1. CASE StartApplyAll(p)
    <2> DEFINE config == file.config.now
               policy == [force |-> FALSE, enable |-> config.enabled, interval |-> config.interval,
                          minima |-> config.minima, autoApply |-> config.autoApply]
    <2>0. c.pc = "applyAll" /\ file' = file /\ run' = run /\ clock' = clock
          /\ snapshots' = snapshots /\ promised' = promised
      BY <1>1 DEF StartApplyAll
    <2>1. \/ Throw(p)
          \/ Proceed(p, NextTask(p)) /\ writer' = writer
          \/ Proceed(p, [c EXCEPT !.pc = "apply", !.ask = policy]) /\ writer' = writer
      BY <1>1 DEF StartApplyAll
    <2>2. CASE Proceed(p, [c EXCEPT !.pc = "apply", !.ask = policy]) /\ writer' = writer
      <3>1. PICK x : x = [c EXCEPT !.pc = "apply", !.ask = policy]
        OBVIOUS
      <3>2. c.pc \notin Refreshing
        BY <2>0 DEF Refreshing, Carrying, Storing
      <3>3. DOMAIN x = DOMAIN c /\ x.plan = c.plan /\ x.number = c.number /\ x.seen = c.seen
            /\ x.pc = "apply"
        BY <3>1, <3>2, NotRefreshing DEF CallFields
      <3>4. x.pc \notin Refreshing \cup {"writeConfig", "put"}
        BY <3>3 DEF Refreshing, Carrying, Storing
      <3>5. Proceed(p, x)
        BY <2>2, <3>1
      <3>6. QED
        BY <2>0, <2>2, <3>2, <3>3, <3>4, <3>5, NotRefreshing, GoesOn
    <2>3. QED
      BY <2>0, <2>1, <2>2, ThrowStep, LeaveStep
  <1>2. CASE applyRecommendedThresholds(p)
    <2>0. c.pc = "apply" /\ file' = file /\ run' = run /\ clock' = clock /\ writer' = writer
          /\ snapshots' = snapshots /\ promised' = promised
      BY <1>2 DEF applyRecommendedThresholds
    <2>1. PICK x : x = [c EXCEPT !.pc = "recommend", !.base = GetConfig, !.started = clock]
      OBVIOUS
    <2>2. c.pc \notin Refreshing
      BY <2>0 DEF Refreshing, Carrying, Storing
    <2>3. DOMAIN x = DOMAIN c /\ x.plan = c.plan /\ x.number = c.number /\ x.seen = c.seen
          /\ x.pc = "recommend"
      BY <2>1, <2>2, NotRefreshing DEF CallFields
    <2>4. x.pc \notin Refreshing \cup {"writeConfig", "put"}
      BY <2>3 DEF Refreshing, Carrying, Storing
    <2>5. Proceed(p, x)
      BY <1>2, <2>1 DEF applyRecommendedThresholds
    <2>6. QED
      BY <2>0, <2>2, <2>3, <2>4, <2>5, NotRefreshing, GoesOn
  <1>3. CASE recommendThresholds(p)
    <2>0. c.pc = "recommend" /\ file' = file /\ run' = run /\ clock' = clock /\ writer' = writer
          /\ snapshots' = snapshots /\ promised' = promised
      BY <1>3 DEF recommendThresholds
    <2>1. PICK x : x = [c EXCEPT !.pc = "loadRecommend", !.found = GetConfig,
                                 !.runs = windowedRuns, !.seen = resolveReviewedDatasetFiles]
      OBVIOUS
    <2>2. c.pc \notin Refreshing
      BY <2>0 DEF Refreshing, Carrying, Storing
    <2>3. DOMAIN x = DOMAIN c /\ x.plan = c.plan /\ x.number = c.number
          /\ x.seen = resolveReviewedDatasetFiles /\ x.pc = "loadRecommend"
      BY <2>1, <2>2, NotRefreshing DEF CallFields
    <2>4. x.pc \notin Refreshing \cup {"writeConfig", "put"}
      BY <2>3 DEF Refreshing, Carrying, Storing
    <2>5. Proceed(p, x)
      BY <1>3, <2>1 DEF recommendThresholds
    <2>6. QED
      BY <2>0, <2>2, <2>3, <2>4, <2>5, ListedFiles, GoesOn
  <1>4. CASE LoadRecommendation(p)
    <2> DEFINE samples == SamplesOf(Windowed(loadReviewedExportRecords(c.seen)))
    <2>0. c.pc = "loadRecommend" /\ file' = file /\ run' = run /\ clock' = clock
          /\ snapshots' = snapshots /\ promised' = promised
      BY <1>4 DEF LoadRecommendation
    <2>1. \/ Throw(p)
          \/ /\ Proceed(p, [c EXCEPT !.pc = "measure", !.seen = {}, !.dataset = samples])
             /\ writer' = writer
      BY <1>4 DEF LoadRecommendation
    <2>2. CASE /\ Proceed(p, [c EXCEPT !.pc = "measure", !.seen = {}, !.dataset = samples])
               /\ writer' = writer
      <3>1. PICK x : x = [c EXCEPT !.pc = "measure", !.seen = {}, !.dataset = samples]
        OBVIOUS
      <3>2. c.pc \notin Refreshing
        BY <2>0 DEF Refreshing, Carrying, Storing
      <3>3. DOMAIN x = DOMAIN c /\ x.plan = c.plan /\ x.number = c.number /\ x.seen = {}
            /\ x.pc = "measure"
        BY <3>1, <3>2, NotRefreshing DEF CallFields
      <3>4. x.pc \notin Refreshing \cup {"writeConfig", "put"} /\ IsFiniteSet(x.seen)
        BY <3>3, FS_EmptySet DEF Refreshing, Carrying, Storing
      <3>5. Proceed(p, x)
        BY <2>2, <3>1
      <3>6. QED
        BY <2>0, <2>2, <3>2, <3>3, <3>4, <3>5, GoesOn
    <2>3. QED
      BY <2>0, <2>1, <2>2, ThrowStep
  <1>5. CASE Measure(p)
    <2> DEFINE measured == [config |-> c.found, measured |-> Measurements(c.runs, c.dataset)]
    <2>0. c.pc = "measure" /\ file' = file /\ run' = run /\ clock' = clock /\ writer' = writer
          /\ snapshots' = snapshots /\ promised' = promised
      BY <1>5 DEF Measure
    <2>1. PICK x : x = [c EXCEPT !.pc = "openConfig", !.runs = None, !.dataset = None,
                                 !.found = measured]
      OBVIOUS
    <2>2. c.pc \notin Refreshing
      BY <2>0 DEF Refreshing, Carrying, Storing
    <2>3. DOMAIN x = DOMAIN c /\ x.plan = c.plan /\ x.number = c.number /\ x.seen = c.seen
          /\ x.pc = "openConfig"
      BY <2>1, <2>2, NotRefreshing DEF CallFields
    <2>4. x.pc \notin Refreshing \cup {"writeConfig", "put"}
      BY <2>3 DEF Refreshing, Carrying, Storing
    <2>5. Proceed(p, x)
      BY <1>5, <2>1 DEF Measure
    <2>6. QED
      BY <2>0, <2>2, <2>3, <2>4, <2>5, NotRefreshing, GoesOn
  <1>6. QED
    BY <1>1, <1>2, <1>3, <1>4, <1>5

(* A call that rewrites the configuration.                                 *)
LEMMA ConfigSteps ==
  ASSUME ExportsInv, NEW p \in Processes,
         \/ OpenConfig(p) \/ WriteConfig(p) \/ FinishPut(p)
         \/ \E config \in Configs : PutConfig(p, config)
  PROVE  ExportsInv'
  <1> DEFINE c == call[p]
  <1>1. CASE OpenConfig(p)
    <2>0. c.pc = "openConfig" /\ run' = run /\ clock' = clock
          /\ snapshots' = snapshots /\ promised' = promised
      BY <1>1 DEF OpenConfig
    <2>1. PICK data, found : /\ Open(p, "config", "now", data)
                            /\ Proceed(p, [c EXCEPT !.pc = "writeConfig", !.found = found])
      BY <1>1 DEF OpenConfig
    <2>2. PICK x : x = [c EXCEPT !.pc = "writeConfig", !.found = found]
      OBVIOUS
    <2>3. c.pc \notin Refreshing
      BY <2>0 DEF Refreshing, Carrying, Storing
    <2>4. DOMAIN x = CallFields /\ x.plan = c.plan /\ x.number = c.number /\ x.seen = c.seen
          /\ x.pc = "writeConfig"
      BY <2>2, <2>3, NotRefreshing DEF CallFields
    <2>5. Elsewhere(x)
      BY <2>3, <2>4, NotRefreshing DEF Elsewhere, Refreshing, Carrying, Storing
    <2>6. FilesStay /\ LatestHeld /\ WritersStay(p) /\ Opened(p, "config")'
      BY <2>1, OpensFile
    <2>7. Proceed(p, x)
      BY <2>1, <2>2
    <2>8. call'[p] = x
      BY <2>7 DEF Proceed, ExportsInv, ShapeInv
    <2>9. WriterOK(p)'
      BY <2>4, <2>6, <2>8 DEF WriterOK
    <2>10. x.plan \in Seq(TaskNames)
      BY <2>5 DEF Elsewhere
    <2>11. QED
      BY <2>0, <2>4, <2>5, <2>6, <2>7, <2>9, <2>10, CallStep
  <1>2. CASE WriteConfig(p)
    <2>0. c.pc = "writeConfig" /\ run' = run /\ clock' = clock
          /\ snapshots' = snapshots /\ promised' = promised
          /\ Write(p) /\ Proceed(p, NextTask(p))
      BY <1>2 DEF WriteConfig
    <2>1. Opened(p, "config")
      BY <2>0 DEF ExportsInv, WriterInv, WriterOK
    <2>2. FilesStay /\ LatestHeld /\ WritersStay(p)
      BY <2>0, <2>1, WritesFile
    <2>3. Resting(NextTask(p))
      BY NextTaskRests DEF ExportsInv
    <2>4. QED
      BY <2>0, <2>2, <2>3, RestStep
  <1>3. CASE FinishPut(p)
    <2>0. c.pc = "put" /\ run' = run /\ clock' = clock
          /\ snapshots' = snapshots /\ promised' = promised
          /\ Write(p) /\ Proceed(p, Idle)
      BY <1>3 DEF FinishPut
    <2>1. Opened(p, "config")
      BY <2>0 DEF ExportsInv, WriterInv, WriterOK
    <2>2. FilesStay /\ LatestHeld /\ WritersStay(p)
      BY <2>0, <2>1, WritesFile
    <2>3. Resting(Idle)
      BY IdleRests DEF Resting
    <2>4. QED
      BY <2>0, <2>2, <2>3, RestStep
  <1>4. ASSUME NEW config \in Configs, PutConfig(p, config) PROVE ExportsInv'
    <2>0. run' = run /\ clock' = clock
          /\ snapshots' = snapshots /\ promised' = promised
          /\ Open(p, "config", "now", config) /\ Proceed(p, [Idle EXCEPT !.pc = "put"])
      BY <1>4 DEF PutConfig
    <2>1. PICK x : x = [Idle EXCEPT !.pc = "put"]
      OBVIOUS
    <2>2. DOMAIN x = CallFields /\ x.plan = Idle.plan /\ x.number = Idle.number
          /\ x.seen = Idle.seen /\ x.pc = "put"
      BY <2>1, IdleRests DEF CallFields
    <2>3. Elsewhere(x) /\ x.plan \in Seq(TaskNames)
      BY <2>2, IdleRests DEF Elsewhere, Refreshing, Carrying, Storing
    <2>4. FilesStay /\ LatestHeld /\ WritersStay(p) /\ Opened(p, "config")'
      BY <2>0, OpensFile
    <2>5. Proceed(p, x)
      BY <2>0, <2>1
    <2>6. call'[p] = x
      BY <2>5 DEF Proceed, ExportsInv, ShapeInv
    <2>7. WriterOK(p)'
      BY <2>2, <2>4, <2>6 DEF WriterOK
    <2>8. QED
      BY <2>0, <2>2, <2>3, <2>4, <2>5, <2>7, CallStep
  <1>5. QED
    BY <1>1, <1>2, <1>3, <1>4

LEMMA ReportSteps ==
  ASSUME ExportsInv, NEW p \in Processes,
         \/ runConfiguredValidations(p) \/ buildReviewedDatasetSummary(p)
         \/ runScope(p) \/ LoadScope(p) \/ buildReport(p) \/ saveReport(p)
  PROVE  ExportsInv'
  <1> DEFINE c == call[p]
  <1>1. CASE runConfiguredValidations(p)
    <2>0. c.pc = "validate" /\ file' = file /\ run' = run /\ clock' = clock
          /\ snapshots' = snapshots /\ promised' = promised
      BY <1>1 DEF runConfiguredValidations
    <2>1. \/ Throw(p)
          \/ Proceed(p, NextTask(p)) /\ writer' = writer
          \/ /\ Proceed(p, [c EXCEPT !.pc = "readiness", !.seen = resolveReviewedDatasetFiles])
             /\ writer' = writer
      BY <1>1 DEF runConfiguredValidations
    <2>2. CASE /\ Proceed(p, [c EXCEPT !.pc = "readiness", !.seen = resolveReviewedDatasetFiles])
               /\ writer' = writer
      <3>1. PICK x : x = [c EXCEPT !.pc = "readiness", !.seen = resolveReviewedDatasetFiles]
        OBVIOUS
      <3>2. c.pc \notin Refreshing
        BY <2>0 DEF Refreshing, Carrying, Storing
      <3>3. DOMAIN x = DOMAIN c /\ x.plan = c.plan /\ x.number = c.number
            /\ x.seen = resolveReviewedDatasetFiles /\ x.pc = "readiness"
        BY <3>1, <3>2, NotRefreshing DEF CallFields
      <3>4. x.pc \notin Refreshing \cup {"writeConfig", "put"}
        BY <3>3 DEF Refreshing, Carrying, Storing
      <3>5. Proceed(p, x)
        BY <2>2, <3>1
      <3>6. QED
        BY <2>0, <2>2, <3>2, <3>3, <3>4, <3>5, ListedFiles, GoesOn
    <2>3. QED
      BY <2>0, <2>1, <2>2, ThrowStep, LeaveStep
  <1>2. CASE buildReviewedDatasetSummary(p)
    <2>0. c.pc = "readiness" /\ file' = file /\ run' = run /\ clock' = clock
          /\ snapshots' = snapshots /\ promised' = promised
      BY <1>2 DEF buildReviewedDatasetSummary
    <2>1. \/ Throw(p)
          \/ Proceed(p, NextTask(p)) /\ writer' = writer
          \/ Proceed(p, [c EXCEPT !.pc = "scope", !.seen = {}]) /\ writer' = writer
      BY <1>2 DEF buildReviewedDatasetSummary
    <2>2. CASE Proceed(p, [c EXCEPT !.pc = "scope", !.seen = {}]) /\ writer' = writer
      <3>1. PICK x : x = [c EXCEPT !.pc = "scope", !.seen = {}]
        OBVIOUS
      <3>2. c.pc \notin Refreshing
        BY <2>0 DEF Refreshing, Carrying, Storing
      <3>3. DOMAIN x = DOMAIN c /\ x.plan = c.plan /\ x.number = c.number /\ x.seen = {}
            /\ x.pc = "scope"
        BY <3>1, <3>2, NotRefreshing DEF CallFields
      <3>4. x.pc \notin Refreshing \cup {"writeConfig", "put"} /\ IsFiniteSet(x.seen)
        BY <3>3, FS_EmptySet DEF Refreshing, Carrying, Storing
      <3>5. Proceed(p, x)
        BY <2>2, <3>1
      <3>6. QED
        BY <2>0, <2>2, <3>2, <3>3, <3>4, <3>5, GoesOn
    <2>3. QED
      BY <2>0, <2>1, <2>2, ThrowStep, LeaveStep
  <1>3. CASE runScope(p)
    <2>0. c.pc = "scope" /\ file' = file /\ run' = run /\ clock' = clock /\ writer' = writer
          /\ snapshots' = snapshots /\ promised' = promised
      BY <1>3 DEF runScope
    <2>1. PICK x : x = [c EXCEPT !.pc = "loadScope", !.base = GetConfig.thresholds,
                                 !.runs = windowedRuns, !.seen = resolveReviewedDatasetFiles]
      OBVIOUS
    <2>2. c.pc \notin Refreshing
      BY <2>0 DEF Refreshing, Carrying, Storing
    <2>3. DOMAIN x = DOMAIN c /\ x.plan = c.plan /\ x.number = c.number
          /\ x.seen = resolveReviewedDatasetFiles /\ x.pc = "loadScope"
      BY <2>1, <2>2, NotRefreshing DEF CallFields
    <2>4. x.pc \notin Refreshing \cup {"writeConfig", "put"}
      BY <2>3 DEF Refreshing, Carrying, Storing
    <2>5. Proceed(p, x)
      BY <1>3, <2>1 DEF runScope
    <2>6. QED
      BY <2>0, <2>2, <2>3, <2>4, <2>5, ListedFiles, GoesOn
  <1>4. CASE LoadScope(p)
    <2>0. c.pc = "loadScope" /\ file' = file /\ run' = run /\ clock' = clock
          /\ snapshots' = snapshots /\ promised' = promised
      BY <1>4 DEF LoadScope
    <2>1. \/ Throw(p)
          \/ \E samples, versions :
                /\ Proceed(p, [c EXCEPT !.pc = "report", !.seen = {}, !.dataset = samples,
                                        !.todo = versions])
                /\ writer' = writer
      BY <1>4 DEF LoadScope
    <2>2. ASSUME NEW samples, NEW versions, writer' = writer,
                 Proceed(p, [c EXCEPT !.pc = "report", !.seen = {}, !.dataset = samples,
                                      !.todo = versions])
          PROVE  ExportsInv'
      <3>1. PICK x : x = [c EXCEPT !.pc = "report", !.seen = {}, !.dataset = samples,
                                   !.todo = versions]
        OBVIOUS
      <3>2. c.pc \notin Refreshing
        BY <2>0 DEF Refreshing, Carrying, Storing
      <3>3. DOMAIN x = DOMAIN c /\ x.plan = c.plan /\ x.number = c.number /\ x.seen = {}
            /\ x.pc = "report"
        BY <3>1, <3>2, NotRefreshing DEF CallFields
      <3>4. x.pc \notin Refreshing \cup {"writeConfig", "put"} /\ IsFiniteSet(x.seen)
        BY <3>3, FS_EmptySet DEF Refreshing, Carrying, Storing
      <3>5. Proceed(p, x)
        BY <2>2, <3>1
      <3>6. QED
        BY <2>0, <2>2, <3>2, <3>3, <3>4, <3>5, GoesOn
    <2>3. QED
      BY <2>0, <2>1, <2>2, ThrowStep
  <1>5. CASE buildReport(p)
    <2>0. c.pc = "report" /\ file' = file /\ run' = run /\ clock' = clock
          /\ snapshots' = snapshots /\ promised' = promised
      BY <1>5 DEF buildReport
    <2>1. \/ Throw(p)
          \/ \E report : /\ Proceed(p, [c EXCEPT !.pc = "saveReport", !.found = report])
                         /\ writer' = writer
      BY <1>5 DEF buildReport
    <2>2. ASSUME NEW report, Proceed(p, [c EXCEPT !.pc = "saveReport", !.found = report]),
                 writer' = writer
          PROVE  ExportsInv'
      <3>1. PICK x : x = [c EXCEPT !.pc = "saveReport", !.found = report]
        OBVIOUS
      <3>2. c.pc \notin Refreshing
        BY <2>0 DEF Refreshing, Carrying, Storing
      <3>3. DOMAIN x = DOMAIN c /\ x.plan = c.plan /\ x.number = c.number /\ x.seen = c.seen
            /\ x.pc = "saveReport"
        BY <3>1, <3>2, NotRefreshing DEF CallFields
      <3>4. x.pc \notin Refreshing \cup {"writeConfig", "put"}
        BY <3>3 DEF Refreshing, Carrying, Storing
      <3>5. Proceed(p, x)
        BY <2>2, <3>1
      <3>6. QED
        BY <2>0, <2>2, <3>2, <3>3, <3>4, <3>5, NotRefreshing, GoesOn
    <2>3. QED
      BY <2>0, <2>1, <2>2, ThrowStep
  <1>6. CASE saveReport(p)
    <2>0. c.pc = "saveReport" /\ file' = file /\ run' = run /\ clock' = clock /\ writer' = writer
          /\ snapshots' = snapshots /\ promised' = promised
      BY <1>6 DEF saveReport
    <2>1. PICK todo : todo = c.todo \ {Min(c.todo)}
      OBVIOUS
    <2>2. PICK x : x = [c EXCEPT !.pc = "report", !.todo = todo, !.found = None]
      OBVIOUS
    <2>3. Proceed(p, NextTask(p)) \/ Proceed(p, x)
      BY <1>6, <2>1, <2>2 DEF saveReport
    <2>4. c.pc \notin Refreshing
      BY <2>0 DEF Refreshing, Carrying, Storing
    <2>5. DOMAIN x = DOMAIN c /\ x.plan = c.plan /\ x.number = c.number /\ x.seen = c.seen
          /\ x.pc = "report"
      BY <2>2, <2>4, NotRefreshing DEF CallFields
    <2>6. x.pc \notin Refreshing \cup {"writeConfig", "put"}
      BY <2>5 DEF Refreshing, Carrying, Storing
    <2>7. CASE Proceed(p, x)
      BY <2>0, <2>4, <2>5, <2>6, <2>7, NotRefreshing, GoesOn
    <2>8. QED
      BY <2>0, <2>3, <2>7, LeaveStep
  <1>7. QED
    BY <1>1, <1>2, <1>3, <1>4, <1>5, <1>6

LEMMA AskSteps ==
  ASSUME ExportsInv,
         \/ Boot \/ Tick
         \/ \E p \in Callers :
               \/ \E task \in Tasks : Ask(p, task[1], task[2], None)
               \/ \E request \in ApplyRequests : Ask(p, "apply", FALSE, request)
  PROVE  ExportsInv'
  <1>1. CASE Boot \/ Tick
    <2>0. Proceed(Worker, AtTick) /\ file' = file /\ run' = run /\ clock' = clock /\ writer' = writer
          /\ snapshots' = snapshots /\ promised' = promised /\ Worker \in Processes
      BY <1>1 DEF Boot, Tick, Processes
    <2>1. WorkerPlan \in Seq(TaskNames) /\ Head(WorkerPlan) = "refresh"
      BY DEF WorkerPlan, TaskNames
    <2>2. PICK x : x = [Idle EXCEPT !.pc = "refresh", !.plan = WorkerPlan]
      OBVIOUS
    <2>3. DOMAIN x = CallFields /\ x.plan = WorkerPlan /\ x.number = Idle.number
          /\ x.seen = Idle.seen /\ x.pc = "refresh"
      BY <2>2, IdleRests DEF CallFields
    <2>4. Elsewhere(x) /\ x.pc \notin {"writeConfig", "put"}
      BY <2>1, <2>3, IdleRests DEF Elsewhere, Refreshing, Carrying, Storing
    <2>5. Proceed(Worker, x)
      BY <2>0, <2>1, <2>2 DEF AtTick
    <2>6. QED
      BY <2>0, <2>4, <2>5, LocalStep
  <1>2. ASSUME NEW p \in Callers, NEW task \in TaskNames, NEW force, NEW request,
               Ask(p, task, force, request)
        PROVE  ExportsInv'
    <2>0. Proceed(p, [Idle EXCEPT !.pc = task, !.plan = <<task>>, !.force = force, !.ask = request])
          /\ file' = file /\ run' = run /\ clock' = clock /\ writer' = writer
          /\ snapshots' = snapshots /\ promised' = promised /\ p \in Processes
      BY <1>2 DEF Ask, Processes
    <2>1. <<task>> \in Seq(TaskNames)
      OBVIOUS
    <2>2. PICK x : x = [Idle EXCEPT !.pc = task, !.plan = <<task>>, !.force = force, !.ask = request]
      OBVIOUS
    <2>3. DOMAIN x = CallFields /\ x.plan = <<task>> /\ x.number = Idle.number
          /\ x.seen = Idle.seen /\ x.pc = task
      BY <2>2, IdleRests DEF CallFields
    <2>4. Elsewhere(x) /\ x.pc \notin {"writeConfig", "put"}
      BY <2>1, <2>3, IdleRests DEF Elsewhere, Refreshing, Carrying, Storing, TaskNames
    <2>5. Proceed(p, x)
      BY <2>0, <2>2
    <2>6. QED
      BY <2>0, <2>4, <2>5, LocalStep
  <1>3. \A task \in Tasks : task[1] \in TaskNames
    BY MonitoringAssumption DEF TaskNames
  <1>4. "apply" \in TaskNames
    BY DEF TaskNames
  <1>5. QED
    BY <1>1, <1>2, <1>3, <1>4

(* The invariant holds at first, when nothing has been exported.           *)
LEMMA ExportsInit ==
  ASSUME MonitoringInit
  PROVE  ExportsInv
  <1>1. /\ writer = [p \in Processes |-> None] /\ snapshots = << >>
        /\ call = [p \in Processes |-> Idle] /\ promised = [r \in Runs |-> 0]
        /\ run \in [Runs -> RunRecord] /\ clock \in Nat /\ \A r \in Runs : Timely(run[r])
    BY ExportAssumption DEF MonitoringInit, InitFiles
  <1>2. PICK config : file = [latest |-> Absent, manifest |-> Absent, config |-> [Absent EXCEPT !.now = config]]
    BY DEF MonitoringInit
  <1>3. DOMAIN snapshots = {}
    BY <1>1
  <1>4. \A p \in Processes : /\ call[p] = Idle /\ call[p].number = 0 /\ call[p].pc = "idle"
                             /\ call[p].seen = {} /\ call[p].plan \in Seq(TaskNames)
                             /\ DOMAIN call[p] = CallFields
    BY <1>1, IdleRests DEF Idle
  <1>5. ShapeInv
    <2>1. DOMAIN file = {"latest", "manifest", "config"}
          /\ \A name \in DOMAIN file : DOMAIN file[name] = {"now", "tmp"}
      BY <1>2 DEF Absent
    <2>2. QED
      BY <1>1, <1>4, <2>1 DEF ShapeInv
  <1>6. RunsInv
    BY <1>1 DEF RunsInv
  <1>7. WriterInv
    BY <1>4 DEF WriterInv, WriterOK
  <1>8. NumbersInv
    <2>1. IsFiniteSet({})
      BY FS_EmptySet
    <2>2. QED
      <3>1. IsFiniteSet(DOMAIN snapshots) /\ DOMAIN snapshots \subseteq Nat \ {0}
        BY <1>3, <2>1
      <3>2. ASSUME NEW p \in Processes
            PROVE  /\ call[p].number \in Nat
                   /\ call[p].seen \subseteq Nat /\ IsFiniteSet(call[p].seen)
                   /\ call[p].number # 0 <=> call[p].pc \in Refreshing
        <4>1. call[p].number = 0 /\ call[p].pc = "idle" /\ call[p].seen = {}
          BY <1>4
        <4>2. "idle" \notin Refreshing
          BY DEF Refreshing, Carrying, Storing
        <4>3. QED
          BY <2>1, <4>1, <4>2
      <3>3. QED
        BY <1>4, <3>1, <3>2 DEF NumbersInv
  <1>9. FoundInv /\ OrderInv
    BY <1>4 DEF FoundInv, OrderInv
  <1>10. TakenInv /\ StoredInv
    BY <1>4 DEF TakenInv, StoredInv, Carrying, Storing
  <1>11. SnapshotsInv
    BY <1>3 DEF SnapshotsInv
  <1>12. PromisesInv
    BY <1>1 DEF PromisesInv
  <1>13. HeldInv
    <2>1. Held = {}
      BY <1>2, <1>3, <1>4 DEF Held, Carrying, Readable, Absent
    <2>2. QED
      BY <2>1 DEF HeldInv
  <1>14. QED
    BY <1>5, <1>6, <1>7, <1>8, <1>9, <1>10, <1>11, <1>12, <1>13 DEF ExportsInv, RefreshInv

LEMMA ExportsStep ==
  ASSUME ExportsInv, [MonitoringNext]_validation
  PROVE  ExportsInv'
  <1>1. CASE UNCHANGED validation
    BY <1>1, UnchangedExports DEF validation
  <1>2. CASE Boot \/ Tick
    BY <1>2, AskSteps
  <1>3. CASE Crash
    BY <1>3, ExitStep DEF Crash
  <1>4. CASE Hour
    BY <1>4, HourStep
  <1>5. ASSUME NEW p \in Processes, Step(p) PROVE ExportsInv'
    BY <1>5, RefreshSteps, ApplySteps, ConfigSteps, ReportSteps DEF Step
  <1>6. ASSUME NEW p \in Callers,
               \/ \E task \in Tasks : Ask(p, task[1], task[2], None)
               \/ \E request \in ApplyRequests : Ask(p, "apply", FALSE, request)
               \/ \E config \in Configs : PutConfig(p, config)
        PROVE  ExportsInv'
    <2>1. p \in Processes
      BY DEF Processes
    <2>2. QED
      BY <1>6, <2>1, AskSteps, ConfigSteps
  <1>7. ASSUME NEW r \in Runs, NEW state \in Outcomes, NEW labels \in BOOLEAN,
               Decide(r, state, labels)
        PROVE  ExportsInv'
    BY <1>7, DecideStep
  <1>8. QED
    BY <1>1, <1>2, <1>3, <1>4, <1>5, <1>6, <1>7 DEF MonitoringNext

(* Once a refresh has ended, whoever can load the exports finds of every   *)
(* run it exported at least the newest decision that it found: every       *)
(* number of runs, callers, snapshots and decisions.                       *)
THEOREM ExportsSurvive == MonitoringSpec => []ExportsAreRead
  <1>1. MonitoringInit => ExportsInv
    BY ExportsInit
  <1>2. ExportsInv /\ [MonitoringNext]_validation => ExportsInv'
    BY ExportsStep
  <1>3. ExportsInv => ExportsAreRead
    BY InvariantReads
  <1>4. QED
    BY <1>1, <1>2, <1>3, PTL DEF MonitoringSpec
-----------------------------------------------------------------------------
(* Measurements: what they are measured of, and what they are.             *)
GoodRuns(measured) == IsFiniteSet(measured) /\ \A x \in measured : x.ms \in Nat \cup {None}
GoodSamples(samples) ==
    /\ IsFiniteSet(samples)
    /\ \A x \in samples : x.model100 \in 0..100 /\ x.analyst100 \in 0..100
GoodLive(live) ==
    /\ live.runCount \in Nat
    /\ live.failureRate \in Nat /\ live.reviewRate \in Nat /\ live.uncertainRate \in Nat
    /\ live.schemaValidRate \in Nat \cup {None}
    /\ live.averageMs \in Nat \cup {None} /\ live.p95Ms \in Nat \cup {None}
    /\ live.averageMs # None => live.p95Ms # None
(* No difference is more than the scale of its score has.                  *)
GoodReviewed(reviewed) ==
    /\ reviewed \in ReviewedSummary
    /\ reviewed.total # 0
    /\ reviewed.sum100 <= 100 * reviewed.total /\ reviewed.sum5 <= 4 * reviewed.total
GoodMeasures(m) ==
    /\ GoodLive(m.live)
    /\ m.reviewed = None \/ GoodReviewed(m.reviewed)
    /\ \A dim \in Dimensions :
          /\ \A key \in DOMAIN m.liveBy[dim] : GoodLive(m.liveBy[dim][key])
          /\ \A key \in DOMAIN m.reviewedBy[dim] : GoodReviewed(m.reviewedBy[dim][key])
Limits(limits) == DOMAIN limits = LimitNames /\ \A name \in LimitNames : limits[name] \in Nat

LEMMA Part ==
  ASSUME NEW S, IsFiniteSet(S), NEW T, T \subseteq S
  PROVE  IsFiniteSet(T) /\ Cardinality(T) \in Nat /\ Cardinality(T) <= Cardinality(S)
         /\ (T # {} => Cardinality(T) # 0)
  BY FS_Subset, FS_CardinalityType, FS_EmptySet

LEMMA ShareType ==
  ASSUME NEW n \in Nat, NEW d \in Nat
  PROVE  Share(n, d) \in Nat
  <1>1. CASE d = 0
    BY <1>1 DEF Share
  <1>2. CASE d # 0
    <2>1. PICK o : o = (2 * (10000 * n) + d) \div (2 * d)
      OBVIOUS
    <2>2. o \in Int /\ 2 * (10000 * n) < 2 * (d * o) + d
      BY <1>2, <2>1, RoundedQuotient
    <2>3. o >= 0
      <3>1. SUFFICES ASSUME o <= -1 PROVE FALSE
        BY <2>2
      <3>2. d * o <= d * (-1)
        BY <2>2, <3>1, Z3
      <3>3. QED
        BY <2>2, <3>2
    <2>4. QED
      BY <1>2, <2>1, <2>2, <2>3 DEF Share, Rounded
  <1>3. QED
    BY <1>1, <1>2

LEMMA PercentileType ==
  ASSUME NEW ended, IsFiniteSet(ended), ended # {}, \A x \in ended : x.ms \in Nat
  PROVE  percentile95(ended) \in Nat
  <1> DEFINE n == Cardinality(ended)
             wanted == (95 * n + 99) \div 100
             F == [x \in ended |-> x.ms]
             T == {F[x] : x \in ended}
             High == {y \in ended : Cardinality({z \in ended : z.ms <= y.ms}) >= wanted}
             H == {x.ms : x \in High}
  <1>0. \A x \in ended : F[x] = x.ms /\ F[x] \in Nat
    OBVIOUS
  <1> HIDE DEF F
  <1>1. IsFiniteSet(T) /\ T # {} /\ T \subseteq Nat
    <2>1. IsFiniteSet(T)
      BY ImageFinite
    <2>2. QED
      BY <1>0, <2>1
  <1>2. Max(T) \in T /\ \A t \in T : t <= Max(T)
    <2> HIDE DEF T
    <2>1. T \subseteq Int
      BY <1>1
    <2>2. QED
      BY <1>1, <2>1, Extremes
  <1>3. PICK y \in ended : \A z \in ended : z.ms <= y.ms
    <2>1. PICK y \in ended : F[y] = Max(T)
      BY <1>2
    <2>2. \A z \in ended : z.ms \in T
      BY <1>0
    <2> HIDE DEF T
    <2>3. QED
      BY <1>0, <1>2, <2>1, <2>2
  <1>4. {z \in ended : z.ms <= y.ms} = ended
    BY <1>3
  <1>5. n \in Nat /\ n # 0
    BY Part
  <1>6. wanted <= n
    <2>1. PICK a \in Nat : a = n
      BY <1>5
    <2>2. (95 * a + 99) \div 100 <= a
      BY <1>5, <2>1
    <2>3. QED
      BY <2>1, <2>2
  <1>7. wanted \in Int
    <2>1. PICK a \in Nat : a = n
      BY <1>5
    <2>2. QED
      BY <2>1
  <1>8. y \in High
    BY <1>3, <1>4, <1>5, <1>6, <1>7
  <1>9. H \in SUBSET T /\ H # {}
    <2>1. \A x \in High : x.ms \in T
      BY <1>0
    <2> HIDE DEF T, High
    <2>2. QED
      BY <1>8, <2>1
  <1>10. IsFiniteSet(H) /\ H \subseteq Int /\ H \subseteq Nat
    <2> HIDE DEF T, H
    <2>1. IsFiniteSet(H)
      BY <1>1, <1>9, FS_Subset
    <2>2. QED
      BY <1>1, <1>9, <2>1
  <1>11. percentile95(ended) = Min(H)
    BY DEF percentile95
  <1> HIDE DEF H
  <1>12. QED
    BY <1>9, <1>10, <1>11, Extremes

LEMMA LiveType ==
  ASSUME NEW measured, GoodRuns(measured)
  PROVE  GoodLive(computeLiveMetrics(measured))
  <1> DEFINE completed == {x \in measured : x.status = "COMPLETED"}
             failed == {x \in measured : x.status = "FAILED"}
             waiting == {x \in completed : x.review = "NEEDS_REVIEW"}
             uncertain == {x \in completed : x.review = "UNCERTAIN"}
             valids == {x \in completed : x.schema # "INVALID"}
             invalids == {x \in failed : x.schema = "INVALID"}
             timed == {x \in completed \cup failed : x.ms # None}
             F == [x \in timed |-> x.ms]
             live == computeLiveMetrics(measured)
  <1>1. IsFiniteSet(measured) /\ \A x \in measured : x.ms \in Nat \cup {None}
    BY DEF GoodRuns
  <1>2. /\ Cardinality(measured) \in Nat /\ Cardinality(completed) \in Nat /\ Cardinality(failed) \in Nat
        /\ Cardinality(waiting) \in Nat /\ Cardinality(uncertain) \in Nat
        /\ Cardinality(valids) \in Nat /\ Cardinality(invalids) \in Nat
        /\ IsFiniteSet(timed) /\ Cardinality(timed) \in Nat
        /\ (timed # {} => Cardinality(timed) # 0)
    BY <1>1, Part
  <1>3. \A x \in timed : x.ms \in Nat
    BY <1>1
  <1>4. live.runCount \in Nat
    BY <1>2 DEF computeLiveMetrics
  <1>5. live.failureRate \in Nat
    <2>1. Share(Cardinality(failed), Cardinality(measured)) \in Nat
      BY <1>2, ShareType
    <2>2. QED
      BY <2>1 DEF computeLiveMetrics
  <1>6. live.reviewRate \in Nat /\ live.uncertainRate \in Nat
    <2>1. /\ Share(Cardinality(waiting), Cardinality(completed)) \in Nat
          /\ Share(Cardinality(uncertain), Cardinality(completed)) \in Nat
      BY <1>2, ShareType
    <2>2. QED
      BY <2>1 DEF computeLiveMetrics
  <1>7. live.schemaValidRate \in Nat \cup {None}
    <2>0. PICK n \in Nat, i \in Nat : n = Cardinality(valids) /\ i = Cardinality(invalids)
      BY <1>2
    <2>1. PICK d \in Nat : d = n + i
      OBVIOUS
    <2>2. Share(Cardinality(valids), Cardinality(valids) + Cardinality(invalids)) \in Nat
      BY <2>0, <2>1, ShareType
    <2>3. QED
      BY <2>2 DEF computeLiveMetrics
  <1>8. CASE timed = {}
    <2>1. live.averageMs = None /\ live.p95Ms = None
      BY <1>8 DEF computeLiveMetrics
    <2>2. QED
      BY <1>4, <1>5, <1>6, <1>7, <2>1 DEF GoodLive
  <1>9. CASE timed # {}
    <2>1. percentile95(timed) \in Nat
      BY <1>2, <1>3, <1>9, PercentileType
    <2>2. SumOver(F, timed) \in Nat
      <3> DEFINE Zero == [x \in timed |-> 0]
      <3>1. Numbers(F, timed) /\ Numbers(Zero, timed)
        BY <1>3 DEF Numbers
      <3>2. SumOver(F, timed) \in Int
        BY <1>2, <3>1, TotalIsInt
      <3>3. \A x \in timed : Zero[x] <= F[x]
        BY <1>3
      <3>4. \A x \in timed : Zero[x] = 0
        OBVIOUS
      <3> HIDE DEF F, Zero
      <3>5. SumOver(Zero, timed) = 0 * Cardinality(timed)
        BY <1>2, <3>4, TotalConstant
      <3>6. SumOver(Zero, timed) <= SumOver(F, timed)
        BY <1>2, <3>1, <3>3, TotalMonotone
      <3>7. QED
        BY <1>2, <3>2, <3>5, <3>6
    <2> DEFINE s == SumOver(F, timed)
               d == Cardinality(timed)
    <2>3. live.averageMs = Rounded(100 * s, d) /\ live.p95Ms = percentile95(timed)
      BY <1>9 DEF computeLiveMetrics
    <2> HIDE DEF s, d
    <2>4. Rounded(100 * s, d) \in Nat
      <3>1. PICK t \in Nat, e \in Nat \ {0} : t = s /\ e = d
        BY <1>2, <1>9, <2>2 DEF s, d
      <3>2. PICK o : o = (2 * (100 * t) + e) \div (2 * e)
        OBVIOUS
      <3>3. o \in Int /\ 2 * (100 * t) < 2 * (e * o) + e
        BY <3>2, RoundedQuotient
      <3>4. o >= 0
        <4>1. SUFFICES ASSUME o <= -1 PROVE FALSE
          BY <3>3
        <4>2. e * o <= e * (-1)
          BY <3>3, <4>1, Z3
        <4>3. QED
          BY <3>3, <4>2
      <3>5. QED
        BY <3>1, <3>2, <3>3, <3>4 DEF Rounded
    <2>5. live.p95Ms # None
      BY <2>1, <2>3, SampleAssumption
    <2>6. QED
      BY <1>4, <1>5, <1>6, <1>7, <2>1, <2>3, <2>4, <2>5 DEF GoodLive
  <1>10. QED
    BY <1>8, <1>9

LEMMA DeltaRange ==
  ASSUME NEW x, x.model100 \in 0..100, x.analyst100 \in 0..100
  PROVE  delta100(x) \in 0..100 /\ delta5(x) \in 0..4
  <1>0. ASSUME NEW a \in 0..100, NEW b \in 0..100
        PROVE  Difference(a, b) \in 0..100
    BY DEF Difference
  <1>1. delta100(x) \in 0..100
    BY <1>0 DEF delta100
  <1>2. ASSUME NEW s \in 0..100
        PROVE  Scoring!deriveScore5FromScore100(s) \in 1..5
    BY DEF Scoring!deriveScore5FromScore100, Scoring!Clamp
  <1>3. PICK a \in 1..5, b \in 1..5 : /\ a = Scoring!deriveScore5FromScore100(x.model100)
                                      /\ b = Scoring!deriveScore5FromScore100(x.analyst100)
    BY <1>2
  <1>4. Difference(a, b) \in 0..4
    BY DEF Difference
  <1>5. QED
    BY <1>1, <1>3, <1>4 DEF delta5

LEMMA SumRange ==
  ASSUME NEW S, IsFiniteSet(S), NEW c \in Nat, NEW F, \A x \in S : F[x] \in 0..c
  PROVE  SumOver(F, S) \in Nat /\ SumOver(F, S) <= c * Cardinality(S)
  <1> DEFINE Zero == [x \in S |-> 0]
             Full == [x \in S |-> c]
  <1>1. Numbers(F, S) /\ Numbers(Zero, S) /\ Numbers(Full, S)
    BY DEF Numbers
  <1>2. SumOver(F, S) \in Int
    BY <1>1, TotalIsInt
  <1>3. \A x \in S : Zero[x] <= F[x] /\ F[x] <= Full[x] /\ Zero[x] = 0 /\ Full[x] = c
    OBVIOUS
  <1> HIDE DEF Zero, Full
  <1>4. SumOver(Zero, S) <= SumOver(F, S) /\ SumOver(F, S) <= SumOver(Full, S)
    BY <1>1, <1>3, TotalMonotone
  <1>5. SumOver(Full, S) = c * Cardinality(S)
    BY <1>3, TotalConstant
  <1>6. SumOver(Zero, S) = 0
    <2>1. PICK z \in Int : z = 0
      OBVIOUS
    <2>2. SumOver(Zero, S) = z * Cardinality(S)
      BY <1>3, <2>1, TotalConstant
    <2>3. Cardinality(S) \in Nat
      BY FS_CardinalityType
    <2>4. QED
      BY <2>1, <2>2, <2>3
  <1>7. QED
    BY <1>2, <1>4, <1>5, <1>6

LEMMA ReviewedType ==
  ASSUME NEW samples, GoodSamples(samples), samples # {}
  PROVE  GoodReviewed(summarizeReviewed(samples))
  <1> DEFINE F == [x \in samples |-> delta100(x)]
             G == [x \in samples |-> delta5(x)]
             n == Cardinality(samples)
             exact == {x \in samples : delta5(x) = 0}
             within == {x \in samples : delta100(x) <= 5}
             s == summarizeReviewed(samples)
  <1>1. IsFiniteSet(samples) /\ \A x \in samples : delta100(x) \in 0..100 /\ delta5(x) \in 0..4
    BY DeltaRange DEF GoodSamples
  <1>2. n \in Nat /\ n # 0 /\ Cardinality(exact) \in Nat /\ Cardinality(within) \in Nat
    BY <1>1, Part
  <1>3. s = [total |-> n, sum100 |-> SumOver(F, samples), sum5 |-> SumOver(G, samples),
             exact |-> Cardinality(exact), within |-> Cardinality(within)]
    BY DEF summarizeReviewed
  <1>4. \A x \in samples : F[x] \in 0..100
    BY <1>1
  <1>5. \A x \in samples : G[x] \in 0..4
    BY <1>1
  <1> HIDE DEF F, G
  <1>6. SumOver(F, samples) \in Nat /\ SumOver(F, samples) <= 100 * n
    <2>1. PICK c \in Nat : c = 100
      OBVIOUS
    <2>2. \A x \in samples : F[x] \in 0..c
      BY <1>4, <2>1
    <2>3. SumOver(F, samples) \in Nat /\ SumOver(F, samples) <= c * n
      BY <1>1, <2>2, SumRange
    <2>4. QED
      BY <2>1, <2>3
  <1>7. SumOver(G, samples) \in Nat /\ SumOver(G, samples) <= 4 * n
    <2>1. PICK c \in Nat : c = 4
      OBVIOUS
    <2>2. \A x \in samples : G[x] \in 0..c
      BY <1>5, <2>1
    <2>3. SumOver(G, samples) \in Nat /\ SumOver(G, samples) <= c * n
      BY <1>1, <2>2, SumRange
    <2>4. QED
      BY <2>1, <2>3
  <1> HIDE DEF n, exact, within
  <1>8. QED
    BY <1>2, <1>3, <1>6, <1>7 DEF GoodReviewed, ReviewedSummary

LEMMA MeasurementsType ==
  ASSUME NEW measured, GoodRuns(measured), NEW samples, GoodSamples(samples)
  PROVE  GoodMeasures(Measurements(measured, samples))
  <1> DEFINE m == Measurements(measured, samples)
  <1>1. GoodLive(m.live)
    BY LiveType DEF Measurements
  <1>2. m.reviewed = None \/ GoodReviewed(m.reviewed)
    BY ReviewedType DEF Measurements, computeReviewedValidation
  <1>3. ASSUME NEW dim \in Dimensions, NEW key \in DOMAIN m.liveBy[dim]
        PROVE  GoodLive(m.liveBy[dim][key])
    <2>1. m.liveBy[dim][key] = computeLiveMetrics(PartOf(measured, dim, key))
      BY <1>3 DEF Measurements, computeLiveBreakdown
    <2>2. GoodRuns(PartOf(measured, dim, key))
      <3>1. PartOf(measured, dim, key) \subseteq measured
        BY DEF PartOf
      <3>2. QED
        BY <3>1, FS_Subset DEF GoodRuns
    <2>3. QED
      BY <2>1, <2>2, LiveType
  <1>4. ASSUME NEW dim \in Dimensions, NEW key \in DOMAIN m.reviewedBy[dim]
        PROVE  GoodReviewed(m.reviewedBy[dim][key])
    <2>1. key \in KeysIn(samples, dim)
          /\ m.reviewedBy[dim][key] = summarizeReviewed(PartOf(samples, dim, key))
      BY <1>4 DEF Measurements, summarizeReviewedResultsBy
    <2>2. GoodSamples(PartOf(samples, dim, key)) /\ PartOf(samples, dim, key) # {}
      <3>1. PartOf(samples, dim, key) \subseteq samples
        BY DEF PartOf
      <3>2. PartOf(samples, dim, key) # {}
        BY <2>1 DEF PartOf, KeysIn
      <3>3. QED
        BY <3>1, <3>2, FS_Subset DEF GoodSamples
    <2>3. QED
      BY <2>1, <2>2, ReviewedType
  <1>5. QED
    BY <1>1, <1>2, <1>3, <1>4 DEF GoodMeasures
-----------------------------------------------------------------------------
(* What may be recommended of what was measured.                           *)
LEMMA Three ==
  ASSUME NEW a \in Int, NEW b \in Int, NEW c \in Int
  PROVE  /\ Max({a, b, c}) \in {a, b, c}
         /\ a <= Max({a, b, c}) /\ b <= Max({a, b, c}) /\ c <= Max({a, b, c})
  <1>1. IsFiniteSet({a, b, c})
    <2>1. IsFiniteSet({a}) /\ {a, b, c} = ({a} \cup {b}) \cup {c}
      BY FS_Singleton
    <2>2. IsFiniteSet({a} \cup {b})
      BY <2>1, FS_AddElement
    <2>3. QED
      BY <2>1, <2>2, FS_AddElement
  <1>2. {a, b, c} # {} /\ {a, b, c} \subseteq Int
    OBVIOUS
  <1>3. Max({a, b, c}) \in {a, b, c} /\ \A y \in {a, b, c} : y <= Max({a, b, c})
    BY <1>1, <1>2, Extremes
  <1>4. QED
    BY <1>3

(* A limit with headroom is the cap, or above what was observed.           *)
LEMMA HeadroomAbove ==
  ASSUME NEW num \in Nat, NEW den \in Nat \ {0}, NEW margin \in Nat \ {0}, NEW percent \in Nat,
         NEW cap \in Nat
  PROVE  LET limit == headroom(num, den, margin, percent, cap)
         IN  /\ limit \in Nat
             /\ limit = cap \/ num <= limit * den
  <1> DEFINE a == Rounded(num, den) + margin
             b == Rounded(num * percent, 100 * den)
             limit == headroom(num, den, margin, percent, cap)
  <1>1. PICK o : o = (2 * num + den) \div (2 * den)
    OBVIOUS
  <1>2. o \in Int /\ 2 * num < 2 * (den * o) + den
    BY <1>1, RoundedQuotient
  <1>3. o = Rounded(num, den)
    BY <1>1 DEF Rounded
  <1>4. b \in Int
    <2>1. PICK d \in Int, e \in Nat \ {0} : d = num * percent /\ e = 100 * den
      <3>1. num * percent \in Int /\ 100 * den \in Nat \ {0}
        OBVIOUS
      <3>2. QED
        BY <3>1
    <2>2. (2 * d + e) \div (2 * e) \in Int
      BY RoundedQuotient
    <2>3. QED
      BY <2>1, <2>2 DEF Rounded
  <1>5. a \in Int
    BY <1>2, <1>3
  <1>6. PICK m \in Int : /\ m = Max({margin, a, b})
                        /\ margin <= m /\ a <= m
    <2> HIDE DEF a, b
    <2>1. margin \in Int
      OBVIOUS
    <2>2. Max({margin, a, b}) \in {margin, a, b} /\ margin <= Max({margin, a, b}) /\ a <= Max({margin, a, b})
      BY <1>4, <1>5, <2>1, Three
    <2>3. QED
      BY <1>4, <1>5, <2>1, <2>2
  <1>7. limit = Min({cap, m})
    BY <1>6 DEF headroom
  <1>8. limit = IF cap <= m THEN cap ELSE m
    BY <1>7, Two
  <1>9. CASE cap <= m
    BY <1>8, <1>9
  <1>10. CASE ~(cap <= m)
    <2>1. limit = m /\ m \in Nat
      BY <1>6, <1>8, <1>10
    <2>2. o + 1 <= m
      BY <1>2, <1>3, <1>6
    <2>3. den * (o + 1) <= den * m
      BY <1>2, <2>2, Z3
    <2>4. den * (o + 1) = den * o + den
      BY <1>2, Z3
    <2>5. den * o \in Int /\ den * m \in Int /\ den * m = m * den
      BY <1>2, Z3
    <2>6. num <= den * m
      BY <1>2, <2>3, <2>4, <2>5
    <2>7. QED
      BY <2>1, <2>5, <2>6
  <1>11. QED
    BY <1>9, <1>10

(* A floor is the minimum, or below what was observed.                     *)
LEMMA FloorBelow ==
  ASSUME NEW num \in Nat, NEW den \in Nat, NEW margin \in Nat \ {0}, NEW minimum \in Nat
  PROVE  LET limit == floorRate(num, den, margin, minimum)
         IN  /\ limit \in Nat
             /\ limit = minimum \/ (den # 0 /\ limit * den <= num)
  <1> DEFINE limit == floorRate(num, den, margin, minimum)
  <1>1. CASE den = 0
    BY <1>1 DEF floorRate
  <1>2. CASE den # 0
    <2>1. PICK o : o = (2 * num + den) \div (2 * den)
      OBVIOUS
    <2>2. o \in Int /\ 2 * (den * o) <= 2 * num + den
      BY <1>2, <2>1, RoundedQuotient
    <2>3. limit = Max({minimum, o - margin})
      BY <1>2, <2>1 DEF floorRate, Rounded
    <2>4. PICK l \in Int : l = o - margin
      BY <2>2
    <2>5. limit = IF minimum <= l THEN l ELSE minimum
      <3>1. minimum \in Int
        OBVIOUS
      <3>2. limit = Max({minimum, l})
        BY <2>3, <2>4
      <3> HIDE DEF limit
      <3>3. QED
        BY <3>1, <3>2, Two
    <2>6. CASE minimum <= l
      <3>1. limit = l /\ l \in Nat
        BY <2>5, <2>6
      <3>2. l <= o - 1
        BY <2>2, <2>4
      <3>3. den * l <= den * (o - 1) /\ den * (o - 1) = den * o - den
        BY <2>2, <3>2, Z3
      <3>4. den * o \in Int /\ den * l \in Int /\ den * l = l * den
        BY <2>2, Z3
      <3>5. den * l <= num
        BY <1>2, <2>2, <3>3, <3>4
      <3>6. QED
        BY <1>2, <3>1, <3>4, <3>5
    <2>7. CASE ~(minimum <= l)
      BY <2>5, <2>7
    <2>8. QED
      BY <2>6, <2>7
  <1>3. QED
    BY <1>1, <1>2

LEMMA RoomAbove ==
  ASSUME NEW current \in Nat, NEW observed \in Nat \cup {None}, NEW unit \in {1, 100}
  PROVE  LET limit == AtLeastWithRoom(current, observed, unit)
         IN  limit \in Nat /\ (observed # None => observed <= unit * limit)
  <1> DEFINE limit == AtLeastWithRoom(current, observed, unit)
  <1>1. CASE observed = None
    <2>1. PICK b \in Int : b = (115 * current + 99) \div 100
      OBVIOUS
    <2>2. limit = IF current <= b THEN b ELSE current
      <3>1. limit = Max({current, b}) /\ current \in Int
        BY <1>1, <2>1 DEF AtLeastWithRoom
      <3> HIDE DEF limit
      <3>2. QED
        BY <3>1, Two
    <2>3. QED
      BY <1>1, <2>2
  <1>2. CASE observed # None
    <2>1. observed \in Nat
      BY <1>2
    <2>2. PICK b \in Int : b = (115 * observed + 100 * unit - 1) \div (100 * unit)
      <3>1. CASE unit = 1
        BY <2>1, <3>1
      <3>2. CASE unit = 100
        BY <2>1, <3>2
      <3>3. QED
        BY <3>1, <3>2
    <2>3. limit = IF current <= b THEN b ELSE current
      <3>1. limit = Max({current, b}) /\ current \in Int
        BY <1>2, <2>2 DEF AtLeastWithRoom
      <3> HIDE DEF limit
      <3>2. QED
        BY <3>1, Two
    <2>4. observed <= unit * b
      <3>1. CASE unit = 1
        BY <2>1, <2>2, <3>1
      <3>2. CASE unit = 100
        BY <2>1, <2>2, <3>2
      <3>3. QED
        BY <3>1, <3>2
    <2>5. CASE unit = 1
      BY <2>1, <2>3, <2>4, <2>5
    <2>6. CASE unit = 100
      BY <2>1, <2>3, <2>4, <2>6
    <2>7. QED
      BY <2>5, <2>6
  <1>3. QED
    BY <1>1, <1>2

(* Limits that suit what was measured.                                     *)
SuitsLive(limits, live) ==
    /\ limits.failureRate = 5000 \/ live.failureRate <= limits.failureRate
    /\ limits.reviewRate = 7500 \/ live.reviewRate <= limits.reviewRate
    /\ limits.uncertainRate = 5000 \/ live.uncertainRate <= limits.uncertainRate
    /\ live.schemaValidRate # None =>
          limits.schemaValidRate = 9000 \/ limits.schemaValidRate <= live.schemaValidRate
    /\ live.averageMs # None =>
          live.averageMs <= 100 * limits.averageMs /\ live.p95Ms <= limits.p95Ms
SuitsReviewed(limits, reviewed) ==
    /\ 100 * reviewed.sum100 <= limits.delta100 * reviewed.total
    /\ 100 * reviewed.sum5 <= limits.delta5 * reviewed.total
    /\ limits.exactRate = 5000 \/ limits.exactRate * reviewed.total <= 10000 * reviewed.exact
    /\ limits.withinRate = 8000 \/ limits.withinRate * reviewed.total <= 10000 * reviewed.within

LEMMA RecommendedLive ==
  ASSUME NEW limits, Limits(limits), NEW live, GoodLive(live), NEW reviewed
  PROVE  LET own == recommendScalarThresholds(limits, live, reviewed)
         IN  /\ own.failureRate \in Nat /\ own.reviewRate \in Nat /\ own.uncertainRate \in Nat
             /\ own.schemaValidRate \in Nat /\ own.averageMs \in Nat /\ own.p95Ms \in Nat
             /\ SuitsLive(own, live)
  <1> DEFINE own == recommendScalarThresholds(limits, live, reviewed)
  <1>1. /\ own.failureRate = headroom(live.failureRate, 1, 200, 125, 5000)
        /\ own.reviewRate = headroom(live.reviewRate, 1, 300, 120, 7500)
        /\ own.uncertainRate = headroom(live.uncertainRate, 1, 200, 120, 5000)
        /\ own.schemaValidRate = (IF live.schemaValidRate = None THEN 9000
                                  ELSE floorRate(live.schemaValidRate, 1, 100, 9000))
        /\ own.averageMs = AtLeastWithRoom(limits.averageMs, live.averageMs, 100)
        /\ own.p95Ms = AtLeastWithRoom(limits.p95Ms, live.p95Ms, 1)
    BY DEF recommendScalarThresholds
  <1> HIDE DEF own
  <1>2. ASSUME NEW rate \in Nat, NEW margin \in Nat \ {0}, NEW percent \in Nat, NEW cap \in Nat
        PROVE  /\ headroom(rate, 1, margin, percent, cap) \in Nat
               /\ \/ headroom(rate, 1, margin, percent, cap) = cap
                  \/ rate <= headroom(rate, 1, margin, percent, cap)
    <2>1. PICK one \in Nat \ {0} : one = 1
      OBVIOUS
    <2>2. /\ headroom(rate, one, margin, percent, cap) \in Nat
          /\ \/ headroom(rate, one, margin, percent, cap) = cap
             \/ rate <= headroom(rate, one, margin, percent, cap) * one
      BY HeadroomAbove
    <2>3. QED
      BY <2>1, <2>2
  <1>3. /\ own.failureRate \in Nat /\ (own.failureRate = 5000 \/ live.failureRate <= own.failureRate)
        /\ own.reviewRate \in Nat /\ (own.reviewRate = 7500 \/ live.reviewRate <= own.reviewRate)
        /\ own.uncertainRate \in Nat
        /\ (own.uncertainRate = 5000 \/ live.uncertainRate <= own.uncertainRate)
    <2>1. PICK f \in Nat, r \in Nat, u \in Nat :
             f = live.failureRate /\ r = live.reviewRate /\ u = live.uncertainRate
      BY DEF GoodLive
    <2>2. /\ headroom(f, 1, 200, 125, 5000) \in Nat
          /\ headroom(f, 1, 200, 125, 5000) = 5000 \/ f <= headroom(f, 1, 200, 125, 5000)
      BY <1>2
    <2>3. /\ headroom(r, 1, 300, 120, 7500) \in Nat
          /\ headroom(r, 1, 300, 120, 7500) = 7500 \/ r <= headroom(r, 1, 300, 120, 7500)
      BY <1>2
    <2>4. /\ headroom(u, 1, 200, 120, 5000) \in Nat
          /\ headroom(u, 1, 200, 120, 5000) = 5000 \/ u <= headroom(u, 1, 200, 120, 5000)
      BY <1>2
    <2>5. QED
      BY <1>1, <2>1, <2>2, <2>3, <2>4
  <1>4. /\ own.schemaValidRate \in Nat
        /\ live.schemaValidRate # None =>
              own.schemaValidRate = 9000 \/ own.schemaValidRate <= live.schemaValidRate
    <2>1. CASE live.schemaValidRate = None
      BY <1>1, <2>1
    <2>2. CASE live.schemaValidRate # None
      <3>1. PICK n \in Nat, one \in Nat, margin \in Nat \ {0}, minimum \in Nat :
               n = live.schemaValidRate /\ one = 1 /\ margin = 100 /\ minimum = 9000
        BY <2>2 DEF GoodLive
      <3>2. /\ floorRate(n, one, margin, minimum) \in Nat
            /\ \/ floorRate(n, one, margin, minimum) = minimum
               \/ floorRate(n, one, margin, minimum) * one <= n
        BY FloorBelow
      <3>3. QED
        BY <1>1, <2>2, <3>1, <3>2
    <2>3. QED
      BY <2>1, <2>2
  <1>5. /\ own.averageMs \in Nat /\ own.p95Ms \in Nat
        /\ live.averageMs # None =>
              live.averageMs <= 100 * own.averageMs /\ live.p95Ms <= own.p95Ms
    <2>1. limits.averageMs \in Nat /\ limits.p95Ms \in Nat
      BY DEF Limits, LimitNames
    <2>2. live.averageMs \in Nat \cup {None} /\ live.p95Ms \in Nat \cup {None}
          /\ (live.averageMs # None => live.p95Ms # None)
      BY DEF GoodLive
    <2>3. PICK u \in {1, 100}, v \in {1, 100} : u = 100 /\ v = 1
      OBVIOUS
    <2>4. /\ AtLeastWithRoom(limits.averageMs, live.averageMs, u) \in Nat
          /\ live.averageMs # None =>
                live.averageMs <= u * AtLeastWithRoom(limits.averageMs, live.averageMs, u)
      BY <2>1, <2>2, RoomAbove, ZenonT(60)
    <2>5. /\ AtLeastWithRoom(limits.p95Ms, live.p95Ms, v) \in Nat
          /\ live.p95Ms # None => live.p95Ms <= v * AtLeastWithRoom(limits.p95Ms, live.p95Ms, v)
      BY <2>1, <2>2, RoomAbove, ZenonT(60)
    <2>6. QED
      BY <1>1, <2>2, <2>3, <2>4, <2>5
  <1>6. QED
    BY <1>3, <1>4, <1>5 DEF SuitsLive, own

LEMMA RecommendedReviewed ==
  ASSUME NEW limits, Limits(limits), NEW live, NEW reviewed,
         reviewed = None \/ GoodReviewed(reviewed)
  PROVE  LET own == recommendScalarThresholds(limits, live, reviewed)
         IN  /\ own.sampleSize \in Nat /\ own.delta100 \in Nat /\ own.delta5 \in Nat
             /\ own.exactRate \in Nat /\ own.withinRate \in Nat
             /\ reviewed # None => SuitsReviewed(own, reviewed)
  <1> DEFINE own == recommendScalarThresholds(limits, live, reviewed)
             n == IF reviewed = None THEN 0 ELSE reviewed.total
             seen == IF reviewed # None THEN reviewed
                     ELSE [sum100 |-> limits.delta100, sum5 |-> limits.delta5, exact |-> 0, within |-> 0]
             scale == IF reviewed = None THEN 1 ELSE 100
  <1>1. /\ own.sampleSize = Max({limits.sampleSize, SampleFloor,
                                 Min({IF reviewed = None THEN SampleFloor ELSE n, SampleCeiling})})
        /\ own.delta100 = headroom(scale * seen.sum100, Max({n, 1}), 100, 115, 10000)
        /\ own.delta5 = headroom(scale * seen.sum5, Max({n, 1}), 10, 115, 400)
        /\ own.exactRate = floorRate(10000 * seen.exact, n, 300, 5000)
        /\ own.withinRate = floorRate(10000 * seen.within, n, 100, 8000)
    BY DEF recommendScalarThresholds
  <1>2. limits.sampleSize \in Nat /\ limits.delta100 \in Nat /\ limits.delta5 \in Nat
    BY DEF Limits, LimitNames
  <1>3. /\ n \in Nat /\ scale \in Nat
        /\ seen.sum100 \in Nat /\ seen.sum5 \in Nat /\ seen.exact \in Nat /\ seen.within \in Nat
    <2>1. CASE reviewed = None
      BY <1>2, <2>1
    <2>2. CASE reviewed # None
      <3>1. reviewed \in ReviewedSummary
        BY <2>2 DEF GoodReviewed
      <3>2. reviewed.total \in Nat /\ reviewed.sum100 \in Nat /\ reviewed.sum5 \in Nat
            /\ reviewed.exact \in Nat /\ reviewed.within \in Nat
        BY <3>1 DEF ReviewedSummary
      <3>3. QED
        BY <2>2, <3>2
    <2>3. QED
      BY <2>1, <2>2
  <1>4. reviewed # None =>
           /\ n # 0 /\ n = reviewed.total /\ seen = reviewed /\ scale = 100
           /\ reviewed.sum100 <= 100 * n /\ reviewed.sum5 <= 4 * n
    BY DEF GoodReviewed
  <1> HIDE DEF own, n, seen, scale
  <1>5. own.sampleSize \in Nat
    <2>1. PICK a \in Int : a = IF reviewed = None THEN SampleFloor ELSE n
      BY <1>3, SampleAssumption
    <2>2. PICK b \in Int : b = Min({a, SampleCeiling})
      BY Two, SampleAssumption
    <2>3. own.sampleSize = Max({limits.sampleSize, SampleFloor, b})
      BY <1>1, <2>1, <2>2
    <2>4. own.sampleSize \in {limits.sampleSize, SampleFloor, b} /\ limits.sampleSize <= own.sampleSize
      BY <1>2, <2>3, Three, SampleAssumption
    <2>5. QED
      BY <1>2, <2>4, SampleAssumption
  <1>6. PICK d \in Nat \ {0} : d = Max({n, 1}) /\ (n # 0 => d = n)
    <2>1. PICK one \in Int : one = 1
      OBVIOUS
    <2>2. Max({n, one}) = IF n <= one THEN one ELSE n
      BY <1>3, Two
    <2>3. QED
      BY <1>3, <2>1, <2>2
  <1>7. PICK a \in Nat, b \in Nat, e \in Nat, w \in Nat :
           /\ a = scale * seen.sum100 /\ b = scale * seen.sum5
           /\ e = 10000 * seen.exact /\ w = 10000 * seen.within
    <2>1. scale * seen.sum100 \in Nat /\ scale * seen.sum5 \in Nat
      BY <1>3, Z3
    <2>2. 10000 * seen.exact \in Nat /\ 10000 * seen.within \in Nat
      BY <1>3
    <2>3. QED
      BY <2>1, <2>2
  <1>8. /\ own.delta100 = headroom(a, d, 100, 115, 10000) /\ own.delta5 = headroom(b, d, 10, 115, 400)
        /\ own.exactRate = floorRate(e, n, 300, 5000) /\ own.withinRate = floorRate(w, n, 100, 8000)
    BY <1>1, <1>6, <1>7
  <1>9. own.delta100 \in Nat /\ (own.delta100 = 10000 \/ a <= own.delta100 * d)
    <2>1. PICK m \in Nat \ {0}, p \in Nat, c \in Nat : m = 100 /\ p = 115 /\ c = 10000
      OBVIOUS
    <2>2. headroom(a, d, m, p, c) \in Nat
          /\ (headroom(a, d, m, p, c) = c \/ a <= headroom(a, d, m, p, c) * d)
      BY HeadroomAbove
    <2>3. QED
      BY <1>8, <2>1, <2>2
  <1>10. own.delta5 \in Nat /\ (own.delta5 = 400 \/ b <= own.delta5 * d)
    <2>1. PICK m \in Nat \ {0}, p \in Nat, c \in Nat : m = 10 /\ p = 115 /\ c = 400
      OBVIOUS
    <2>2. headroom(b, d, m, p, c) \in Nat
          /\ (headroom(b, d, m, p, c) = c \/ b <= headroom(b, d, m, p, c) * d)
      BY HeadroomAbove
    <2>3. QED
      BY <1>8, <2>1, <2>2
  <1>11. own.exactRate \in Nat /\ (own.exactRate = 5000 \/ own.exactRate * n <= e)
    <2>1. PICK m \in Nat \ {0}, c \in Nat : m = 300 /\ c = 5000
      OBVIOUS
    <2>2. floorRate(e, n, m, c) \in Nat /\ (floorRate(e, n, m, c) = c \/ floorRate(e, n, m, c) * n <= e)
      BY <1>3, FloorBelow
    <2>3. QED
      BY <1>8, <2>1, <2>2
  <1>12. own.withinRate \in Nat /\ (own.withinRate = 8000 \/ own.withinRate * n <= w)
    <2>1. PICK m \in Nat \ {0}, c \in Nat : m = 100 /\ c = 8000
      OBVIOUS
    <2>2. floorRate(w, n, m, c) \in Nat /\ (floorRate(w, n, m, c) = c \/ floorRate(w, n, m, c) * n <= w)
      BY <1>3, FloorBelow
    <2>3. QED
      BY <1>8, <2>1, <2>2
  <1>13. ASSUME reviewed # None PROVE SuitsReviewed(own, reviewed)
    <2>1. /\ d = reviewed.total /\ n = d /\ a = 100 * reviewed.sum100 /\ b = 100 * reviewed.sum5
          /\ e = 10000 * reviewed.exact /\ w = 10000 * reviewed.within
          /\ reviewed.sum100 <= 100 * d /\ reviewed.sum5 <= 4 * d
          /\ reviewed.sum100 \in Nat /\ reviewed.sum5 \in Nat
      BY <1>3, <1>4, <1>6, <1>7, <1>13
    <2>2. a <= 10000 * d /\ b <= 400 * d
      BY <2>1
    <2>3. a <= own.delta100 * d /\ b <= own.delta5 * d
      BY <1>9, <1>10, <2>2
    <2>4. QED
      BY <1>11, <1>12, <2>1, <2>3 DEF SuitsReviewed
  <1>14. QED
    BY <1>5, <1>9, <1>10, <1>11, <1>12, <1>13 DEF own

LEMMA RecommendedFit ==
  ASSUME NEW limits, Limits(limits), NEW live, GoodLive(live), NEW reviewed,
         reviewed = None \/ GoodReviewed(reviewed)
  PROVE  Limits(recommendScalarThresholds(limits, live, reviewed))
  <1> DEFINE own == recommendScalarThresholds(limits, live, reviewed)
  <1>1. DOMAIN own = LimitNames
    BY DEF recommendScalarThresholds, LimitNames
  <1>2. /\ own.failureRate \in Nat /\ own.reviewRate \in Nat /\ own.uncertainRate \in Nat
        /\ own.schemaValidRate \in Nat /\ own.averageMs \in Nat /\ own.p95Ms \in Nat
    BY RecommendedLive
  <1>3. /\ own.sampleSize \in Nat /\ own.delta100 \in Nat /\ own.delta5 \in Nat
        /\ own.exactRate \in Nat /\ own.withinRate \in Nat
    BY RecommendedReviewed
  <1> HIDE DEF own
  <1>4. \A name \in LimitNames : own[name] \in Nat
    BY <1>2, <1>3 DEF LimitNames
  <1>5. QED
    BY <1>1, <1>4 DEF Limits, own

(* Limits that suit a measurement raise no alert about it that may not be. *)
LEMMA SuitedIsQuiet ==
  ASSUME NEW limits, Limits(limits), NEW live, GoodLive(live), NEW reviewed,
         SuitsLive(limits, live)
  PROVE  LiveAlerts(limits, live) \subseteq BeyondLimits(live, reviewed)
  <1>1. /\ limits.failureRate \in Nat /\ limits.reviewRate \in Nat /\ limits.uncertainRate \in Nat
        /\ limits.schemaValidRate \in Nat /\ limits.averageMs \in Nat /\ limits.p95Ms \in Nat
    BY DEF Limits, LimitNames
  <1>2. SUFFICES ASSUME NEW kind \in LiveAlerts(limits, live)
                 PROVE  kind \in BeyondLimits(live, reviewed)
    OBVIOUS
  <1>3. /\ live.failureRate \in Nat /\ live.reviewRate \in Nat /\ live.uncertainRate \in Nat
        /\ (live.schemaValidRate # None => live.schemaValidRate \in Nat)
        /\ (live.averageMs # None => live.averageMs \in Nat /\ live.p95Ms \in Nat)
    BY DEF GoodLive
  <1>4. \/ kind = "FAILURE_RATE_HIGH" /\ live.failureRate > limits.failureRate
        \/ kind = "REVIEW_RATE_HIGH" /\ live.reviewRate > limits.reviewRate
        \/ kind = "UNCERTAIN_RATE_HIGH" /\ live.uncertainRate > limits.uncertainRate
        \/ /\ kind = "SCHEMA_VALID_RATE_LOW" /\ live.schemaValidRate # None
           /\ live.schemaValidRate < limits.schemaValidRate
        \/ /\ kind = "LATENCY_HIGH" /\ live.averageMs # None
           /\ live.averageMs > 100 * limits.averageMs \/ live.p95Ms > limits.p95Ms
    BY DEF LiveAlerts
  <1>5. CASE kind = "LATENCY_HIGH"
    BY <1>1, <1>3, <1>4, <1>5 DEF SuitsLive
  <1>6. CASE kind = "SCHEMA_VALID_RATE_LOW"
    BY <1>1, <1>3, <1>4, <1>6 DEF SuitsLive, BeyondLimits
  <1>7. CASE kind \in {"FAILURE_RATE_HIGH", "REVIEW_RATE_HIGH", "UNCERTAIN_RATE_HIGH"}
    BY <1>1, <1>3, <1>4, <1>7 DEF SuitsLive, BeyondLimits
  <1>8. QED
    BY <1>4, <1>5, <1>6, <1>7

LEMMA SuitedReviewIsQuiet ==
  ASSUME NEW limits, Limits(limits), NEW live, NEW reviewed, GoodReviewed(reviewed),
         SuitsReviewed(limits, reviewed)
  PROVE  ReviewedAlerts(limits, reviewed)
            \subseteq BeyondLimits(live, reviewed) \cup {"REVIEWED_SAMPLE_SIZE_LOW"}
  <1>1. /\ limits.delta100 \in Nat /\ limits.delta5 \in Nat
        /\ limits.exactRate \in Nat /\ limits.withinRate \in Nat
    BY DEF Limits, LimitNames
  <1>2. reviewed \in ReviewedSummary /\ reviewed # None
    BY SampleAssumption DEF GoodReviewed
  <1>3. PICK n \in Nat, a \in Nat, b \in Nat, e \in Nat, w \in Nat :
           /\ n = reviewed.total /\ a = reviewed.sum100 /\ b = reviewed.sum5
           /\ e = reviewed.exact /\ w = reviewed.within
    BY <1>2 DEF ReviewedSummary
  <1>4. PICK c100 \in Int, c5 \in Int, ce \in Int, cw \in Int :
           /\ c100 = limits.delta100 * n /\ c5 = limits.delta5 * n
           /\ ce = limits.exactRate * n /\ cw = limits.withinRate * n
    BY <1>1, Z3
  <1>5. SUFFICES ASSUME NEW kind \in ReviewedAlerts(limits, reviewed),
                        kind # "REVIEWED_SAMPLE_SIZE_LOW"
                 PROVE  kind \in BeyondLimits(live, reviewed)
    OBVIOUS
  <1>6. \/ kind = "SCORE_DRIFT_HIGH" /\ 100 * a > c100
        \/ kind = "SCORE_BUCKET_MATCH_LOW" /\ (100 * b > c5 \/ 10000 * e < ce \/ 10000 * w < cw)
    BY <1>3, <1>4, <1>5 DEF ReviewedAlerts
  <1>7. /\ 100 * a <= c100 /\ 100 * b <= c5
        /\ ce = 5000 * n \/ ce <= 10000 * e
        /\ cw = 8000 * n \/ cw <= 10000 * w
    BY <1>3, <1>4 DEF SuitsReviewed
  <1>8. kind = "SCORE_BUCKET_MATCH_LOW" /\ (2 * e < n \/ 5 * w < 4 * n)
    BY <1>6, <1>7
  <1>9. QED
    BY <1>2, <1>3, <1>8 DEF BeyondLimits

(* A key's own limits, compacted against the ones for all runs, are read   *)
(* back as they were recommended.                                          *)
LEMMA OwnLimitsRead ==
  ASSUME NEW base, Limits(base), NEW own, Limits(own),
         NEW by, by = compactThresholdOverride(base, own)
  PROVE  Limits(Overlay(by, base)) /\ \A name \in LimitNames : Overlay(by, base)[name] = own[name]
  <1>1. DOMAIN by = {x \in LimitNames : own[x] # base[x]} /\ \A x \in DOMAIN by : by[x] = own[x]
    BY DEF compactThresholdOverride
  <1>2. /\ DOMAIN Overlay(by, base) = DOMAIN by \cup DOMAIN base
        /\ \A x \in DOMAIN by \cup DOMAIN base :
              Overlay(by, base)[x] = IF x \in DOMAIN by THEN by[x] ELSE base[x]
    BY DEF Overlay
  <1>3. DOMAIN Overlay(by, base) = LimitNames
    BY <1>1, <1>2 DEF Limits
  <1>4. \A name \in LimitNames : Overlay(by, base)[name] = own[name]
    BY <1>1, <1>2 DEF Limits
  <1>5. QED
    BY <1>3, <1>4 DEF Limits

LEMMA ScopeLimits ==
  ASSUME NEW thresholds, ThresholdsFit(thresholds), NEW dim \in Dimensions, NEW key
  PROVE  Limits(thresholds.limits) /\ Limits(thresholdsForScope(thresholds, dim, key))
  <1>1. Limits(thresholds.limits)
    BY DEF ThresholdsFit, Limits
  <1>2. CASE key \notin DOMAIN thresholds.by[dim]
    BY <1>1, <1>2 DEF thresholdsForScope
  <1>3. CASE key \in DOMAIN thresholds.by[dim]
    <2> DEFINE own == thresholds.by[dim][key]
               base == thresholds.limits
    <2>1. thresholdsForScope(thresholds, dim, key) = Overlay(own, base)
      BY <1>3 DEF thresholdsForScope
    <2>2. /\ DOMAIN Overlay(own, base) = DOMAIN own \cup DOMAIN base
          /\ \A x \in DOMAIN own \cup DOMAIN base :
                Overlay(own, base)[x] = IF x \in DOMAIN own THEN own[x] ELSE base[x]
      BY DEF Overlay
    <2>3. \A name \in DOMAIN own : own[name] \in Nat
      BY <1>3 DEF ThresholdsFit
    <2>4. DOMAIN own \subseteq LimitNames
      BY <1>3 DEF ThresholdsFit
    <2>5. QED
      BY <1>1, <2>1, <2>2, <2>3, <2>4 DEF Limits
  <1>4. QED
    BY <1>1, <1>2, <1>3

(* What is recommended fits, and is quiet about what it was measured of.   *)
Quiet(thresholds, m) == \A alert \in buildAlerts(thresholds, m, FALSE) : MayAlert(thresholds, m, alert)

LEMMA OverridesOf ==
  ASSUME NEW thresholds, ThresholdsFit(thresholds), NEW m, GoodMeasures(m), NEW minima,
         NEW dim \in Dimensions, NEW key,
         key \in DOMAIN deriveRecommendedThresholds(thresholds, m, minima).by[dim]
  PROVE  LET recommended == deriveRecommendedThresholds(thresholds, m, minima)
             own == recommendScalarThresholds(thresholdsForScope(thresholds, dim, key),
                                              m.liveBy[dim][key], m.reviewedBy[dim][key])
         IN  /\ key \in DOMAIN m.liveBy[dim] /\ key \in DOMAIN m.reviewedBy[dim]
             /\ recommended.by[dim][key] = compactThresholdOverride(recommended.limits, own)
             /\ Limits(own) /\ SuitsLive(own, m.liveBy[dim][key])
             /\ SuitsReviewed(own, m.reviewedBy[dim][key])
  <1> DEFINE recommended == deriveRecommendedThresholds(thresholds, m, minima)
             live == m.liveBy[dim][key]
             reviewed == m.reviewedBy[dim][key]
             own == recommendScalarThresholds(thresholdsForScope(thresholds, dim, key), live, reviewed)
  <1>1. /\ key \in DOMAIN m.liveBy[dim] /\ key \in DOMAIN m.reviewedBy[dim]
        /\ recommended.by[dim][key] = compactThresholdOverride(recommended.limits, own)
    BY DEF deriveRecommendedThresholds, deriveScopedThresholdOverrides
  <1>2. GoodLive(live) /\ GoodReviewed(reviewed)
    BY <1>1 DEF GoodMeasures
  <1>3. Limits(thresholdsForScope(thresholds, dim, key))
    BY ScopeLimits
  <1>4. reviewed # None
    BY <1>2, SampleAssumption DEF GoodReviewed
  <1>5. Limits(own) /\ SuitsLive(own, live) /\ SuitsReviewed(own, reviewed)
    BY <1>2, <1>3, <1>4, RecommendedFit, RecommendedLive, RecommendedReviewed
  <1>6. QED
    BY <1>1, <1>5

LEMMA RecommendationFits ==
  ASSUME NEW thresholds, ThresholdsFit(thresholds), NEW m, GoodMeasures(m), NEW minima
  PROVE  ThresholdsFit(deriveRecommendedThresholds(thresholds, m, minima))
  <1> DEFINE recommended == deriveRecommendedThresholds(thresholds, m, minima)
  <1>1. recommended.limits = recommendScalarThresholds(thresholds.limits, m.live, m.reviewed)
    BY DEF deriveRecommendedThresholds
  <1>2. Limits(recommended.limits)
    BY <1>1, RecommendedFit DEF GoodMeasures, ThresholdsFit, Limits
  <1>3. recommended.limits \in [LimitNames -> Nat]
    <2>1. \E f : recommended.limits = [name \in LimitNames |-> f[name]]
      BY <1>1 DEF recommendScalarThresholds, LimitNames
    <2>2. QED
      BY <1>2, <2>1 DEF Limits
  <1>4. ASSUME NEW dim \in Dimensions, NEW key \in DOMAIN recommended.by[dim]
        PROVE  /\ DOMAIN recommended.by[dim][key] \subseteq LimitNames
               /\ \A name \in DOMAIN recommended.by[dim][key] :
                     recommended.by[dim][key][name] \in Nat
    <2>1. PICK own : /\ recommended.by[dim][key] = compactThresholdOverride(recommended.limits, own)
                    /\ Limits(own)
      BY OverridesOf
    <2>2. QED
      BY <2>1 DEF compactThresholdOverride, Limits
  <1>5. QED
    BY <1>3, <1>4 DEF ThresholdsFit

LEMMA RecommendationIsQuiet ==
  ASSUME NEW thresholds, ThresholdsFit(thresholds), NEW m, GoodMeasures(m), NEW minima
  PROVE  Quiet(deriveRecommendedThresholds(thresholds, m, minima), m)
  <1> DEFINE recommended == deriveRecommendedThresholds(thresholds, m, minima)
             base == recommended.limits
  <1>1. base = recommendScalarThresholds(thresholds.limits, m.live, m.reviewed)
    BY DEF deriveRecommendedThresholds
  <1>2. Limits(thresholds.limits) /\ GoodLive(m.live)
        /\ (m.reviewed = None \/ GoodReviewed(m.reviewed))
    BY DEF GoodMeasures, ThresholdsFit, Limits
  <1>3. Limits(base) /\ SuitsLive(base, m.live) /\ (m.reviewed # None => SuitsReviewed(base, m.reviewed))
    BY <1>1, <1>2, RecommendedFit, RecommendedLive, RecommendedReviewed
  <1>4. SUFFICES ASSUME NEW alert \in buildAlerts(recommended, m, FALSE)
                 PROVE  MayAlert(recommended, m, alert)
    BY DEF Quiet
  <1>5. \/ \E kind \in LiveAlerts(base, m.live)
               \cup (IF m.reviewed = None THEN {} ELSE ReviewedAlerts(base, m.reviewed)) :
             alert = [kind |-> kind, dim |-> None, key |-> None]
        \/ \E dim \in Dimensions : alert \in appendScopedAlerts(recommended, m, dim)
    BY DEF buildAlerts
  <1>6. ASSUME NEW kind \in LiveAlerts(base, m.live)
                  \cup (IF m.reviewed = None THEN {} ELSE ReviewedAlerts(base, m.reviewed)),
               alert = [kind |-> kind, dim |-> None, key |-> None]
        PROVE  MayAlert(recommended, m, alert)
    <2>1. LiveAlerts(base, m.live) \subseteq BeyondLimits(m.live, m.reviewed)
      BY <1>2, <1>3, SuitedIsQuiet
    <2>2. m.reviewed # None => ReviewedAlerts(base, m.reviewed)
             \subseteq BeyondLimits(m.live, m.reviewed) \cup {"REVIEWED_SAMPLE_SIZE_LOW"}
      BY <1>2, <1>3, SuitedReviewIsQuiet
    <2>3. alert.kind = kind /\ alert.dim = None
      BY <1>6
    <2>4. kind = "REVIEWED_SAMPLE_SIZE_LOW" \/ kind \in BeyondLimits(m.live, m.reviewed)
      BY <1>6, <2>1, <2>2
    <2>5. QED
      BY <2>3, <2>4 DEF MayAlert
  <1>7. ASSUME NEW dim \in Dimensions, alert \in appendScopedAlerts(recommended, m, dim)
        PROVE  MayAlert(recommended, m, alert)
    <2>1. PICK key, kind :
             /\ alert = [kind |-> kind, dim |-> dim, key |-> key]
             /\ \/ /\ key \in DOMAIN m.liveBy[dim]
                   /\ kind \in LiveAlerts(thresholdsForScope(recommended, dim, key), m.liveBy[dim][key])
                \/ /\ key \in DOMAIN m.reviewedBy[dim]
                   /\ kind \in ReviewedAlerts(thresholdsForScope(recommended, dim, key),
                                              m.reviewedBy[dim][key])
                \/ kind = "REVIEWED_SAMPLE_SIZE_LOW"
      BY <1>7 DEF appendScopedAlerts
    <2>2. alert.kind = kind /\ alert.dim = dim /\ alert.key = key /\ dim # None
      BY <2>1, SampleAssumption
    <2>3. CASE key \notin DOMAIN recommended.by[dim]
      BY <2>2, <2>3 DEF MayAlert
    <2>4. CASE key \in DOMAIN recommended.by[dim]
      <3> DEFINE live == m.liveBy[dim][key]
                 reviewed == m.reviewedBy[dim][key]
                 own == recommendScalarThresholds(thresholdsForScope(thresholds, dim, key), live, reviewed)
                 limits == thresholdsForScope(recommended, dim, key)
      <3>1. /\ key \in DOMAIN m.liveBy[dim] /\ key \in DOMAIN m.reviewedBy[dim]
            /\ recommended.by[dim][key] = compactThresholdOverride(base, own)
            /\ Limits(own) /\ SuitsLive(own, live) /\ SuitsReviewed(own, reviewed)
        BY <2>4, OverridesOf
      <3>2. GoodLive(live) /\ GoodReviewed(reviewed)
        BY <3>1 DEF GoodMeasures
      <3>3. limits = Overlay(recommended.by[dim][key], base)
        BY <2>4 DEF thresholdsForScope
      <3> HIDE DEF own, limits, base
      <3>4. Limits(limits) /\ \A name \in LimitNames : limits[name] = own[name]
        BY <1>3, <3>1, <3>3, OwnLimitsRead
      <3>5. SuitsLive(limits, live) /\ SuitsReviewed(limits, reviewed)
        BY <3>1, <3>4 DEF SuitsLive, SuitsReviewed, LimitNames
      <3>6. LiveAlerts(limits, live) \subseteq BeyondLimits(live, reviewed)
        BY <3>2, <3>4, <3>5, SuitedIsQuiet
      <3>7. ReviewedAlerts(limits, reviewed)
               \subseteq BeyondLimits(live, reviewed) \cup {"REVIEWED_SAMPLE_SIZE_LOW"}
        BY <3>2, <3>4, <3>5, SuitedReviewIsQuiet
      <3>8. kind = "REVIEWED_SAMPLE_SIZE_LOW" \/ kind \in BeyondLimits(live, reviewed)
        BY <2>1, <3>6, <3>7 DEF limits
      <3>9. QED
        BY <2>2, <3>8 DEF MayAlert
    <2>5. QED
      BY <2>3, <2>4
  <1>8. QED
    BY <1>5, <1>6, <1>7
-----------------------------------------------------------------------------
(* The configurations there are, and the ones that calls hold, fit; what a *)
(* call has measured is of runs and samples of their types.                *)
ConfigPcs == {"recommend", "loadRecommend", "measure", "openConfig", "writeConfig", "put"}
ConfigFits == Readable(file.config.now) => ThresholdsFit(file.config.now.thresholds)
QuietCall(p) ==
    /\ call[p].pc \in {"recommend", "loadRecommend", "measure", "openConfig"} =>
          ThresholdsFit(call[p].base.thresholds)
    /\ call[p].pc \in {"loadRecommend", "measure"} =>
          ThresholdsFit(call[p].found.thresholds) /\ GoodRuns(call[p].runs)
    /\ call[p].pc = "measure" => GoodSamples(call[p].dataset)
    /\ call[p].pc = "openConfig" =>
          /\ ThresholdsFit(call[p].found.config.thresholds)
          /\ GoodMeasures(call[p].found.measured)
    /\ call[p].pc \in {"writeConfig", "put"} => ThresholdsFit(writer[p].data.thresholds)
    /\ call[p].pc = "writeConfig" /\ call[p].found # None =>
          Quiet(writer[p].data.thresholds, call[p].found)
QuietInv == ConfigFits /\ \A p \in Processes : QuietCall(p)

LEMMA InvariantQuiet ==
  ASSUME QuietInv
  PROVE  RecommendedThresholdsAreQuiet
  BY DEF QuietInv, QuietCall, Quiet, RecommendedThresholdsAreQuiet

LEMMA DefaultsFit == ThresholdsFit([limits |-> DefaultLimits, by |-> NoOverrides])
  <1>1. DefaultLimits \in [LimitNames -> Nat]
    BY DEF DefaultLimits, LimitNames
  <1>2. \A dim \in Dimensions : DOMAIN NoOverrides[dim] = {}
    BY DEF NoOverrides
  <1>3. QED
    BY <1>1, <1>2 DEF ThresholdsFit

LEMMA GetConfigFits ==
  ASSUME ConfigFits
  PROVE  ThresholdsFit(GetConfig.thresholds)
  BY DefaultsFit DEF ConfigFits, GetConfig, buildDefaultTenantAdminConfig

LEMMA WindowedRunsGood ==
  ASSUME RunsInv
  PROVE  GoodRuns(windowedRuns)
  <1> DEFINE S == {q \in Runs : InWindow(q)}
             F == [r \in S |-> LiveView(r)]
  <1>1. IsFiniteSet(S)
    BY ExportAssumption, FS_Subset
  <1>2. windowedRuns = {F[r] : r \in S}
    BY DEF windowedRuns
  <1>3. IsFiniteSet(windowedRuns)
    BY <1>1, <1>2, ImageFinite
  <1>4. ASSUME NEW r \in Runs PROVE LiveView(r).ms \in Nat \cup {None}
    <2>1. run[r] \in RunRecord
      BY DEF RunsInv
    <2>2. "ms" \in DOMAIN run[r] /\ run[r].ms \in Nat \cup {None}
      BY <2>1 DEF RunRecord
    <2>3. LiveView(r).ms = run[r].ms
      BY <2>2 DEF LiveView, Overlay
    <2>4. QED
      BY <2>2, <2>3
  <1>5. QED
    BY <1>3, <1>4 DEF GoodRuns, windowedRuns

LEMMA LoadedSamplesGood ==
  ASSUME ExportsInv, NEW seen, seen \subseteq Nat, ~LoadThrows(seen)
  PROVE  GoodSamples(SamplesOf(Windowed(loadReviewedExportRecords(seen))))
  <1> DEFINE records == Windowed(loadReviewedExportRecords(seen))
             S == {q \in DOMAIN records : records[q].label # None}
             F == [r \in S |-> SampleView(r)]
  <1>1. ASSUME NEW i \in seen PROVE DOMAIN RecordsIn(i) \subseteq Runs
    <2>1. CASE i > 0
      <3>1. i \in DOMAIN snapshots /\ RecordsIn(i) = snapshots[i].records
        BY <2>1 DEF LoadThrows, RecordsIn
      <3>2. QED
        BY <3>1 DEF ExportsInv, RefreshInv, HeldInv, Held, Fits
    <2>2. CASE i = 0 /\ Readable(file.latest.now)
      BY <2>2 DEF RecordsIn, ExportsInv, RefreshInv, HeldInv, Held, Fits
    <2>3. CASE i = 0 /\ ~Readable(file.latest.now)
      BY <2>3 DEF RecordsIn, LoadThrows, Readable
    <2>4. QED
      BY <2>1, <2>2, <2>3
  <1>2. S \subseteq Runs
    BY <1>1 DEF Windowed, loadReviewedExportRecords
  <1>3. SamplesOf(records) = {F[r] : r \in S}
    BY DEF SamplesOf
  <1> HIDE DEF S, records
  <1>4. IsFiniteSet(S)
    BY <1>2, ExportAssumption, FS_Subset
  <1>5. IsFiniteSet(SamplesOf(records))
    <2> HIDE DEF F
    <2>1. IsFiniteSet({F[r] : r \in S})
      BY <1>4, ImageFinite
    <2>2. QED
      BY <1>3, <2>1
  <1>6. \A r \in S : F[r].model100 \in 0..100 /\ F[r].analyst100 \in 0..100
    <2>1. \A r \in Runs : run[r].model100 \in 0..100 /\ run[r].analyst100 \in 0..100
      BY DEF ExportsInv, RunsInv, RunRecord
    <2>2. QED
      BY <1>2, <2>1 DEF SampleView
  <1>7. QED
    BY <1>3, <1>5, <1>6 DEF GoodSamples, records
-----------------------------------------------------------------------------
(* Steps: all calls but one go on holding what they hold.                  *)
SameQuiet(q) ==
    /\ call'[q].pc = call[q].pc /\ call'[q].base = call[q].base /\ call'[q].found = call[q].found
    /\ call'[q].runs = call[q].runs /\ call'[q].dataset = call[q].dataset
    /\ call[q].pc \in {"writeConfig", "put"} => writer'[q].data = writer[q].data

LEMMA HeldQuiet ==
  ASSUME QuietInv, ConfigFits',
         \A q \in Processes : SameQuiet(q) \/ call'[q].pc \notin ConfigPcs \/ QuietCall(q)'
  PROVE  QuietInv'
  <1>1. ASSUME NEW q \in Processes PROVE QuietCall(q)'
    <2>1. CASE SameQuiet(q)
      <3>1. QuietCall(q)
        BY DEF QuietInv
      <3>2. QED
        BY <2>1, <3>1 DEF SameQuiet, QuietCall
    <2>2. CASE call'[q].pc \notin ConfigPcs
      BY <2>2 DEF QuietCall, ConfigPcs
    <2>3. QED
      BY <2>1, <2>2
  <1>2. QED
    BY <1>1 DEF QuietInv

LEMMA QuietStep ==
  ASSUME ExportsInv, QuietInv, NEW p \in Processes, NEW x, Proceed(p, x), WritersStay(p),
         ConfigFits', x.pc \notin ConfigPcs \/ QuietCall(p)'
  PROVE  QuietInv'
  <1>1. call'[p] = x /\ \A q \in Processes \ {p} : call'[q] = call[q]
    BY DEF Proceed, ExportsInv, ShapeInv
  <1>2. ASSUME NEW q \in Processes, q # p, call[q].pc \in {"writeConfig", "put"}
        PROVE  writer'[q].data = writer[q].data
    <2>1. Opened(q, "config")
      BY <1>2 DEF ExportsInv, WriterInv, WriterOK
    <2>2. QED
      BY <1>2, <2>1 DEF WritersStay
  <1>3. \A q \in Processes \ {p} : SameQuiet(q)
    BY <1>1, <1>2 DEF SameQuiet
  <1>4. QED
    BY <1>1, <1>3, HeldQuiet

LEMMA RestsQuiet ==
  ASSUME ExportsInv, QuietInv, NEW p \in Processes, NEW x, Proceed(p, x), WritersStay(p),
         file'.config.now \in {file.config.now, Empty, Torn}, x.pc \notin ConfigPcs
  PROVE  QuietInv'
  <1>1. ConfigFits'
    BY DEF QuietInv, ConfigFits, Readable
  <1>2. QED
    BY <1>1, QuietStep

LEMMA ExitQuiet ==
  ASSUME QuietInv, Exit, file' = file
  PROVE  QuietInv'
  <1>1. \A q \in Processes : call'[q].pc \notin ConfigPcs
    BY DEF Exit, Idle, ConfigPcs
  <1>2. ConfigFits'
    BY DEF QuietInv, ConfigFits, Readable
  <1>3. QED
    BY <1>1, <1>2, HeldQuiet

LEMMA ThrowQuiet ==
  ASSUME ExportsInv, QuietInv, NEW p \in Processes, Throw(p), file' = file
  PROVE  QuietInv'
  <1>1. CASE p = Worker
    BY <1>1, ExitQuiet DEF Throw
  <1>2. CASE p # Worker
    <2>1. Proceed(p, Idle) /\ writer' = [writer EXCEPT ![p] = None]
      BY <1>2 DEF Throw
    <2>2. WritersStay(p)
      BY <2>1 DEF WritersStay, Opened, ExportsInv, ShapeInv
    <2>3. Idle.pc \notin ConfigPcs
      BY DEF Idle, ConfigPcs
    <2>4. QED
      BY <2>1, <2>2, <2>3, RestsQuiet
  <1>3. QED
    BY <1>1, <1>2

LEMMA LeaveQuiet ==
  ASSUME ExportsInv, QuietInv, NEW p \in Processes, Proceed(p, NextTask(p)), writer' = writer,
         file' = file
  PROVE  QuietInv'
  <1>1. Resting(NextTask(p))
    BY NextTaskRests DEF ExportsInv
  <1>2. NextTask(p).pc \notin ConfigPcs
    BY <1>1 DEF Resting, TaskNames, ConfigPcs
  <1>3. QED
    BY <1>2, SameWriters, RestsQuiet

(* A step of a refresh leaves the configuration alone.                     *)
LEMMA RefreshStartsQuiet ==
  ASSUME ExportsInv, QuietInv, NEW p \in Processes, StartRefresh(p)
  PROVE  QuietInv'
  <1>0. file' = file
    BY DEF StartRefresh
  <1>1. CASE Throw(p)
    BY <1>0, <1>1, ThrowQuiet
  <1>2. CASE Proceed(p, NextTask(p)) /\ writer' = writer
    BY <1>0, <1>2, LeaveQuiet
  <1>3. CASE /\ writer' = writer
             /\ call' = [q \in Processes |->
                     IF q = p THEN [call[p] EXCEPT !.pc = "export", !.number = Newest,
                                      !.started = clock,
                                      !.decided = [r \in Runs |->
                                          IF Exported(r) THEN run[r].decisions ELSE 0]]
                     ELSE [call[q] EXCEPT
                              !.number = Renumbered(call[q].number),
                              !.seen = {Renumbered(i) : i \in call[q].seen}]]
    <2>1. ASSUME NEW q \in Processes, q # p PROVE SameQuiet(q)
      <3>1. PICK n, s : n = Renumbered(call[q].number) /\ s = {Renumbered(i) : i \in call[q].seen}
        OBVIOUS
      <3>2. call'[q] = [call[q] EXCEPT !.number = n, !.seen = s]
        BY <1>3, <2>1, <3>1
      <3>3. DOMAIN call[q] = CallFields
        BY DEF ExportsInv, ShapeInv
      <3>4. QED
        BY <1>3, <3>2, <3>3 DEF CallFields, SameQuiet
    <2>2. call'[p].pc \notin ConfigPcs
      <3>1. PICK d : d = [r \in Runs |-> IF Exported(r) THEN run[r].decisions ELSE 0]
        OBVIOUS
      <3>2. call'[p] = [call[p] EXCEPT !.pc = "export", !.number = Newest,
                                       !.started = clock, !.decided = d]
        BY <1>3, <3>1
      <3>3. DOMAIN call[p] = CallFields
        BY DEF ExportsInv, ShapeInv
      <3>4. call'[p].pc = "export"
        BY <3>2, <3>3 DEF CallFields
      <3>5. QED
        BY <3>4 DEF ConfigPcs
    <2>3. ConfigFits'
      BY <1>0 DEF QuietInv, ConfigFits, Readable
    <2>4. QED
      BY <2>1, <2>2, <2>3, HeldQuiet
  <1>4. QED
    BY <1>1, <1>2, <1>3 DEF StartRefresh

LEMMA RefreshQuiet ==
  ASSUME ExportsInv, QuietInv, NEW p \in Processes, RefreshStep(p)
  PROVE  QuietInv'
  <1>0. /\ DOMAIN call[p] = CallFields
        /\ DOMAIN file = {"latest", "manifest", "config"} /\ DOMAIN writer = Processes
        /\ \A name \in DOMAIN file : DOMAIN file[name] = {"now", "tmp"}
    BY DEF ExportsInv, ShapeInv
  <1>1. ASSUME NEW next \in Refreshing, Proceed(p, [call[p] EXCEPT !.pc = next]), WritersStay(p),
               file'.config = file.config
        PROVE  QuietInv'
    <2>1. PICK x : x = [call[p] EXCEPT !.pc = next]
      OBVIOUS
    <2>2. x.pc = next
      BY <1>0, <2>1 DEF CallFields
    <2>3. next \notin ConfigPcs
      BY DEF Refreshing, Carrying, Storing, ConfigPcs
    <2>4. Proceed(p, x)
      BY <1>1, <2>1
    <2>5. QED
      BY <1>1, <2>2, <2>3, <2>4, RestsQuiet
  <1>2. ASSUME NEW name \in {"latest", "manifest"}, NEW pc, NEW next \in Refreshing, NEW data,
               OpenTemporary(p, name, pc, next, data)
        PROVE  QuietInv'
    <2>1. Open(p, name, "tmp", data) /\ Proceed(p, [call[p] EXCEPT !.pc = next])
      BY <1>2 DEF OpenTemporary
    <2>2. file'.config = file.config
      BY <1>0, <2>1 DEF Open
    <2>3. WritersStay(p)
      BY <2>1, OpensFile
    <2>4. QED
      BY <1>1, <2>1, <2>2, <2>3
  <1>3. ASSUME NEW name \in {"latest", "manifest"}, NEW pc, NEW next \in Refreshing,
               pc \in Refreshing, call[p].pc = pc => Opened(p, name),
               name = "latest" /\ call[p].pc = pc => writer[p].data \in Held,
               WriteTemporary(p, pc, next)
        PROVE  QuietInv'
    <2>1. Write(p) /\ Proceed(p, [call[p] EXCEPT !.pc = next]) /\ call[p].pc = pc
      BY <1>3 DEF WriteTemporary
    <2>2. writer[p].name = name
      BY <1>3, <2>1 DEF Opened
    <2>3. file'.config = file.config
      BY <1>0, <2>1, <2>2 DEF Write
    <2>4. WritersStay(p)
      BY <1>3, <2>1, WritesFile
    <2>5. QED
      BY <1>1, <2>1, <2>3, <2>4
  <1>4. ASSUME NEW name \in {"latest", "manifest"}, NEW pc, NEW next \in Refreshing,
               RenameTemporary(p, name, pc, next)
        PROVE  QuietInv'
    <2>1. CASE Throw(p) /\ file' = file
      BY <2>1, ThrowQuiet
    <2>2. CASE Rename(name) /\ Proceed(p, [call[p] EXCEPT !.pc = next])
      <3>1. file'.config = file.config
        BY <1>0, <2>2 DEF Rename
      <3>2. WritersStay(p)
        BY <2>2, RenamesFile
      <3>3. QED
        BY <1>1, <2>2, <3>1, <3>2
    <2>3. QED
      BY <1>4, <2>1, <2>2 DEF RenameTemporary
  <1>5. CASE ExportRuns(p)
    <2>0. file' = file
      BY <1>5 DEF ExportRuns
    <2>1. CASE Throw(p)
      BY <2>0, <2>1, ThrowQuiet
    <2>2. CASE ~Throw(p)
      <3>1. PICK e : Proceed(p, [call[p] EXCEPT !.pc = "openLatest", !.export = e]) /\ writer' = writer
        BY <1>5, <2>2 DEF ExportRuns
      <3>2. PICK x : x = [call[p] EXCEPT !.pc = "openLatest", !.export = e]
        OBVIOUS
      <3>3. x.pc = "openLatest"
        BY <1>0, <3>2 DEF CallFields
      <3>4. Proceed(p, x) /\ x.pc \notin ConfigPcs
        BY <3>1, <3>2, <3>3 DEF ConfigPcs
      <3>5. QED
        BY <2>0, <3>1, <3>4, SameWriters, RestsQuiet
    <2>3. QED
      BY <2>1, <2>2
  <1>6. CASE WriteSnapshot(p)
    <2>1. /\ file' = file /\ writer' = writer
          /\ Proceed(p, [call[p] EXCEPT !.pc = "openManifest"])
      BY <1>6 DEF WriteSnapshot
    <2>2. "openManifest" \in Refreshing
      BY DEF Refreshing, Storing
    <2>3. QED
      BY <1>1, <2>1, <2>2, SameWriters
  <1>7. CASE pruneSnapshots(p)
    <2>1. file' = file /\ writer' = writer /\ Proceed(p, NextTask(p))
      BY <1>7 DEF pruneSnapshots
    <2>2. QED
      BY <2>1, LeaveQuiet
  <1>8. {"writeLatest", "renameLatest", "snapshot", "writeManifest", "renameManifest", "prune"}
           \subseteq Refreshing
    BY DEF Refreshing, Carrying, Storing
  <1>9. call[p].pc = "writeLatest" => Opened(p, "latest") /\ writer[p].data \in Held
    BY DEF ExportsInv, WriterInv, WriterOK, Held, Carrying
  <1>10. call[p].pc = "writeManifest" => Opened(p, "manifest")
    BY DEF ExportsInv, WriterInv, WriterOK
  <1>11. CASE WriteTemporary(p, "writeLatest", "renameLatest")
    BY <1>3, <1>8, <1>9, <1>11
  <1>12. CASE WriteTemporary(p, "writeManifest", "renameManifest")
    BY <1>3, <1>8, <1>10, <1>12
  <1>13. QED
    BY <1>2, <1>4, <1>5, <1>6, <1>7, <1>8, <1>11, <1>12, RefreshStartsQuiet DEF RefreshStep

(* A call that goes on without the configuration, or that holds what fits. *)
LEMMA GoesOnQuiet ==
  ASSUME ExportsInv, QuietInv, NEW p \in Processes, NEW x, Proceed(p, x),
         writer' = writer, file' = file, x.pc \notin ConfigPcs
  PROVE  QuietInv'
  BY SameWriters, RestsQuiet

LEMMA HoldsQuiet ==
  ASSUME ExportsInv, QuietInv, NEW p \in Processes, NEW x, Proceed(p, x),
         writer' = writer, file' = file,
         x.pc \in {"recommend", "loadRecommend", "measure", "openConfig"},
         ThresholdsFit(x.base.thresholds),
         x.pc \in {"loadRecommend", "measure"} =>
            ThresholdsFit(x.found.thresholds) /\ GoodRuns(x.runs),
         x.pc = "measure" => GoodSamples(x.dataset),
         x.pc = "openConfig" => /\ ThresholdsFit(x.found.config.thresholds)
                                /\ GoodMeasures(x.found.measured)
  PROVE  QuietInv'
  <1>1. call'[p] = x
    BY DEF Proceed, ExportsInv, ShapeInv
  <1>2. QuietCall(p)'
    BY <1>1 DEF QuietCall
  <1>3. ConfigFits'
    BY DEF QuietInv, ConfigFits, Readable
  <1>4. QED
    BY <1>2, <1>3, SameWriters, QuietStep

LEMMA ApplyQuiet ==
  ASSUME ExportsInv, QuietInv, NEW p \in Processes,
         StartApplyAll(p) \/ applyRecommendedThresholds(p) \/ recommendThresholds(p)
         \/ LoadRecommendation(p) \/ Measure(p)
  PROVE  QuietInv'
  <1> DEFINE c == call[p]
  <1>0. /\ DOMAIN c = CallFields /\ QuietCall(p) /\ ConfigFits
        /\ ThresholdsFit(GetConfig.thresholds)
    BY GetConfigFits DEF ExportsInv, ShapeInv, QuietInv
  <1>1. CASE StartApplyAll(p)
    <2> DEFINE config == file.config.now
               policy == [force |-> FALSE, enable |-> config.enabled, interval |-> config.interval,
                          minima |-> config.minima, autoApply |-> config.autoApply]
    <2>0. file' = file
      BY <1>1 DEF StartApplyAll
    <2>1. \/ Throw(p)
          \/ Proceed(p, NextTask(p)) /\ writer' = writer
          \/ Proceed(p, [c EXCEPT !.pc = "apply", !.ask = policy]) /\ writer' = writer
      BY <1>1 DEF StartApplyAll
    <2>2. CASE Proceed(p, [c EXCEPT !.pc = "apply", !.ask = policy]) /\ writer' = writer
      <3>1. PICK x : x = [c EXCEPT !.pc = "apply", !.ask = policy]
        OBVIOUS
      <3>2. x.pc \notin ConfigPcs
        BY <1>0, <3>1 DEF CallFields, ConfigPcs
      <3>3. Proceed(p, x)
        BY <2>2, <3>1
      <3>4. QED
        BY <2>0, <2>2, <3>2, <3>3, GoesOnQuiet
    <2>3. QED
      BY <2>0, <2>1, <2>2, ThrowQuiet, LeaveQuiet
  <1>2. CASE applyRecommendedThresholds(p)
    <2>0. file' = file /\ writer' = writer
      BY <1>2 DEF applyRecommendedThresholds
    <2>1. PICK x : x = [c EXCEPT !.pc = "recommend", !.base = GetConfig, !.started = clock]
      OBVIOUS
    <2>2. x.pc = "recommend" /\ x.base = GetConfig
      BY <1>0, <2>1 DEF CallFields
    <2>3. Proceed(p, x)
      BY <1>2, <2>1 DEF applyRecommendedThresholds
    <2>4. QED
      BY <1>0, <2>0, <2>2, <2>3, HoldsQuiet
  <1>3. CASE recommendThresholds(p)
    <2>0. c.pc = "recommend" /\ file' = file /\ writer' = writer
      BY <1>3 DEF recommendThresholds
    <2>1. PICK x : x = [c EXCEPT !.pc = "loadRecommend", !.found = GetConfig,
                                 !.runs = windowedRuns, !.seen = resolveReviewedDatasetFiles]
      OBVIOUS
    <2>2. /\ x.pc = "loadRecommend" /\ x.base = c.base /\ x.found = GetConfig
          /\ x.runs = windowedRuns
      BY <1>0, <2>1 DEF CallFields
    <2>3. Proceed(p, x)
      BY <1>3, <2>1 DEF recommendThresholds
    <2>4. ThresholdsFit(c.base.thresholds) /\ GoodRuns(windowedRuns)
      BY <1>0, <2>0, WindowedRunsGood DEF QuietCall, ExportsInv
    <2>5. QED
      BY <1>0, <2>0, <2>2, <2>3, <2>4, HoldsQuiet
  <1>4. CASE LoadRecommendation(p)
    <2> DEFINE samples == SamplesOf(Windowed(loadReviewedExportRecords(c.seen)))
    <2>0. c.pc = "loadRecommend" /\ file' = file
      BY <1>4 DEF LoadRecommendation
    <2>1. \/ Throw(p)
          \/ /\ Proceed(p, [c EXCEPT !.pc = "measure", !.seen = {}, !.dataset = samples])
             /\ writer' = writer /\ ~LoadThrows(c.seen)
      BY <1>4 DEF LoadRecommendation
    <2>2. CASE /\ Proceed(p, [c EXCEPT !.pc = "measure", !.seen = {}, !.dataset = samples])
               /\ writer' = writer /\ ~LoadThrows(c.seen)
      <3>1. PICK x : x = [c EXCEPT !.pc = "measure", !.seen = {}, !.dataset = samples]
        OBVIOUS
      <3>2. c.seen \subseteq Nat
        BY DEF ExportsInv, RefreshInv, NumbersInv
      <3>3. GoodSamples(samples)
        BY <2>2, <3>2, LoadedSamplesGood
      <3>4. /\ x.pc = "measure" /\ x.base = c.base /\ x.found = c.found /\ x.runs = c.runs
            /\ x.dataset = samples
        BY <1>0, <3>1 DEF CallFields
      <3>5. Proceed(p, x)
        BY <2>2, <3>1
      <3>6. ThresholdsFit(c.base.thresholds) /\ ThresholdsFit(c.found.thresholds) /\ GoodRuns(c.runs)
        BY <1>0, <2>0 DEF QuietCall
      <3>7. QED
        BY <2>0, <2>2, <3>3, <3>4, <3>5, <3>6, HoldsQuiet
    <2>3. QED
      BY <2>0, <2>1, <2>2, ThrowQuiet
  <1>5. CASE Measure(p)
    <2> DEFINE measured == [config |-> c.found, measured |-> Measurements(c.runs, c.dataset)]
    <2>0. c.pc = "measure" /\ file' = file /\ writer' = writer
      BY <1>5 DEF Measure
    <2>1. PICK x : x = [c EXCEPT !.pc = "openConfig", !.runs = None, !.dataset = None,
                                 !.found = measured]
      OBVIOUS
    <2>2. x.pc = "openConfig" /\ x.base = c.base /\ x.found = measured
      BY <1>0, <2>1 DEF CallFields
    <2>3. Proceed(p, x)
      BY <1>5, <2>1 DEF Measure
    <2>4. /\ ThresholdsFit(c.base.thresholds) /\ ThresholdsFit(c.found.thresholds)
          /\ GoodRuns(c.runs) /\ GoodSamples(c.dataset)
      BY <1>0, <2>0 DEF QuietCall
    <2>5. GoodMeasures(Measurements(c.runs, c.dataset))
      BY <2>4, MeasurementsType
    <2>6. x.found.config = c.found /\ x.found.measured = Measurements(c.runs, c.dataset)
      BY <2>2
    <2>7. QED
      BY <2>0, <2>2, <2>3, <2>4, <2>5, <2>6, HoldsQuiet
  <1>6. QED
    BY <1>1, <1>2, <1>3, <1>4, <1>5

(* What is written to the configuration fits, and if it was recommended it *)
(* is quiet about what it was recommended from.                            *)
LEMMA OpensQuiet ==
  ASSUME ExportsInv, QuietInv, NEW p \in Processes, NEW x, NEW data, Proceed(p, x),
         Open(p, "config", "now", data), x.pc \in {"writeConfig", "put"},
         ThresholdsFit(data.thresholds),
         x.pc = "writeConfig" /\ x.found # None => Quiet(data.thresholds, x.found)
  PROVE  QuietInv'
  <1>1. call'[p] = x
    BY DEF Proceed, ExportsInv, ShapeInv
  <1>2. WritersStay(p) /\ writer'[p].data = data
    BY OpensFile
  <1>3. file'.config.now = Empty
    BY DEF Open, ExportsInv, ShapeInv
  <1>4. ConfigFits'
    BY <1>3 DEF ConfigFits, Readable
  <1>5. QuietCall(p)'
    BY <1>1, <1>2 DEF QuietCall, Quiet
  <1>6. QED
    BY <1>2, <1>4, <1>5, QuietStep

LEMMA WritesQuiet ==
  ASSUME ExportsInv, QuietInv, NEW p \in Processes, NEW x, Proceed(p, x), Write(p),
         call[p].pc \in {"writeConfig", "put"}, x.pc \notin ConfigPcs
  PROVE  QuietInv'
  <1>1. Opened(p, "config") /\ ThresholdsFit(writer[p].data.thresholds)
    BY DEF ExportsInv, WriterInv, WriterOK, QuietInv, QuietCall
  <1>2. WritersStay(p)
    BY <1>1, WritesFile
  <1>3. /\ DOMAIN file = {"latest", "manifest", "config"}
        /\ DOMAIN file["config"] = {"now", "tmp"} /\ file.config = file["config"]
    BY DEF ExportsInv, ShapeInv
  <1>4. file'.config.now \in {file.config.now, writer[p].data, Torn}
    <2>1. CASE file' = file
      BY <2>1
    <2>2. CASE file' # file
      <3>1. PICK content \in Overwritten(file["config"][writer[p].place], writer[p].data) :
               file' = [file EXCEPT !["config"][writer[p].place] = content]
        BY <1>1, <2>2 DEF Write, Opened
      <3>2. content \in {writer[p].data, Torn}
        BY <3>1 DEF Overwritten
      <3>3. file'.config.now = IF writer[p].place = "now" THEN content ELSE file.config.now
        BY <1>3, <3>1
      <3>4. QED
        BY <3>2, <3>3
    <2>3. QED
      BY <2>1, <2>2
  <1>5. ConfigFits'
    BY <1>1, <1>4 DEF QuietInv, ConfigFits, Readable
  <1>6. QED
    BY <1>2, <1>5, QuietStep

LEMMA ConfigQuiet ==
  ASSUME ExportsInv, QuietInv, NEW p \in Processes,
         \/ OpenConfig(p) \/ WriteConfig(p) \/ FinishPut(p)
         \/ \E config \in Configs : PutConfig(p, config)
  PROVE  QuietInv'
  <1> DEFINE c == call[p]
  <1>0. DOMAIN c = CallFields
    BY DEF ExportsInv, ShapeInv
  <1>1. CASE OpenConfig(p)
    <2> DEFINE m == c.found.measured
               reviewed == IF m.reviewed = None THEN 0 ELSE m.reviewed.total
               applied == \/ c.ask.force
                          \/ /\ m.live.runCount >= c.ask.minima["ALL"].runs
                             /\ reviewed >= c.ask.minima["ALL"].reviewed
               recommended == deriveRecommendedThresholds(c.found.config.thresholds, m,
                                                          c.found.config.minima)
               data == ConfigToApply(c.base, c.ask, c.started, applied, recommended)
    <2>1. c.pc = "openConfig" /\ Open(p, "config", "now", data)
          /\ Proceed(p, [c EXCEPT !.pc = "writeConfig", !.found = IF applied THEN m ELSE None])
      BY <1>1 DEF OpenConfig
    <2>2. /\ ThresholdsFit(c.base.thresholds) /\ ThresholdsFit(c.found.config.thresholds)
          /\ GoodMeasures(m)
      BY <2>1 DEF QuietInv, QuietCall
    <2>3. ThresholdsFit(recommended) /\ Quiet(recommended, m)
      BY <2>2, RecommendationFits, RecommendationIsQuiet
    <2>4. data.thresholds = IF applied THEN recommended ELSE c.base.thresholds
      BY DEF ConfigToApply
    <2> HIDE DEF applied, recommended, data
    <2>5. PICK x : x = [c EXCEPT !.pc = "writeConfig", !.found = IF applied THEN m ELSE None]
      OBVIOUS
    <2>6. x.pc = "writeConfig" /\ x.found = IF applied THEN m ELSE None
      BY <1>0, <2>5 DEF CallFields
    <2>7. Proceed(p, x)
      BY <2>1, <2>5
    <2>8. ThresholdsFit(data.thresholds) /\ (x.found # None => Quiet(data.thresholds, x.found))
      BY <2>2, <2>3, <2>4, <2>6
    <2>9. QED
      BY <2>1, <2>6, <2>7, <2>8, OpensQuiet
  <1>2. CASE WriteConfig(p)
    <2>1. c.pc = "writeConfig" /\ Write(p) /\ Proceed(p, NextTask(p))
      BY <1>2 DEF WriteConfig
    <2>2. NextTask(p).pc \notin ConfigPcs
      BY NextTaskRests DEF ExportsInv, Resting, TaskNames, ConfigPcs
    <2>3. QED
      BY <2>1, <2>2, WritesQuiet
  <1>3. CASE FinishPut(p)
    <2>1. c.pc = "put" /\ Write(p) /\ Proceed(p, Idle)
      BY <1>3 DEF FinishPut
    <2>2. Idle.pc \notin ConfigPcs
      BY DEF Idle, ConfigPcs
    <2>3. QED
      BY <2>1, <2>2, WritesQuiet
  <1>4. ASSUME NEW config \in Configs, PutConfig(p, config) PROVE QuietInv'
    <2>1. Open(p, "config", "now", config) /\ Proceed(p, [Idle EXCEPT !.pc = "put"])
      BY <1>4 DEF PutConfig
    <2>2. PICK x : x = [Idle EXCEPT !.pc = "put"]
      OBVIOUS
    <2>3. x.pc = "put"
      BY <2>2, IdleRests DEF CallFields
    <2>4. Proceed(p, x)
      BY <2>1, <2>2
    <2>5. ThresholdsFit(config.thresholds)
      BY MonitoringAssumption
    <2>6. QED
      BY <2>1, <2>3, <2>4, <2>5, OpensQuiet
  <1>5. QED
    BY <1>1, <1>2, <1>3, <1>4

(* Reports and requests leave the configuration alone.                     *)
LEMMA ReportQuiet ==
  ASSUME ExportsInv, QuietInv, NEW p \in Processes,
         \/ runConfiguredValidations(p) \/ buildReviewedDatasetSummary(p)
         \/ runScope(p) \/ LoadScope(p) \/ buildReport(p) \/ saveReport(p)
  PROVE  QuietInv'
  <1> DEFINE c == call[p]
             PCs == {"readiness", "scope", "loadScope", "report", "saveReport"}
  <1>0. DOMAIN c = CallFields
    BY DEF ExportsInv, ShapeInv
  <1>1. ASSUME file' = file, writer' = writer, NEW pc \in PCs, NEW x, Proceed(p, x), x.pc = pc
        PROVE  QuietInv'
    <2>1. x.pc \notin ConfigPcs
      BY <1>1 DEF ConfigPcs
    <2>2. QED
      BY <1>1, <2>1, GoesOnQuiet
  <1>2. CASE runConfiguredValidations(p)
    <2>0. file' = file
      BY <1>2 DEF runConfiguredValidations
    <2>1. \/ Throw(p)
          \/ Proceed(p, NextTask(p)) /\ writer' = writer
          \/ /\ Proceed(p, [c EXCEPT !.pc = "readiness", !.seen = resolveReviewedDatasetFiles])
             /\ writer' = writer
      BY <1>2 DEF runConfiguredValidations
    <2>2. PICK x : x = [c EXCEPT !.pc = "readiness", !.seen = resolveReviewedDatasetFiles]
      OBVIOUS
    <2>3. x.pc = "readiness"
      BY <1>0, <2>2 DEF CallFields
    <2>4. QED
      BY <1>1, <2>0, <2>1, <2>2, <2>3, ThrowQuiet, LeaveQuiet
  <1>3. CASE buildReviewedDatasetSummary(p)
    <2>0. file' = file
      BY <1>3 DEF buildReviewedDatasetSummary
    <2>1. \/ Throw(p)
          \/ Proceed(p, NextTask(p)) /\ writer' = writer
          \/ Proceed(p, [c EXCEPT !.pc = "scope", !.seen = {}]) /\ writer' = writer
      BY <1>3 DEF buildReviewedDatasetSummary
    <2>2. PICK x : x = [c EXCEPT !.pc = "scope", !.seen = {}]
      OBVIOUS
    <2>3. x.pc = "scope"
      BY <1>0, <2>2 DEF CallFields
    <2>4. QED
      BY <1>1, <2>0, <2>1, <2>2, <2>3, ThrowQuiet, LeaveQuiet
  <1>4. CASE runScope(p)
    <2>0. file' = file /\ writer' = writer
      BY <1>4 DEF runScope
    <2>1. PICK x : x = [c EXCEPT !.pc = "loadScope", !.base = GetConfig.thresholds,
                                 !.runs = windowedRuns, !.seen = resolveReviewedDatasetFiles]
      OBVIOUS
    <2>2. x.pc = "loadScope"
      BY <1>0, <2>1 DEF CallFields
    <2>3. Proceed(p, x)
      BY <1>4, <2>1 DEF runScope
    <2>4. QED
      BY <1>1, <2>0, <2>2, <2>3
  <1>5. CASE LoadScope(p)
    <2>0. file' = file
      BY <1>5 DEF LoadScope
    <2>1. \/ Throw(p)
          \/ \E samples, versions :
                /\ Proceed(p, [c EXCEPT !.pc = "report", !.seen = {}, !.dataset = samples,
                                        !.todo = versions])
                /\ writer' = writer
      BY <1>5 DEF LoadScope
    <2>2. ASSUME NEW samples, NEW versions, writer' = writer,
                 Proceed(p, [c EXCEPT !.pc = "report", !.seen = {}, !.dataset = samples,
                                      !.todo = versions])
          PROVE  QuietInv'
      <3>1. PICK x : x = [c EXCEPT !.pc = "report", !.seen = {}, !.dataset = samples,
                                   !.todo = versions]
        OBVIOUS
      <3>2. x.pc = "report"
        BY <1>0, <3>1 DEF CallFields
      <3>3. Proceed(p, x)
        BY <2>2, <3>1
      <3>4. QED
        BY <1>1, <2>0, <2>2, <3>2, <3>3
    <2>3. QED
      BY <2>0, <2>1, <2>2, ThrowQuiet
  <1>6. CASE buildReport(p)
    <2>0. file' = file
      BY <1>6 DEF buildReport
    <2>1. \/ Throw(p)
          \/ \E report : /\ Proceed(p, [c EXCEPT !.pc = "saveReport", !.found = report])
                         /\ writer' = writer
      BY <1>6 DEF buildReport
    <2>2. ASSUME NEW report, Proceed(p, [c EXCEPT !.pc = "saveReport", !.found = report]),
                 writer' = writer
          PROVE  QuietInv'
      <3>1. PICK x : x = [c EXCEPT !.pc = "saveReport", !.found = report]
        OBVIOUS
      <3>2. x.pc = "saveReport"
        BY <1>0, <3>1 DEF CallFields
      <3>3. Proceed(p, x)
        BY <2>2, <3>1
      <3>4. QED
        BY <1>1, <2>0, <2>2, <3>2, <3>3
    <2>3. QED
      BY <2>0, <2>1, <2>2, ThrowQuiet
  <1>7. CASE saveReport(p)
    <2>0. file' = file /\ writer' = writer
      BY <1>7 DEF saveReport
    <2>1. PICK todo : todo = c.todo \ {Min(c.todo)}
      OBVIOUS
    <2>2. PICK x : x = [c EXCEPT !.pc = "report", !.todo = todo, !.found = None]
      OBVIOUS
    <2>3. Proceed(p, NextTask(p)) \/ Proceed(p, x)
      BY <1>7, <2>1, <2>2 DEF saveReport
    <2>4. x.pc = "report"
      BY <1>0, <2>2 DEF CallFields
    <2>5. QED
      BY <1>1, <2>0, <2>3, <2>4, LeaveQuiet
  <1>8. QED
    BY <1>2, <1>3, <1>4, <1>5, <1>6, <1>7

LEMMA AskQuiet ==
  ASSUME ExportsInv, QuietInv,
         \/ Boot \/ Tick
         \/ \E p \in Callers :
               \/ \E task \in Tasks : Ask(p, task[1], task[2], None)
               \/ \E request \in ApplyRequests : Ask(p, "apply", FALSE, request)
  PROVE  QuietInv'
  <1>1. CASE Boot \/ Tick
    <2>0. Proceed(Worker, AtTick) /\ file' = file /\ writer' = writer /\ Worker \in Processes
      BY <1>1 DEF Boot, Tick, Processes
    <2>1. Head(WorkerPlan) = "refresh"
      BY DEF WorkerPlan
    <2>2. PICK x : x = [Idle EXCEPT !.pc = "refresh", !.plan = WorkerPlan]
      OBVIOUS
    <2>3. x.pc \notin ConfigPcs
      BY <2>2, IdleRests DEF CallFields, ConfigPcs
    <2>4. Proceed(Worker, x)
      BY <2>0, <2>1, <2>2 DEF AtTick
    <2>5. QED
      BY <2>0, <2>3, <2>4, GoesOnQuiet
  <1>2. ASSUME NEW p \in Callers, NEW task \in TaskNames, NEW force, NEW request,
               Ask(p, task, force, request)
        PROVE  QuietInv'
    <2>0. Proceed(p, [Idle EXCEPT !.pc = task, !.plan = <<task>>, !.force = force, !.ask = request])
          /\ file' = file /\ writer' = writer /\ p \in Processes
      BY <1>2 DEF Ask, Processes
    <2>1. PICK x : x = [Idle EXCEPT !.pc = task, !.plan = <<task>>, !.force = force, !.ask = request]
      OBVIOUS
    <2>2. x.pc = task
      BY <2>1, IdleRests DEF CallFields
    <2>3. task \notin ConfigPcs
      BY DEF TaskNames, ConfigPcs
    <2>4. Proceed(p, x)
      BY <2>0, <2>1
    <2>5. QED
      BY <2>0, <2>2, <2>3, <2>4, GoesOnQuiet
  <1>3. \A task \in Tasks : task[1] \in TaskNames
    BY MonitoringAssumption DEF TaskNames
  <1>4. "apply" \in TaskNames
    BY DEF TaskNames
  <1>5. QED
    BY <1>1, <1>2, <1>3, <1>4

LEMMA SameConfigQuiet ==
  ASSUME QuietInv, call' = call, writer' = writer, file' = file
  PROVE  QuietInv'
  <1>1. ConfigFits'
    BY DEF QuietInv, ConfigFits, Readable
  <1>2. \A q \in Processes : SameQuiet(q)
    BY DEF SameQuiet
  <1>3. QED
    BY <1>1, <1>2, HeldQuiet

LEMMA QuietInit ==
  ASSUME MonitoringInit
  PROVE  QuietInv
  <1>1. call = [p \in Processes |-> Idle]
    BY DEF MonitoringInit, InitFiles
  <1>2. PICK config \in Installed \cup {None} :
           file = [latest |-> Absent, manifest |-> Absent, config |-> [Absent EXCEPT !.now = config]]
    BY DEF MonitoringInit
  <1>3. file.config.now = config
    BY <1>2 DEF Absent
  <1>4. ConfigFits
    BY <1>3, MonitoringAssumption DEF ConfigFits, Readable
  <1>5. \A p \in Processes : call[p].pc = "idle"
    BY <1>1, IdleRests
  <1>6. QED
    BY <1>4, <1>5 DEF QuietInv, QuietCall

LEMMA QuietNext ==
  ASSUME ExportsInv, QuietInv, [MonitoringNext]_validation
  PROVE  QuietInv'
  <1>1. CASE UNCHANGED validation
    BY <1>1, SameConfigQuiet DEF validation, exportVars
  <1>2. CASE Boot \/ Tick
    BY <1>2, AskQuiet
  <1>3. CASE Crash
    BY <1>3, ExitQuiet DEF Crash
  <1>4. CASE Hour
    BY <1>4, SameConfigQuiet DEF Hour
  <1>5. ASSUME NEW p \in Processes, Step(p) PROVE QuietInv'
    BY <1>5, RefreshQuiet, ApplyQuiet, ConfigQuiet, ReportQuiet DEF Step
  <1>6. ASSUME NEW p \in Callers,
               \/ \E task \in Tasks : Ask(p, task[1], task[2], None)
               \/ \E request \in ApplyRequests : Ask(p, "apply", FALSE, request)
               \/ \E config \in Configs : PutConfig(p, config)
        PROVE  QuietInv'
    <2>1. p \in Processes
      BY DEF Processes
    <2>2. QED
      BY <1>6, <2>1, AskQuiet, ConfigQuiet
  <1>7. ASSUME NEW r \in Runs, NEW state \in Outcomes, NEW labels \in BOOLEAN,
               Decide(r, state, labels)
        PROVE  QuietInv'
    BY <1>7, SameConfigQuiet DEF Decide
  <1>8. QED
    BY <1>1, <1>2, <1>3, <1>4, <1>5, <1>6, <1>7 DEF MonitoringNext

(* What is recommended of any runs and samples does not alert about them,  *)
(* when it is written to the configuration: whatever the thresholds were   *)
(* and whatever else is written meanwhile.                                 *)
THEOREM RecommendationsAreQuiet == MonitoringSpec => []RecommendedThresholdsAreQuiet
  <1>1. MonitoringInit => ExportsInv /\ QuietInv
    BY ExportsInit, QuietInit
  <1>2. ExportsInv /\ QuietInv /\ [MonitoringNext]_validation => (ExportsInv /\ QuietInv)'
    BY ExportsStep, QuietNext
  <1>3. ExportsInv /\ QuietInv => RecommendedThresholdsAreQuiet
    BY InvariantQuiet
  <1>4. QED
    BY <1>1, <1>2, <1>3, PTL DEF MonitoringSpec
=============================================================================
